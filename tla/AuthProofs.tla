------------------------------ MODULE AuthProofs ------------------------------
(***************************************************************************)
(* Proofs about Auth, for any accounts, identities, requests and bounds.   *)
(***************************************************************************)
EXTENDS Auth, SequenceTheorems, TLAPS

-----------------------------------------------------------------------------
(* The inductive invariant                                                 *)

(* Who a request is about: what a provider has said, or the address that   *)
(* somebody typed, for an identity of GitHub or for none.                  *)
Claim ==
  Profile \cup
  [provider : {"github"}, id : Id, email : Address \cup {Nobody}, verified : {FALSE}]

(* The statements of a request that carry an identity.                     *)
Looking == {"byIdentity", "touch", "byEmail", "link", "create", "self", "holder", "linkSelf"}

CallType ==
  [at : Looking \cup {"idle", "signer", "register", "mail", "verify"},
   prof : Claim, ticket : BOOLEAN, row : {0} \cup Row, saw : BOOLEAN,
   token : {0} \cup Token]

TokenType ==
  [kind : {"state", "code", "ticket"}, row : {0} \cup Row, who : Provider \X Id, until : Nat]

PageType ==
  [mounts : 0 .. MaxMount, exchanged : BOOLEAN,
   shows : {"closed", "loader", "home", "error"}]

(* Somebody has shown that the address of row u is theirs.                 *)
Proved(u) ==
  \/ \E k \in opened : mails[k].row = u
  \/ \E i \in vouched : <<u, i>> \in linkedOnce

Histories ==
  /\ vouched \subseteq Identities
  /\ linkedOnce \subseteq Row \X Identities
  /\ Links(users) \subseteq linkedOnce
  /\ events \subseteq EventKind /\ now \in 0 .. LastTick

Mails ==
  /\ mails \in Seq([row : Row, until : Nat]) /\ Len(mails) <= MaxMail
  /\ opened \subseteq DOMAIN mails

Accounts ==
  /\ users \in Seq(UserRow) /\ Len(users) <= MaxRow
  /\ \A u \in Rows : users[u].hash # 0 =>
       users[u].hash \in DOMAIN mails /\ mails[users[u].hash].row = u
  /\ \A u \in Rows : users[u].verified => Proved(u)

(* A stored token has not been accepted; none is accepted twice.           *)
Strings ==
  /\ tokens \in Seq(TokenType) /\ Len(tokens) <= MaxToken
  /\ accepted \in [Token -> Nat]
  /\ store \subseteq DOMAIN tokens
  /\ \A t \in Token : accepted[t] <= 1
  /\ \A t \in store : accepted[t] = 0
  /\ \A t \in Token : t > Len(tokens) => accepted[t] = 0

(* A ticket is for an identity of GitHub, a code for an account that has   *)
(* been linked with the identity it was drawn for.                         *)
Purposes ==
  /\ \A t \in Drawn("ticket") : tokens[t].who \in Identities /\ tokens[t].who[1] = "github"
  /\ \A t \in Drawn("code") : <<tokens[t].row, tokens[t].who>> \in linkedOnce

(* What a request goes on with was true when it was read, and still is.    *)
Relies(r) ==
  /\ r.at \in Looking =>
       /\ Identity(r.prof) \in Identities
       /\ r.prof.verified => Identity(r.prof) \in vouched
       /\ r.prof.provider = "google" => r.prof.email # Nobody
  /\ r.at \in {"byEmail", "create", "register"} => r.prof.email \in Address
  /\ r.at = "touch" => r.prof.verified /\ <<r.row, Identity(r.prof)>> \in linkedOnce
  /\ r.at = "link" /\ r.saw => Proved(r.row)
  /\ r.at = "verify" /\ r.saw => \E k \in opened : mails[k].row = r.row
  /\ r.at = "signer" => r.token \in Token

Calls ==
  /\ call \in [Call -> CallType]
  /\ \A c \in Call : Relies(call[c])

(* At most one request exchanges a code, and the page that waits for it    *)
(* has not failed.                                                         *)
Waiting ==
  /\ page \in [Token -> PageType]
  /\ \A c, d \in Call :
       call[c].at = "signer" /\ call[d].at = "signer" /\ call[c].token = call[d].token => c = d
  /\ \A t \in Token :
       /\ page[t].shows = "error" => ~ page[t].exchanged /\ ~ Asked(t)
       /\ page[t].shows = "loader" => Asked(t)

IInv ==
  Histories /\ Mails /\ Accounts /\ Strings /\ Purposes /\ Calls /\ Waiting

-----------------------------------------------------------------------------
(* The strings: what may happen to them, and how OneTimeToken sees it      *)

(* What the abstract specification sees of the strings is a function.      *)
LEMMA Seen ==
  ASSUME \A t \in Token :
           \/ /\ Phase(t) = "unissued" /\ Phase(t)' = "live"
              /\ \E life \in {StateLife, CodeLife, TicketLife} : tokens'[t].until = now + life
              /\ t \notin DOMAIN tokens /\ t \in DOMAIN tokens'
           \/ /\ t \in DOMAIN tokens <=> t \in DOMAIN tokens'
              /\ t \in DOMAIN tokens => tokens'[t].until = tokens[t].until
              /\ \/ Phase(t)' = Phase(t)
                 \/ Phase(t) = "live" /\ Phase(t)' = "lost"
                 \/ /\ Phase(t) = "live" /\ Phase(t)' = "spent"
                    /\ t \in DOMAIN tokens /\ now <= tokens[t].until,
         now <= now'
  PROVE  OneTime!Next
  <1>1. ASSUME NEW t \in Token
        PROVE  OneTime!Issue(t) \/ OneTime!Redeem(t) \/ OneTime!Lose(t) \/ OneTime!Rest(t)
    BY <1>1 DEF OneTime!Issue, OneTime!Redeem, OneTime!Lose, OneTime!Rest
  <1>2. now' >= now
    OBVIOUS
  <1> QED BY <1>1, <1>2 DEF OneTime!Next

(* Strings that nobody touches may be lost, and time may pass.             *)
LEMMA StringsKept ==
  ASSUME Strings, UNCHANGED <<tokens, accepted>>, store' \subseteq store,
         now \in Int, now' \in Int, now <= now'
  PROVE  Strings' /\ OneTime!Next
  <1>1. Strings'
    BY DEF Strings
  <1>2. \A t \in Token : Phase(t)' = Phase(t) \/ (Phase(t) = "live" /\ Phase(t)' = "lost")
    <2> SUFFICES ASSUME NEW t \in Token
                 PROVE  Phase(t)' = Phase(t) \/ (Phase(t) = "live" /\ Phase(t)' = "lost")
      OBVIOUS
    <2>1. CASE t \in store /\ t \notin store'
      <3>1. accepted[t] = 0 /\ t \in DOMAIN tokens
        BY <2>1 DEF Strings
      <3>2. ~ (t > Len(tokens))
        BY <3>1 DEF Strings
      <3> QED BY <2>1, <3>1, <3>2 DEF Phase
    <2>2. CASE ~ (t \in store /\ t \notin store')
      BY <2>2 DEF Phase
    <2> QED BY <2>1, <2>2
  <1>3. OneTime!Next
    BY <1>2, Seen
  <1> QED BY <1>1, <1>3

(* A string that is drawn is a new one.                                    *)
LEMMA StringsDrawn ==
  ASSUME Strings, NEW kept \in SUBSET store, NEW kind \in {"state", "code", "ticket"},
         NEW u \in {0} \cup Row, NEW i \in Provider \X Id,
         NEW life \in {StateLife, CodeLife, TicketLife},
         Draw(kept, kind, u, i, life), accepted' = accepted, now \in Nat, now' = now
  PROVE  /\ Strings' /\ OneTime!Next
         /\ DOMAIN tokens' = DOMAIN tokens \cup {Len(tokens) + 1}
         /\ \A t \in DOMAIN tokens : tokens'[t] = tokens[t]
         /\ tokens'[Len(tokens) + 1] = [kind |-> kind, row |-> u, who |-> i, until |-> now + life]
  <1>0. PICK n : n = Len(tokens) + 1
    OBVIOUS
  <1> DEFINE drawn == [kind |-> kind, row |-> u, who |-> i, until |-> now + life]
  <1>1. drawn \in TokenType
    <2>1. life \in Nat
      BY AuthAssumption
    <2>2. now + life \in Nat
      BY <2>1
    <2> QED BY <2>2 DEF TokenType
  <1>2. /\ tokens \in Seq(TokenType) /\ Len(tokens) \in Nat /\ DOMAIN tokens = 1 .. Len(tokens)
        /\ Len(tokens) < MaxToken /\ MaxToken \in Nat
    BY AuthAssumption DEF Strings, Draw
  <1> HIDE DEF drawn
  <1>3. tokens' = Append(tokens, drawn) /\ store' = kept \cup {n}
    BY <1>0 DEF Draw, drawn
  <1>4. /\ tokens' \in Seq(TokenType) /\ Len(tokens') = n /\ DOMAIN tokens' = 1 .. n
        /\ \A t \in 1 .. Len(tokens) : tokens'[t] = tokens[t]
        /\ tokens'[n] = drawn
    BY <1>0, <1>1, <1>2, <1>3
  <1>5. n \in Token
    BY <1>0, <1>2 DEF Token
  <1>6. accepted[n] = 0
    BY <1>0, <1>2, <1>5 DEF Strings
  <1>7. DOMAIN tokens' = DOMAIN tokens \cup {n}
    BY <1>0, <1>2, <1>4
  <1>8. Strings'
    BY <1>0, <1>2, <1>3, <1>4, <1>5, <1>6 DEF Strings, Token
  <1>9. OneTime!Next
    <2>1. ASSUME NEW t \in Token, t # n
          PROVE  /\ t \in DOMAIN tokens <=> t \in DOMAIN tokens'
                 /\ t \in DOMAIN tokens => tokens'[t].until = tokens[t].until
                 /\ Phase(t)' = Phase(t) \/ (Phase(t) = "live" /\ Phase(t)' = "lost")
      <3>1. t \in DOMAIN tokens <=> t \in DOMAIN tokens'
        BY <2>1, <1>7
      <3>2. t > Len(tokens) <=> t > Len(tokens')
        BY <2>1, <1>0, <1>2, <1>4 DEF Token
      <3>3. CASE t \in store /\ t \notin store'
        <4>1. accepted[t] = 0 /\ ~ (t > Len(tokens))
          BY <3>3, <1>2 DEF Strings
        <4> QED BY <3>1, <3>2, <3>3, <4>1, <1>2, <1>4 DEF Phase
      <3>4. CASE ~ (t \in store /\ t \notin store')
        <4>1. t \in store' <=> t \in store
          BY <2>1, <3>4, <1>3
        <4> QED BY <3>1, <3>2, <4>1, <1>2, <1>4 DEF Phase
      <3> QED BY <3>3, <3>4
    <2>2. Phase(n) = "unissued" /\ Phase(n)' = "live"
      <3>1. n > Len(tokens) /\ ~ (n > Len(tokens')) /\ accepted'[n] = 0 /\ n \in store'
        BY <1>0, <1>2, <1>3, <1>4, <1>6
      <3> QED BY <3>1 DEF Phase
    <2>3. /\ tokens'[n].until = now + life /\ n \notin DOMAIN tokens /\ n \in DOMAIN tokens'
      BY <1>0, <1>2, <1>4 DEF drawn
    <2>4. now <= now'
      OBVIOUS
    <2> QED BY <2>1, <2>2, <2>3, <2>4, Seen
  <1> QED BY <1>0, <1>2, <1>4, <1>7, <1>8, <1>9 DEF drawn

(* A string is accepted when it is stored and its time has not passed.     *)
LEMMA StringsAccepted ==
  ASSUME Strings, NEW t \in DOMAIN tokens, Accept(t), tokens' = tokens,
         now \in Nat, now' = now
  PROVE  Strings' /\ OneTime!Next
  <1>1. /\ Len(tokens) \in Nat /\ DOMAIN tokens = 1 .. Len(tokens) /\ t \in Token
    BY AuthAssumption DEF Strings, Token
  <1>2. /\ store' \subseteq store \ {t}
        /\ \A x \in Token \ {t} : accepted'[x] = accepted[x]
        /\ t \in Fresh => (t \in store /\ now <= tokens[t].until
                           /\ accepted[t] = 0 /\ accepted'[t] = 1)
        /\ t \notin Fresh => accepted'[t] = accepted[t]
        /\ accepted' \in [Token -> Nat]
    <2>1. Fresh \subseteq store /\ (t \in Fresh => t \in store /\ tokens[t].until >= now)
      BY DEF Fresh
    <2>2. t \in store => accepted[t] = 0
      BY DEF Strings
    <2>3. accepted[t] \in Nat
      BY <1>1 DEF Strings
    <2>4. tokens[t].until \in Int
      <3>1. tokens[t] \in TokenType
        BY DEF Strings
      <3> QED BY <3>1 DEF TokenType
    <2> QED BY <1>1, <2>1, <2>2, <2>3, <2>4 DEF Accept, Deleted, Strings
  <1>3. Strings'
    <2>1. \A x \in Token : accepted'[x] <= 1
      BY <1>2 DEF Strings
    <2>2. \A x \in store' : x \in Token /\ x # t /\ x \in store
      BY <1>1, <1>2, AuthAssumption DEF Strings, Token
    <2>3. \A x \in store' : accepted'[x] = 0
      BY <2>2, <1>2 DEF Strings
    <2>4. \A x \in Token : x > Len(tokens) => accepted'[x] = 0
      BY <1>1, <1>2 DEF Strings
    <2>5. store' \subseteq DOMAIN tokens
      BY <2>2 DEF Strings
    <2> QED BY <2>1, <2>3, <2>4, <2>5, <1>2 DEF Strings
  <1>4. OneTime!Next
    <2>1. ASSUME NEW x \in Token, x # t
          PROVE  Phase(x)' = Phase(x) \/ (Phase(x) = "live" /\ Phase(x)' = "lost")
      <3>1. CASE x \in store /\ x \notin store'
        <4>1. accepted[x] = 0 /\ ~ (x > Len(tokens))
          BY <3>1, <1>1 DEF Strings
        <4> QED BY <2>1, <3>1, <4>1, <1>2 DEF Phase
      <3>2. CASE ~ (x \in store /\ x \notin store')
        BY <2>1, <3>2, <1>2 DEF Phase
      <3> QED BY <3>1, <3>2
    <2>2. ~ (t > Len(tokens))
      BY <1>1
    <2>3. CASE t \in Fresh
      <3>1. Phase(t) = "live" /\ Phase(t)' = "spent"
        BY <2>2, <2>3, <1>2 DEF Phase
      <3> QED BY <2>1, <3>1, <2>3, <1>2, Seen
    <2>4. CASE t \notin Fresh
      <3>1. Phase(t)' = Phase(t) \/ (Phase(t) = "live" /\ Phase(t)' = "lost")
        <4>1. t \in store => accepted[t] = 0
          BY DEF Strings
        <4> QED BY <2>2, <2>4, <4>1, <1>2 DEF Phase
      <3> QED BY <2>1, <3>1, <1>1, Seen
    <2> QED BY <2>3, <2>4
  <1> QED BY <1>3, <1>4

-----------------------------------------------------------------------------
(* What has been learnt is not forgotten                                   *)

Grows ==
  /\ vouched \subseteq vouched' /\ linkedOnce \subseteq linkedOnce'
  /\ opened \subseteq opened'
  /\ \A k \in DOMAIN mails : k \in DOMAIN mails' /\ mails'[k] = mails[k]

(* The history of links that every step adds to.                           *)
Remembers == linkedOnce' = linkedOnce \cup Links(users') /\ UNCHANGED events

(* An identity is a pair of a provider and an id.                          *)
LEMMA Pairs ==
  /\ \A i \in Identities : i \in Provider \X Id /\ i = <<i[1], i[2]>>
  /\ \A p \in Profile : Identity(p) \in Identities
  BY AuthAssumption DEF Identities, Identity, Id

(* What a request may say of who signs in.                                 *)
LEMMA Claims ==
  ASSUME NEW p \in Claim
  PROVE  /\ p.provider \in Provider /\ p.id \in Id
         /\ p.email \in Address \cup {Nobody} /\ p.verified \in BOOLEAN
         /\ Identity(p) = <<p.provider, p.id>> /\ Identity(p) \in Provider \X Id
         /\ Identity(p)[1] = p.provider /\ Identity(p)[2] = p.id
  <1>1. ASSUME p \in Profile
        PROVE  /\ p.provider \in Provider /\ p.id \in Id
               /\ p.email \in Address \cup {Nobody} /\ p.verified \in BOOLEAN
    <2>1. Identity(p) \in Identities /\ Identity(p)[2] = p.id
      BY <1>1 DEF Identities, Identity
    <2> QED BY <1>1, <2>1, AuthAssumption DEF Id
  <1>2. ASSUME p \in [provider : {"github"}, id : Id, email : Address \cup {Nobody},
                       verified : {FALSE}]
        PROVE  /\ p.provider \in Provider /\ p.id \in Id
               /\ p.email \in Address \cup {Nobody} /\ p.verified \in BOOLEAN
    BY <1>2 DEF Provider
  <1>3. /\ p.provider \in Provider /\ p.id \in Id
        /\ p.email \in Address \cup {Nobody} /\ p.verified \in BOOLEAN
    BY <1>1, <1>2 DEF Claim
  <1> QED BY <1>3 DEF Identity

(* An idle request is a request that relies on nothing.                    *)
LEMMA Idle == NoCall \in CallType /\ NoProfile \in Claim /\ NoCall.at = "idle"
  <1>1. NoProfile \in Claim
    BY DEF NoProfile, Claim, Id
  <1> QED BY <1>1 DEF NoCall, CallType

LEMMA ProvedStill ==
  ASSUME Mails, Grows, NEW u, Proved(u)
  PROVE  Proved(u)'
  BY DEF Mails, Grows, Proved

(* What a request relies on stays true.                                    *)
LEMMA ReliesStill ==
  ASSUME Mails, Grows, NEW r, Relies(r)
  PROVE  Relies(r)'
  <1>1. Proved(r.row) => Proved(r.row)'
    BY ProvedStill
  <1>2. (\E k \in opened : mails[k].row = r.row) => (\E k \in opened' : mails'[k].row = r.row)
    BY DEF Mails, Grows
  <1> QED BY <1>1, <1>2 DEF Relies, Grows

LEMMA PurposesKept ==
  ASSUME Purposes, Grows, tokens' = tokens
  PROVE  Purposes'
  BY DEF Purposes, Grows, Drawn

(* No row changes, while somebody may be vouched for and open a mail.      *)
LEMMA RowsKept ==
  ASSUME IInv, Remembers, UNCHANGED <<users, mails>>, now' \in 0 .. LastTick,
         opened \subseteq opened', opened' \subseteq DOMAIN mails,
         vouched \subseteq vouched', vouched' \subseteq Identities
  PROVE  Grows /\ Histories' /\ Mails' /\ Accounts'
  <1>1. Links(users') = Links(users)
    OBVIOUS
  <1>2. Grows
    BY DEF Grows, Remembers
  <1>3. Histories'
    BY <1>1 DEF IInv, Histories, Remembers
  <1>4. Mails'
    BY DEF IInv, Mails
  <1>5. Accounts'
    <2>1. \A u \in Rows' : users'[u].verified => Proved(u)'
      <3> SUFFICES ASSUME NEW u \in Rows', users'[u].verified
                   PROVE  Proved(u)'
        OBVIOUS
      <3>1. Proved(u)
        BY DEF IInv, Accounts, Rows
      <3> QED BY <3>1, <1>2, ProvedStill DEF IInv
    <2> QED BY <2>1 DEF IInv, Accounts, Rows
  <1> QED BY <1>2, <1>3, <1>4, <1>5

(* The links of some rows are pairs of a row and an identity.              *)
LEMMA LinksOf ==
  ASSUME NEW R, NEW u \in DOMAIN R, NEW i \in Identities, ~ R[u].gone, R[u].ids[i[1]] = i[2]
  PROVE  <<u, i>> \in Links(R)
  BY DEF Links

(* One row changes: it keeps the hash it has or loses it, and it is        *)
(* verified only if it was, or with a proof.                               *)
LEMMA RowChanged ==
  ASSUME IInv, Remembers, UNCHANGED <<mails, vouched, opened, now>>,
         NEW u \in Rows, NEW row \in UserRow, users' = [users EXCEPT ![u] = row],
         row.hash \in {0, users[u].hash},
         row.verified => \/ users[u].verified \/ Proved(u)
                         \/ \E i \in vouched : ~ row.gone /\ row.ids[i[1]] = i[2]
  PROVE  /\ Grows /\ Histories' /\ Mails' /\ Accounts'
         /\ \A i \in Identities : ~ row.gone /\ row.ids[i[1]] = i[2] => <<u, i>> \in linkedOnce'
  <1>1. /\ users' \in Seq(UserRow) /\ Len(users') = Len(users) /\ DOMAIN users' = DOMAIN users
        /\ u \in DOMAIN users /\ users'[u] = row
        /\ \A x \in DOMAIN users \ {u} : users'[x] = users[x]
    <2>1. users \in Seq(UserRow) /\ u \in DOMAIN users
      BY DEF IInv, Accounts, Rows
    <2> QED BY <2>1
  <1>2. Grows
    BY DEF Grows, Remembers
  <1>3. \A i \in Identities : ~ row.gone /\ row.ids[i[1]] = i[2] => <<u, i>> \in linkedOnce'
    <2> SUFFICES ASSUME NEW i \in Identities, ~ row.gone /\ row.ids[i[1]] = i[2]
                 PROVE  <<u, i>> \in linkedOnce'
      OBVIOUS
    <2>1. PICK R : R = users'
      OBVIOUS
    <2>2. <<u, i>> \in Links(R)
      BY <1>1, <2>1, LinksOf
    <2> QED BY <2>1, <2>2 DEF Remembers
  <1>4. Histories'
    <2>1. Links(users') \subseteq Row \X Identities
      <3>1. DOMAIN users' \subseteq Row
        BY <1>1, AuthAssumption DEF IInv, Accounts, Row
      <3> QED BY <3>1 DEF Links
    <2> QED BY <2>1 DEF IInv, Histories, Remembers
  <1>5. Mails'
    BY DEF IInv, Mails
  <1>6. Accounts'
    <2>1. ASSUME NEW x \in Rows'
          PROVE  /\ users'[x].hash # 0 =>
                      users'[x].hash \in DOMAIN mails' /\ mails'[users'[x].hash].row = x
                 /\ users'[x].verified => Proved(x)'
      <3>1. CASE x = u
        <4>1. users'[x] = row /\ ~ row.gone
          BY <3>1, <1>1 DEF Rows
        <4>2. row.hash # 0 => row.hash \in DOMAIN mails' /\ mails'[row.hash].row = x
          BY <3>1 DEF IInv, Accounts
        <4>3. row.verified => Proved(x)'
          <5>1. users[u].verified => Proved(u)
            BY DEF IInv, Accounts
          <5>2. Proved(u) => Proved(u)'
            BY <1>2, ProvedStill DEF IInv
          <5>3. (\E i \in vouched : row.ids[i[1]] = i[2]) => Proved(u)'
            BY <1>3, <4>1 DEF Proved, IInv, Histories
          <5> QED BY <3>1, <5>1, <5>2, <5>3
        <4> QED BY <4>1, <4>2, <4>3
      <3>2. CASE x # u
        <4>1. x \in Rows /\ users'[x] = users[x]
          BY <3>2, <1>1 DEF Rows
        <4>2. Proved(x) => Proved(x)'
          BY <1>2, ProvedStill DEF IInv
        <4> QED BY <4>1, <4>2 DEF IInv, Accounts
      <3> QED BY <3>1, <3>2
    <2> QED BY <2>1, <1>1 DEF Accounts, IInv
  <1> QED BY <1>2, <1>3, <1>4, <1>5, <1>6

(* A row is inserted, verified only if a provider vouches for it.          *)
LEMMA RowInserted ==
  ASSUME IInv, Remembers, UNCHANGED <<mails, vouched, opened, now>>,
         NEW row \in UserRow, users' = Append(users, row), Len(users) < MaxRow,
         row.hash = 0, ~ row.gone,
         row.verified => \E i \in vouched : row.ids[i[1]] = i[2]
  PROVE  /\ Grows /\ Histories' /\ Mails' /\ Accounts'
         /\ Len(users) + 1 \in Row
         /\ \A i \in Identities : row.ids[i[1]] = i[2] => <<Len(users) + 1, i>> \in linkedOnce'
  <1>0. PICK n : n = Len(users) + 1
    OBVIOUS
  <1>1. /\ users' \in Seq(UserRow) /\ Len(users') = n /\ DOMAIN users' = 1 .. n
        /\ DOMAIN users = 1 .. Len(users) /\ Len(users) \in Nat /\ n \in Row
        /\ users'[n] = row /\ \A x \in DOMAIN users : x \in DOMAIN users' /\ users'[x] = users[x]
        /\ DOMAIN users' = DOMAIN users \cup {n} /\ n \notin DOMAIN users
        /\ Len(users') <= MaxRow
    <2>1. users \in Seq(UserRow) /\ MaxRow \in Nat
      BY AuthAssumption DEF IInv, Accounts
    <2> QED BY <1>0, <2>1 DEF Row
  <1>2. Grows
    BY DEF Grows, Remembers
  <1>3. \A i \in Identities : row.ids[i[1]] = i[2] => <<n, i>> \in linkedOnce'
    <2> SUFFICES ASSUME NEW i \in Identities, row.ids[i[1]] = i[2]
                 PROVE  <<n, i>> \in linkedOnce'
      OBVIOUS
    <2>1. PICK R : R = users'
      OBVIOUS
    <2>2. <<n, i>> \in Links(R)
      BY <1>1, <2>1, LinksOf
    <2> QED BY <2>1, <2>2 DEF Remembers
  <1>4. Histories'
    <2>1. Links(users') \subseteq Row \X Identities
      <3>1. DOMAIN users' \subseteq Row
        BY <1>1, AuthAssumption DEF Row
      <3> QED BY <3>1 DEF Links
    <2> QED BY <2>1 DEF IInv, Histories, Remembers
  <1>5. Mails'
    BY DEF IInv, Mails
  <1>6. Accounts'
    <2>1. ASSUME NEW x \in Rows'
          PROVE  /\ users'[x].hash # 0 =>
                      users'[x].hash \in DOMAIN mails' /\ mails'[users'[x].hash].row = x
                 /\ users'[x].verified => Proved(x)'
      <3>1. CASE x = n
        <4>1. row.verified => Proved(x)'
          BY <3>1, <1>3 DEF Proved, IInv, Histories
        <4> QED BY <3>1, <1>1, <4>1
      <3>2. CASE x # n
        <4>1. x \in Rows /\ users'[x] = users[x]
          BY <3>2, <1>1 DEF Rows
        <4>2. Proved(x) => Proved(x)'
          BY <1>2, ProvedStill DEF IInv
        <4> QED BY <4>1, <4>2 DEF IInv, Accounts
      <3> QED BY <3>1, <3>2
    <2> QED BY <2>1, <1>1 DEF Accounts, IInv
  <1> QED BY <1>0, <1>1, <1>2, <1>3, <1>4, <1>5, <1>6

(* What a step has to show: the invariant, and that OneTimeToken allows it. *)
Carries == IInv' /\ OneTime!Next

LEMMA StringsUntouched ==
  ASSUME IInv, Grows, UNCHANGED <<tokens, store, accepted, now>>
  PROVE  Strings' /\ Purposes' /\ OneTime!Next
  <1>1. now \in Int /\ now <= now'
    BY DEF IInv, Histories
  <1>2. Strings' /\ OneTime!Next
    BY <1>1, StringsKept DEF IInv
  <1>3. Purposes'
    BY PurposesKept DEF IInv
  <1> QED BY <1>2, <1>3

(* A string that is drawn for a purpose that the invariant allows.         *)
LEMMA DrawnFor ==
  ASSUME IInv, Grows, NEW kept \in SUBSET store, NEW kind \in {"state", "code", "ticket"},
         NEW u \in {0} \cup Row, NEW i \in Provider \X Id,
         NEW life \in {StateLife, CodeLife, TicketLife},
         Draw(kept, kind, u, i, life), UNCHANGED <<accepted, now>>,
         kind = "ticket" => i \in Identities /\ i[1] = "github",
         kind = "code" => <<u, i>> \in linkedOnce'
  PROVE  Strings' /\ Purposes' /\ OneTime!Next
  <1>1. now \in Nat
    BY DEF IInv, Histories
  <1>2. /\ Strings' /\ OneTime!Next
        /\ DOMAIN tokens' = DOMAIN tokens \cup {Len(tokens) + 1}
        /\ \A t \in DOMAIN tokens : tokens'[t] = tokens[t]
        /\ tokens'[Len(tokens) + 1] = [kind |-> kind, row |-> u, who |-> i, until |-> now + life]
    BY <1>1, StringsDrawn DEF IInv
  <1>3. ASSUME NEW t \in DOMAIN tokens'
        PROVE  /\ tokens'[t].kind = "ticket" =>
                    tokens'[t].who \in Identities /\ tokens'[t].who[1] = "github"
               /\ tokens'[t].kind = "code" => <<tokens'[t].row, tokens'[t].who>> \in linkedOnce'
    <2>1. CASE t \in DOMAIN tokens
      BY <2>1, <1>2 DEF IInv, Purposes, Drawn, Grows
    <2>2. CASE t = Len(tokens) + 1
      <3>1. /\ tokens'[t].kind = kind /\ tokens'[t].row = u /\ tokens'[t].who = i
        BY <2>2, <1>2
      <3> QED BY <3>1
    <2> QED BY <2>1, <2>2, <1>2
  <1> QED BY <1>2, <1>3 DEF Purposes, Drawn

LEMMA CodeDrawnFor ==
  ASSUME IInv, Grows, NEW u \in Row, NEW i \in Identities, <<u, i>> \in linkedOnce',
         DrawCode(u, i), UNCHANGED <<accepted, now>>
  PROVE  Strings' /\ Purposes' /\ OneTime!Next
  <1>1. i \in Provider \X Id
    BY Pairs
  <1>2. Draw(store, "code", u, i, CodeLife)
    BY DEF DrawCode
  <1> QED BY <1>1, <1>2, DrawnFor

(* A request that exchanges no code goes on, or is done.                   *)
LEMMA CallMoves ==
  ASSUME IInv, Grows, NEW c \in Call, NEW r \in CallType, Relies(r)', r.at # "signer",
         call[c].at # "signer", call' = [call EXCEPT ![c] = r], page' = page
  PROVE  Calls' /\ Waiting'
  <1>1. /\ call' \in [Call -> CallType] /\ call'[c] = r
        /\ \A d \in Call \ {c} : call'[d] = call[d]
    BY DEF IInv, Calls
  <1>2. Calls'
    <2> SUFFICES ASSUME NEW d \in Call
                 PROVE  Relies(call[d])'
      BY <1>1 DEF Calls
    <2>1. CASE d = c
      BY <2>1, <1>1 DEF Relies, Proved
    <2>2. CASE d # c
      <3>1. PICK q : q = call[d]
        OBVIOUS
      <3>2. call'[d] = q /\ Relies(q)
        BY <2>2, <3>1, <1>1 DEF IInv, Calls
      <3>3. Relies(q)'
        BY <3>2, ReliesStill DEF IInv
      <3> QED BY <3>2, <3>3 DEF Relies, Proved
    <2> QED BY <2>1, <2>2
  <1>3. \A d \in Call : call'[d].at = "signer" <=> call[d].at = "signer"
    BY <1>1
  <1>4. \A d \in Call : call'[d].at = "signer" => call'[d] = call[d]
    BY <1>1
  <1>5. \A t \in Token : Asked(t)' <=> Asked(t)
    BY <1>3, <1>4 DEF Asked
  <1>6. Waiting'
    <2>1. \A x, y \in Call :
            call'[x].at = "signer" /\ call'[y].at = "signer" /\ call'[x].token = call'[y].token
              => x = y
      BY <1>3, <1>4 DEF IInv, Waiting
    <2> QED BY <2>1, <1>5 DEF IInv, Waiting
  <1> QED BY <1>2, <1>6

LEMMA CallEnds ==
  ASSUME IInv, Grows, NEW c \in Call, call[c].at # "signer", Ends(c), page' = page
  PROVE  Calls' /\ Waiting'
  <1>1. PICK r : r = NoCall
    OBVIOUS
  <1>2. r \in CallType /\ r.at = "idle"
    BY <1>1, Idle
  <1>3. Relies(r)'
    BY <1>2 DEF Relies, Looking
  <1> QED BY <1>1, <1>2, <1>3, CallMoves DEF Ends

LEMMA CallsUntouched ==
  ASSUME IInv, Grows, UNCHANGED <<call, page>>
  PROVE  Calls' /\ Waiting'
  <1>1. \A d \in Call : Relies(call[d])'
    <2> SUFFICES ASSUME NEW d \in Call
                 PROVE  Relies(call[d])'
      OBVIOUS
    <2>1. PICK q : q = call[d]
      OBVIOUS
    <2>2. Relies(q)
      BY <2>1 DEF IInv, Calls
    <2>3. Relies(q)'
      BY <2>2, ReliesStill DEF IInv
    <2> QED BY <2>1, <2>3 DEF Relies, Proved
  <1>2. Calls'
    BY <1>1 DEF IInv, Calls
  <1>3. Waiting'
    BY DEF IInv, Waiting, Asked
  <1> QED BY <1>2, <1>3

(* What a request at a statement is.                                       *)
LEMMA AtStatement ==
  ASSUME IInv, NEW c \in Call
  PROVE  /\ call[c] \in CallType /\ Relies(call[c]) /\ call[c].prof \in Claim
         /\ call[c].at \in Looking => Identity(call[c].prof) \in Identities
  BY DEF IInv, Calls, CallType, Relies

-----------------------------------------------------------------------------
(* Signing in                                                              *)

LEMMA CreateStateCarries ==
  ASSUME IInv, Remembers, NEW u \in {0} \cup DOMAIN users, CreateState(u)
  PROVE  Carries
  <1>1. Grows /\ Histories' /\ Mails' /\ Accounts'
    BY RowsKept DEF CreateState, IInv, Histories, Mails
  <1>2. Strings' /\ Purposes' /\ OneTime!Next
    <2>1. u \in {0} \cup Row
      BY AuthAssumption DEF IInv, Accounts, Row
    <2>2. <<"github", Nobody>> \in Provider \X Id
      BY DEF Provider, Id
    <2>3. Fresh \in SUBSET store
      BY DEF Fresh
    <2>4. PICK kept, i : kept = Fresh /\ i = <<"github", Nobody>>
      OBVIOUS
    <2>5. Draw(kept, "state", u, i, StateLife) /\ UNCHANGED <<accepted, now>>
      BY <2>4 DEF CreateState
    <2> QED BY <1>1, <2>1, <2>2, <2>3, <2>4, <2>5, DrawnFor
  <1>3. Calls' /\ Waiting'
    BY <1>1, CallsUntouched DEF CreateState
  <1> QED BY <1>1, <1>2, <1>3 DEF Carries, IInv

LEMMA ResolveCallbackCarries ==
  ASSUME IInv, Remembers, NEW c \in Call, NEW t \in Token, NEW p \in Profile,
         ResolveCallback(c, t, p)
  PROVE  Carries
  <1>1. /\ t \in DOMAIN tokens /\ Accept(t) /\ call[c].at = "idle"
        /\ UNCHANGED <<users, tokens, mails, page, opened, now>>
    BY DEF ResolveCallback, Drawn, Free
  <1>2. now \in Nat /\ now' \in 0 .. LastTick
    BY <1>1 DEF IInv, Histories
  <1>3. Identity(p) \in Identities /\ p \in Claim
    BY Pairs DEF Claim
  <1>4. vouched \subseteq vouched' /\ vouched' \subseteq Identities
    BY <1>3 DEF ResolveCallback, IInv, Histories
  <1>5. Grows /\ Histories' /\ Mails' /\ Accounts'
    BY <1>1, <1>2, <1>4, RowsKept DEF IInv, Mails
  <1>6. Strings' /\ OneTime!Next
    BY <1>1, <1>2, StringsAccepted DEF IInv
  <1>7. Purposes'
    BY <1>1, <1>5, PurposesKept DEF IInv
  <1>8. Calls' /\ Waiting'
    <2>1. CASE t \in Fresh /\ (p.provider = "google" => p.email # Nobody)
      <3>1. PICK r : r = [NoCall EXCEPT !.prof = p, !.row = tokens[t].row,
                            !.at = IF tokens[t].row = 0 THEN "byIdentity" ELSE "self"]
        OBVIOUS
      <3>2. tokens[t].row \in {0} \cup Row
        <4>1. tokens[t] \in TokenType
          BY <1>1 DEF IInv, Strings
        <4> QED BY <4>1 DEF TokenType
      <3>3. /\ r \in CallType /\ r.prof = p /\ r.at \in {"byIdentity", "self"}
        BY <1>3, <3>1, <3>2, Idle DEF CallType, Looking
      <3>4. p.verified => Identity(p) \in vouched'
        BY <2>1 DEF ResolveCallback
      <3>5. Relies(r)'
        BY <1>3, <2>1, <3>3, <3>4 DEF Relies
      <3>6. call' = [call EXCEPT ![c] = r]
        BY <2>1, <3>1 DEF ResolveCallback, Starts
      <3> QED BY <1>1, <1>5, <3>3, <3>5, <3>6, CallMoves
    <2>2. CASE ~ (t \in Fresh /\ (p.provider = "google" => p.email # Nobody))
      <3>1. UNCHANGED <<call, page>>
        BY <2>2, <1>1 DEF ResolveCallback
      <3> QED BY <3>1, <1>5, CallsUntouched
    <2> QED BY <2>1, <2>2
  <1> QED BY <1>5, <1>6, <1>7, <1>8 DEF Carries, IInv

LEMMA CompleteGithubEmailCarries ==
  ASSUME IInv, Remembers, NEW c \in Call, NEW t \in Token, NEW e \in Address,
         CompleteGithubEmail(c, t, e)
  PROVE  Carries
  <1>1. /\ t \in Drawn("ticket") /\ t \in DOMAIN tokens /\ Accept(t) /\ call[c].at = "idle"
        /\ UNCHANGED <<users, tokens, mails, page, vouched, opened, now>>
    BY DEF CompleteGithubEmail, Drawn, Free
  <1>2. now \in Nat
    BY DEF IInv, Histories
  <1>3. Grows /\ Histories' /\ Mails' /\ Accounts'
    BY <1>1, RowsKept DEF IInv, Mails, Histories
  <1>4. Strings' /\ OneTime!Next
    BY <1>1, <1>2, StringsAccepted DEF IInv
  <1>5. Purposes'
    BY <1>1, <1>3, PurposesKept DEF IInv
  <1>6. Calls' /\ Waiting'
    <2>1. CASE t \in Fresh
      <3>1. PICK i : i = tokens[t].who
        OBVIOUS
      <3>2. i \in Identities /\ i[1] = "github"
        BY <1>1, <3>1 DEF IInv, Purposes
      <3>3. i \in Provider \X Id /\ i = <<i[1], i[2]>> /\ i[2] \in Id
        BY <3>2, Pairs
      <3>4. PICK p : p = [NoProfile EXCEPT !.id = i[2], !.email = e]
        OBVIOUS
      <3>5. /\ p \in Claim /\ p.provider = "github" /\ p.id = i[2] /\ p.verified = FALSE
        BY <3>3, <3>4 DEF NoProfile, Claim
      <3>6. Identity(p) = i
        BY <3>2, <3>3, <3>5 DEF Identity
      <3>7. PICK r : r = [NoCall EXCEPT !.at = "byIdentity", !.ticket = TRUE, !.prof = p]
        OBVIOUS
      <3>8. r \in CallType /\ r.at = "byIdentity" /\ r.prof = p
        BY <3>5, <3>7, Idle DEF CallType, Looking
      <3>9. Relies(r)'
        BY <3>2, <3>5, <3>6, <3>8 DEF Relies
      <3>10. call' = [call EXCEPT ![c] = r]
        BY <2>1, <3>1, <3>4, <3>7 DEF CompleteGithubEmail, Starts
      <3> QED BY <1>1, <1>3, <3>8, <3>9, <3>10, CallMoves
    <2>2. CASE t \notin Fresh
      <3>1. UNCHANGED <<call, page>>
        BY <2>2, <1>1 DEF CompleteGithubEmail
      <3> QED BY <3>1, <1>3, CallsUntouched
    <2> QED BY <2>1, <2>2
  <1> QED BY <1>3, <1>4, <1>5, <1>6 DEF Carries, IInv

(* A statement that only moves its request on.                             *)
LEMMA OnlyMoves ==
  ASSUME IInv, Remembers, NEW c \in Call, NEW r \in CallType, Relies(r), r.at # "signer",
         call[c].at # "signer", call' = [call EXCEPT ![c] = r],
         UNCHANGED <<users, tokens, store, accepted, mails, page, vouched, opened, now>>
  PROVE  Carries
  <1>1. Grows /\ Histories' /\ Mails' /\ Accounts'
    BY RowsKept DEF IInv, Mails, Histories
  <1>2. Strings' /\ Purposes' /\ OneTime!Next
    BY <1>1, StringsUntouched
  <1>3. Relies(r)'
    BY <1>1, ReliesStill DEF IInv
  <1>4. Calls' /\ Waiting'
    BY <1>1, <1>3, CallMoves
  <1> QED BY <1>1, <1>2, <1>4 DEF Carries, IInv

LEMMA OnlyEnds ==
  ASSUME IInv, Remembers, NEW c \in Call, call[c].at # "signer", Ends(c),
         UNCHANGED <<users, tokens, store, accepted, mails, page, vouched, opened, now>>
  PROVE  Carries
  <1>1. Grows /\ Histories' /\ Mails' /\ Accounts'
    BY RowsKept DEF IInv, Mails, Histories
  <1>2. Strings' /\ Purposes' /\ OneTime!Next
    BY <1>1, StringsUntouched
  <1>3. Calls' /\ Waiting'
    BY <1>1, CallEnds
  <1> QED BY <1>1, <1>2, <1>3 DEF Carries, IInv

(* The index of a row that is there.                                       *)
LEMMA RowIndex ==
  ASSUME IInv, NEW u \in Rows
  PROVE  u \in Row /\ u \in DOMAIN users /\ users[u] \in UserRow /\ ~ users[u].gone
  <1>1. users \in Seq(UserRow) /\ Len(users) <= MaxRow /\ u \in DOMAIN users /\ ~ users[u].gone
    BY DEF IInv, Accounts, Rows
  <1> QED BY <1>1, AuthAssumption DEF Row

(* Who is found by an identity is linked with it.                          *)
LEMMA FoundByIdentity ==
  ASSUME IInv, NEW i \in Identities, NEW u \in ByIdentity(i)
  PROVE  u \in Rows /\ <<u, i>> \in linkedOnce
  <1>1. u \in DOMAIN users /\ ~ users[u].gone /\ users[u].ids[i[1]] = i[2]
    BY DEF ByIdentity, Rows
  <1>2. PICK R : R = users
    OBVIOUS
  <1>3. <<u, i>> \in Links(R)
    BY <1>1, <1>2, LinksOf
  <1> QED BY <1>2, <1>3 DEF IInv, Histories, ByIdentity

(* Only a proof that came with this identity leads to touching the row; a  *)
(* code is drawn for a row that is linked, a ticket for GitHub only.       *)
LEMMA FindByIdentityCarries ==
  ASSUME IInv, Remembers, NEW c \in Call, FindByIdentity(c)
  PROVE  Carries
  <1>1. PICK q : q = call[c]
    OBVIOUS
  <1>2. PICK i : i = Identity(q.prof)
    OBVIOUS
  <1>3. /\ q \in CallType /\ Relies(q) /\ q.at = "byIdentity" /\ q.prof \in Claim
        /\ i \in Identities /\ call[c].at # "signer"
    <2>1. call[c].at = "byIdentity"
      BY DEF FindByIdentity
    <2> QED BY <2>1, <1>1, <1>2, AtStatement DEF Looking
  <1>4. UNCHANGED <<users, accepted, mails, page, vouched, opened, now>>
    BY DEF FindByIdentity
  <1>5. Grows /\ Histories' /\ Mails' /\ Accounts'
    BY <1>4, RowsKept DEF IInv, Mails, Histories
  <1>6. i \in Provider \X Id /\ i[1] = q.prof.provider
    BY <1>2, <1>3, Claims
  <1>7. \/ \E u \in ByIdentity(i) :
             \/ /\ Proves(c, u)
                /\ Starts(c, [q EXCEPT !.at = "touch", !.row = u])
                /\ UNCHANGED <<tokens, store>>
             \/ DrawCode(u, i) /\ Ends(c)
        \/ /\ q.prof.email = Nobody
           /\ Draw(store, "ticket", 0, i, TicketLife) /\ Ends(c)
        \/ /\ q.prof.email # Nobody
           /\ Goes(c, "byEmail") /\ UNCHANGED <<tokens, store>>
    BY <1>1, <1>2 DEF FindByIdentity
  <1>8. ASSUME NEW u \in ByIdentity(i), Proves(c, u),
               Starts(c, [q EXCEPT !.at = "touch", !.row = u]), UNCHANGED <<tokens, store>>
        PROVE  Carries
    <2>1. u \in Rows /\ <<u, i>> \in linkedOnce /\ u \in Row
      BY <1>3, FoundByIdentity, RowIndex
    <2>2. PICK r : r = [q EXCEPT !.at = "touch", !.row = u]
      OBVIOUS
    <2>3. r \in CallType /\ r.at = "touch" /\ r.row = u /\ r.prof = q.prof
      BY <1>3, <2>1, <2>2 DEF CallType, Looking
    <2>4. q.prof.verified
      BY <1>1, <1>8 DEF Proves
    <2>5. Relies(r)
      BY <1>2, <1>3, <2>1, <2>3, <2>4 DEF Relies, Looking
    <2>6. call' = [call EXCEPT ![c] = r]
      BY <1>8, <2>2 DEF Starts
    <2> QED BY <1>3, <1>4, <1>8, <2>3, <2>5, <2>6, OnlyMoves
  <1>9. ASSUME NEW u \in ByIdentity(i), DrawCode(u, i), Ends(c)
        PROVE  Carries
    <2>1. u \in Row /\ <<u, i>> \in linkedOnce'
      BY <1>3, <1>5, FoundByIdentity, RowIndex DEF Grows
    <2>2. Strings' /\ Purposes' /\ OneTime!Next
      BY <1>3, <1>4, <1>5, <1>9, <2>1, CodeDrawnFor
    <2>3. Calls' /\ Waiting'
      BY <1>3, <1>4, <1>5, <1>9, CallEnds
    <2> QED BY <1>5, <2>2, <2>3 DEF Carries, IInv
  <1>10. CASE q.prof.email = Nobody /\ Draw(store, "ticket", 0, i, TicketLife) /\ Ends(c)
    <2>1. i[1] = "github"
      BY <1>3, <1>6, <1>10, Claims DEF Relies, Provider, Looking
    <2>2. PICK kept : kept = store
      OBVIOUS
    <2>3. Strings' /\ Purposes' /\ OneTime!Next
      BY <1>3, <1>4, <1>5, <1>6, <1>10, <2>1, <2>2, DrawnFor
    <2>4. Calls' /\ Waiting'
      BY <1>3, <1>4, <1>5, <1>10, CallEnds
    <2> QED BY <1>5, <2>3, <2>4 DEF Carries, IInv
  <1>11. CASE q.prof.email # Nobody /\ Goes(c, "byEmail") /\ UNCHANGED <<tokens, store>>
    <2>1. PICK r : r = [q EXCEPT !.at = "byEmail"]
      OBVIOUS
    <2>2. r \in CallType /\ r.at = "byEmail" /\ r.prof = q.prof
      BY <1>3, <2>1 DEF CallType, Looking
    <2>3. Relies(r)
      BY <1>3, <1>11, <2>2, Claims DEF Relies, Looking
    <2>4. call' = [call EXCEPT ![c] = r]
      BY <1>1, <1>11, <2>1 DEF Goes, IInv, Calls
    <2> QED BY <1>3, <1>4, <1>11, <2>2, <2>3, <2>4, OnlyMoves
  <1> QED BY <1>7, <1>8, <1>9, <1>10, <1>11

LEMMA TouchCarries ==
  ASSUME IInv, Remembers, NEW c \in Call, Touch(c)
  PROVE  Carries
  <1>1. PICK q : q = call[c]
    OBVIOUS
  <1>2. PICK i : i = Identity(q.prof)
    OBVIOUS
  <1>3. PICK u : u = q.row
    OBVIOUS
  <1>4. /\ q \in CallType /\ Relies(q) /\ q.at = "touch" /\ call[c].at # "signer"
        /\ i \in Identities
    <2>1. call[c].at = "touch"
      BY DEF Touch
    <2> QED BY <2>1, <1>1, <1>2, AtStatement DEF Looking
  <1>5. /\ i \in vouched /\ <<u, i>> \in linkedOnce
    BY <1>2, <1>3, <1>4 DEF Relies, Looking
  <1>6. UNCHANGED <<accepted, mails, page, vouched, opened, now>> /\ Ends(c)
    BY DEF Touch
  <1>7. CASE u \notin Rows
    <2>1. UNCHANGED <<users, tokens, store>>
      BY <1>1, <1>3, <1>7 DEF Touch
    <2> QED BY <1>4, <1>6, <2>1, OnlyEnds
  <1>8. CASE u \in Rows
    <2>1. users' = With(u, "verified", TRUE) /\ DrawCode(u, i)
      BY <1>1, <1>2, <1>3, <1>8 DEF Touch
    <2>2. u \in Row /\ users[u] \in UserRow
      BY <1>8, RowIndex
    <2>3. PICK row : row = [users[u] EXCEPT !["verified"] = TRUE]
      OBVIOUS
    <2>4. row \in UserRow /\ row.hash = users[u].hash
      BY <2>2, <2>3 DEF UserRow
    <2>5. Proved(u)
      BY <1>5 DEF Proved
    <2>6. users' = [users EXCEPT ![u] = row]
      BY <2>1, <2>3 DEF With
    <2>7. Grows /\ Histories' /\ Mails' /\ Accounts'
      BY <1>6, <1>8, <2>4, <2>5, <2>6, RowChanged
    <2>8. Strings' /\ Purposes' /\ OneTime!Next
      BY <1>4, <1>5, <1>6, <2>1, <2>2, <2>7, CodeDrawnFor DEF Grows
    <2>9. Calls' /\ Waiting'
      BY <1>4, <1>6, <2>7, CallEnds
    <2> QED BY <2>7, <2>8, <2>9 DEF Carries, IInv
  <1> QED BY <1>7, <1>8

(* What is read of the row for the update was proved then, and still is.   *)
LEMMA FindByEmailCarries ==
  ASSUME IInv, Remembers, NEW c \in Call, FindByEmail(c)
  PROVE  Carries
  <1>1. PICK q : q = call[c]
    OBVIOUS
  <1>2. /\ q \in CallType /\ Relies(q) /\ q.at = "byEmail" /\ call[c].at # "signer"
    <2>1. call[c].at = "byEmail"
      BY DEF FindByEmail
    <2> QED BY <2>1, <1>1, AtStatement
  <1>3. UNCHANGED <<users, tokens, store, accepted, mails, page, vouched, opened, now>>
    BY DEF FindByEmail
  <1>4. \/ Goes(c, "create") \/ Ends(c)
        \/ \E u \in Rows :
             Starts(c, [q EXCEPT !.at = "link", !.row = u, !.saw = users[u].verified])
    BY <1>1 DEF FindByEmail, ByEmail
  <1>5. CASE Goes(c, "create")
    <2>1. PICK r : r = [q EXCEPT !.at = "create"]
      OBVIOUS
    <2>2. r \in CallType /\ r.at = "create" /\ r.prof = q.prof
      BY <1>2, <2>1 DEF CallType, Looking
    <2>3. Relies(r)
      BY <1>2, <2>2 DEF Relies, Looking
    <2>4. call' = [call EXCEPT ![c] = r]
      BY <1>1, <1>5, <2>1 DEF Goes, IInv, Calls
    <2> QED BY <1>2, <1>3, <2>2, <2>3, <2>4, OnlyMoves
  <1>6. CASE Ends(c)
    BY <1>2, <1>3, <1>6, OnlyEnds
  <1>7. ASSUME NEW u \in Rows,
               Starts(c, [q EXCEPT !.at = "link", !.row = u, !.saw = users[u].verified])
        PROVE  Carries
    <2>1. u \in Row /\ users[u].verified \in BOOLEAN
      BY RowIndex DEF UserRow
    <2>2. PICK saw : saw = users[u].verified
      OBVIOUS
    <2>3. PICK r : r = [q EXCEPT !.at = "link", !.row = u, !.saw = saw]
      OBVIOUS
    <2>4. r \in CallType /\ r.at = "link" /\ r.prof = q.prof /\ r.row = u /\ r.saw = saw
      BY <1>2, <2>1, <2>2, <2>3 DEF CallType, Looking
    <2>5. saw => Proved(u)
      BY <2>2 DEF IInv, Accounts
    <2>6. Relies(r)
      BY <1>2, <2>4, <2>5 DEF Relies, Looking
    <2>7. call' = [call EXCEPT ![c] = r]
      BY <1>7, <2>2, <2>3 DEF Starts
    <2> QED BY <1>2, <1>3, <2>4, <2>6, <2>7, OnlyMoves
  <1> QED BY <1>4, <1>5, <1>6, <1>7

(* The identity is written into a row.                                     *)
LEMMA NewIds ==
  ASSUME NEW u, NEW c, users[u] \in UserRow, call[c].prof \in Claim
  PROVE  /\ LinkedIds(c, u) \in [Provider -> Id]
         /\ LinkedIds(c, u)[Identity(call[c].prof)[1]] = Identity(call[c].prof)[2]
  <1>1. users[u].ids \in [Provider -> Id]
    BY DEF UserRow
  <1> QED BY <1>1, Claims DEF LinkedIds

(* The row is verified by the provider, by what was read of it, or was.    *)
LEMMA LinkCarries ==
  ASSUME IInv, Remembers, NEW c \in Call, Link(c)
  PROVE  Carries
  <1>1. PICK q : q = call[c]
    OBVIOUS
  <1>2. PICK i : i = Identity(q.prof)
    OBVIOUS
  <1>3. PICK u : u = q.row
    OBVIOUS
  <1>4. /\ q \in CallType /\ Relies(q) /\ q.at = "link" /\ call[c].at # "signer"
        /\ i \in Identities /\ q.prof \in Claim
    <2>1. call[c].at = "link"
      BY DEF Link
    <2> QED BY <2>1, <1>1, <1>2, AtStatement DEF Looking
  <1>5. UNCHANGED <<accepted, mails, page, vouched, opened, now>> /\ Ends(c)
    BY DEF Link
  <1>6. CASE u \in Rows /\ ByIdentity(i) \subseteq {u}
    <2>1. u \in Row /\ users[u] \in UserRow /\ u \in DOMAIN users
      BY <1>6, RowIndex
    <2>2. PICK ids : ids = LinkedIds(c, u)
      OBVIOUS
    <2>3. ids \in [Provider -> Id] /\ ids[i[1]] = i[2]
      BY <1>1, <1>2, <1>4, <2>1, <2>2, NewIds
    <2>4. PICK v : v = IF q.ticket THEN users[u].verified ELSE q.prof.verified \/ q.saw
      OBVIOUS
    <2>5. v \in BOOLEAN
      BY <1>4, <2>1, <2>4, Claims DEF CallType, UserRow
    <2>6. PICK row : row = [users[u] EXCEPT !.ids = ids, !.verified = v]
      OBVIOUS
    <2>7. /\ row \in UserRow /\ row.hash = users[u].hash /\ row.gone = users[u].gone
          /\ row.ids = ids /\ row.verified = v
      BY <2>1, <2>3, <2>5, <2>6 DEF UserRow
    <2>8. users' = [users EXCEPT ![u].ids = LinkedIds(c, u),
                                 ![u].verified = IF q.ticket THEN @ ELSE q.prof.verified \/ q.saw]
          /\ DrawCode(u, i)
      BY <1>1, <1>2, <1>3, <1>6 DEF Link
    <2>9. users' = [users EXCEPT ![u] = row]
      BY <2>1, <2>2, <2>4, <2>6, <2>8
    <2>10. ~ row.gone
      BY <1>6, <2>7, RowIndex
    <2>11. row.verified => \/ users[u].verified \/ Proved(u)
                           \/ \E j \in vouched : ~ row.gone /\ row.ids[j[1]] = j[2]
      <3>1. q.prof.verified => i \in vouched
        BY <1>2, <1>4 DEF Relies, Looking
      <3>2. q.saw => Proved(u)
        BY <1>3, <1>4 DEF Relies
      <3>3. CASE q.ticket
        BY <3>3, <2>4, <2>7
      <3>4. CASE ~ q.ticket /\ q.prof.verified
        BY <3>1, <3>4, <2>3, <2>7, <2>10
      <3>5. CASE ~ q.ticket /\ ~ q.prof.verified
        BY <3>2, <3>5, <2>4, <2>7
      <3> QED BY <3>3, <3>4, <3>5, <1>4 DEF CallType
    <2>12. Grows /\ Histories' /\ Mails' /\ Accounts'
      BY <1>5, <1>6, <2>7, <2>9, <2>11, RowChanged
    <2>13. <<u, i>> \in linkedOnce'
      BY <1>4, <1>5, <1>6, <2>3, <2>7, <2>9, <2>10, <2>11, RowChanged
    <2>14. Strings' /\ Purposes' /\ OneTime!Next
      BY <1>4, <1>5, <2>1, <2>8, <2>12, <2>13, CodeDrawnFor
    <2>15. Calls' /\ Waiting'
      BY <1>4, <1>5, <2>12, CallEnds
    <2> QED BY <2>12, <2>14, <2>15 DEF Carries, IInv
  <1>7. CASE ~ (u \in Rows /\ ByIdentity(i) \subseteq {u})
    <2>1. UNCHANGED <<users, tokens, store>>
      BY <1>1, <1>2, <1>3, <1>7 DEF Link
    <2> QED BY <1>4, <1>5, <2>1, OnlyEnds
  <1> QED BY <1>6, <1>7

LEMMA CreateLinkedCarries ==
  ASSUME IInv, Remembers, NEW c \in Call, CreateLinked(c)
  PROVE  Carries
  <1>1. PICK q : q = call[c]
    OBVIOUS
  <1>2. PICK i : i = Identity(q.prof)
    OBVIOUS
  <1>3. /\ q \in CallType /\ Relies(q) /\ q.at = "create" /\ call[c].at # "signer"
        /\ i \in Identities /\ q.prof \in Claim
    <2>1. call[c].at = "create"
      BY DEF CreateLinked
    <2> QED BY <2>1, <1>1, <1>2, AtStatement DEF Looking
  <1>4. UNCHANGED <<accepted, mails, page, vouched, opened, now>> /\ Ends(c)
    BY DEF CreateLinked
  <1>5. CASE Insertable(q.prof.email, Only(i))
    <2>1. i \in Provider \X Id
      BY <1>3, Pairs
    <2>2. PICK ids : ids = Only(i)
      OBVIOUS
    <2>3. ids \in [Provider -> Id] /\ ids[i[1]] = i[2]
      BY <2>1, <2>2 DEF Only, Id
    <2>4. PICK row : row = NewRow(q.prof.email, ids, q.prof.verified)
      OBVIOUS
    <2>5. /\ row \in UserRow /\ row.hash = 0 /\ ~ row.gone /\ row.ids = ids
          /\ row.verified = q.prof.verified
      <3>1. q.prof.email \in Address /\ q.prof.verified \in BOOLEAN
        BY <1>3, Claims DEF Relies
      <3> QED BY <2>3, <2>4, <3>1 DEF NewRow, UserRow
    <2>6. /\ users' = Append(users, row) /\ Len(users) < MaxRow
          /\ DrawCode(Len(users) + 1, i)
      BY <1>1, <1>2, <1>5, <2>2, <2>4 DEF CreateLinked, Inserted, Insertable
    <2>7. row.verified => \E j \in vouched : row.ids[j[1]] = j[2]
      BY <1>2, <1>3, <2>3, <2>5 DEF Relies, Looking
    <2>8. Grows /\ Histories' /\ Mails' /\ Accounts'
      BY <1>4, <2>5, <2>6, <2>7, RowInserted
    <2>9. PICK n : n = Len(users) + 1
      OBVIOUS
    <2>10. n \in Row /\ <<n, i>> \in linkedOnce'
      BY <1>3, <1>4, <2>3, <2>5, <2>6, <2>7, <2>9, RowInserted
    <2>11. Strings' /\ Purposes' /\ OneTime!Next
      BY <1>3, <1>4, <2>6, <2>8, <2>9, <2>10, CodeDrawnFor
    <2>12. Calls' /\ Waiting'
      BY <1>3, <1>4, <2>8, CallEnds
    <2> QED BY <2>8, <2>11, <2>12 DEF Carries, IInv
  <1>6. CASE ~ Insertable(q.prof.email, Only(i))
    <2>1. UNCHANGED <<users, tokens, store>>
      BY <1>1, <1>2, <1>6 DEF CreateLinked
    <2> QED BY <1>3, <1>4, <2>1, OnlyEnds
  <1> QED BY <1>5, <1>6

-----------------------------------------------------------------------------
(* Linking an account with an identity, and unlinking it                   *)

LEMMA FindSelfCarries ==
  ASSUME IInv, Remembers, NEW c \in Call, FindSelf(c)
  PROVE  Carries
  <1>1. PICK q : q = call[c]
    OBVIOUS
  <1>2. /\ q \in CallType /\ Relies(q) /\ q.at = "self" /\ call[c].at # "signer"
    <2>1. call[c].at = "self"
      BY DEF FindSelf
    <2> QED BY <2>1, <1>1, AtStatement
  <1>3. UNCHANGED <<users, tokens, store, accepted, mails, page, vouched, opened, now>>
    BY DEF FindSelf
  <1>4. PICK saw : saw = (/\ users[q.row].ids[q.prof.provider] \in {Nobody, q.prof.id}
                          /\ q.prof.provider = "google" => users[q.row].email = q.prof.email)
    OBVIOUS
  <1>5. saw \in BOOLEAN
    BY <1>4
  <1>6. Ends(c) \/ Starts(c, [q EXCEPT !.at = "holder", !.saw = saw])
    BY <1>1, <1>4 DEF FindSelf
  <1>7. CASE Ends(c)
    BY <1>2, <1>3, <1>7, OnlyEnds
  <1>8. CASE Starts(c, [q EXCEPT !.at = "holder", !.saw = saw])
    <2>1. PICK r : r = [q EXCEPT !.at = "holder", !.saw = saw]
      OBVIOUS
    <2>2. r \in CallType /\ r.at = "holder" /\ r.prof = q.prof
      BY <1>2, <1>5, <2>1 DEF CallType, Looking
    <2>3. Relies(r)
      BY <1>2, <2>2 DEF Relies, Looking
    <2>4. call' = [call EXCEPT ![c] = r]
      BY <1>8, <2>1 DEF Starts
    <2> QED BY <1>2, <1>3, <2>2, <2>3, <2>4, OnlyMoves
  <1> QED BY <1>6, <1>7, <1>8

LEMMA FindHolderCarries ==
  ASSUME IInv, Remembers, NEW c \in Call, FindHolder(c)
  PROVE  Carries
  <1>1. PICK q : q = call[c]
    OBVIOUS
  <1>2. /\ q \in CallType /\ Relies(q) /\ q.at = "holder" /\ call[c].at # "signer"
    <2>1. call[c].at = "holder"
      BY DEF FindHolder
    <2> QED BY <2>1, <1>1, AtStatement
  <1>3. UNCHANGED <<users, tokens, store, accepted, mails, page, vouched, opened, now>>
    BY DEF FindHolder
  <1>4. Goes(c, "linkSelf") \/ Ends(c)
    BY DEF FindHolder
  <1>5. CASE Ends(c)
    BY <1>2, <1>3, <1>5, OnlyEnds
  <1>6. CASE Goes(c, "linkSelf")
    <2>1. PICK r : r = [q EXCEPT !.at = "linkSelf"]
      OBVIOUS
    <2>2. r \in CallType /\ r.at = "linkSelf" /\ r.prof = q.prof
      BY <1>2, <2>1 DEF CallType, Looking
    <2>3. Relies(r)
      BY <1>2, <2>2 DEF Relies, Looking
    <2>4. call' = [call EXCEPT ![c] = r]
      BY <1>1, <1>6, <2>1 DEF Goes, IInv, Calls
    <2> QED BY <1>2, <1>3, <2>2, <2>3, <2>4, OnlyMoves
  <1> QED BY <1>4, <1>5, <1>6

(* A row that changes in one column, while the strings and requests rest.  *)
LEMMA OneColumn ==
  ASSUME IInv, Remembers, NEW u \in Rows, NEW row \in UserRow,
         users' = [users EXCEPT ![u] = row], row.hash \in {0, users[u].hash},
         row.verified => users[u].verified,
         UNCHANGED <<tokens, store, accepted, mails, call, page, vouched, opened, now>>
  PROVE  Carries
  <1>1. Grows /\ Histories' /\ Mails' /\ Accounts'
    BY RowChanged
  <1>2. Strings' /\ Purposes' /\ OneTime!Next
    BY <1>1, StringsUntouched
  <1>3. Calls' /\ Waiting'
    BY <1>1, CallsUntouched
  <1> QED BY <1>1, <1>2, <1>3 DEF Carries, IInv

LEMMA LinkSelfCarries ==
  ASSUME IInv, Remembers, NEW c \in Call, LinkSelf(c)
  PROVE  Carries
  <1>1. PICK q : q = call[c]
    OBVIOUS
  <1>2. PICK u : u = q.row
    OBVIOUS
  <1>3. q.prof \in Claim /\ call[c].at # "signer"
    <2>1. call[c].at = "linkSelf"
      BY DEF LinkSelf
    <2> QED BY <2>1, <1>1, AtStatement
  <1>4. UNCHANGED <<tokens, store, accepted, mails, page, vouched, opened, now>> /\ Ends(c)
    BY DEF LinkSelf
  <1>5. CASE users' = users
    BY <1>3, <1>4, <1>5, OnlyEnds
  <1>6. CASE u \in Rows /\ users' = With(u, "ids", LinkedIds(c, u))
    <2>1. users[u] \in UserRow
      BY <1>6, RowIndex
    <2>2. PICK ids : ids = LinkedIds(c, u)
      OBVIOUS
    <2>3. ids \in [Provider -> Id]
      BY <1>1, <1>3, <2>1, <2>2, NewIds
    <2>4. PICK row : row = [users[u] EXCEPT !["ids"] = ids]
      OBVIOUS
    <2>5. row \in UserRow /\ row.hash = users[u].hash /\ row.verified = users[u].verified
      BY <2>1, <2>3, <2>4 DEF UserRow
    <2>6. users' = [users EXCEPT ![u] = row]
      BY <1>6, <2>2, <2>4 DEF With
    <2>7. Grows /\ Histories' /\ Mails' /\ Accounts'
      BY <1>4, <1>6, <2>5, <2>6, RowChanged
    <2>8. Strings' /\ Purposes' /\ OneTime!Next
      BY <1>4, <2>7, StringsUntouched
    <2>9. Calls' /\ Waiting'
      BY <1>3, <1>4, <2>7, CallEnds
    <2> QED BY <2>7, <2>8, <2>9 DEF Carries, IInv
  <1>7. \/ users' = users
        \/ u \in Rows /\ users' = With(u, "ids", LinkedIds(c, u))
    BY <1>1, <1>2 DEF LinkSelf
  <1> QED BY <1>5, <1>6, <1>7

LEMMA UnlinkCarries ==
  ASSUME IInv, Remembers, NEW u \in DOMAIN users, NEW v \in Provider, Unlink(u, v)
  PROVE  Carries
  <1>1. u \in Rows
    BY DEF Unlink, MayAct
  <1>2. users[u] \in UserRow
    BY <1>1, RowIndex
  <1>3. PICK ids : ids = [users[u].ids EXCEPT ![v] = Nobody]
    OBVIOUS
  <1>4. ids \in [Provider -> Id]
    <2>1. users[u].ids \in [Provider -> Id]
      BY <1>2 DEF UserRow
    <2> QED BY <1>3, <2>1 DEF Id
  <1>5. PICK row : row = [users[u] EXCEPT !["ids"] = ids]
    OBVIOUS
  <1>6. row \in UserRow /\ row.hash = users[u].hash /\ row.verified = users[u].verified
    BY <1>2, <1>4, <1>5 DEF UserRow
  <1>7. /\ users' = [users EXCEPT ![u] = row]
        /\ UNCHANGED <<tokens, store, accepted, mails, call, page, vouched, opened, now>>
    BY <1>3, <1>5 DEF Unlink, With
  <1> QED BY <1>1, <1>6, <1>7, OneColumn

-----------------------------------------------------------------------------
(* Registration, verification, administration                              *)

LEMMA RegisterCarries ==
  ASSUME IInv, Remembers, NEW c \in Call, NEW e \in Address, Register(c, e)
  PROVE  Carries
  <1>1. PICK r : r = [NoCall EXCEPT !.at = "register", !.prof = [NoProfile EXCEPT !.email = e]]
    OBVIOUS
  <1>2. [NoProfile EXCEPT !.email = e] \in Claim
    BY DEF NoProfile, Claim, Id
  <1>3. r \in CallType /\ r.at = "register" /\ r.prof.email = e
    BY <1>1, <1>2, Idle DEF CallType, NoProfile
  <1>4. Relies(r)
    BY <1>3 DEF Relies, Looking
  <1>5. /\ call' = [call EXCEPT ![c] = r] /\ call[c].at # "signer"
        /\ UNCHANGED <<users, tokens, store, accepted, mails, page, vouched, opened, now>>
    BY <1>1 DEF Register, Starts, Free
  <1> QED BY <1>3, <1>4, <1>5, OnlyMoves

LEMMA InsertRegisteredCarries ==
  ASSUME IInv, Remembers, NEW c \in Call, InsertRegistered(c)
  PROVE  Carries
  <1>1. PICK q : q = call[c]
    OBVIOUS
  <1>2. /\ q \in CallType /\ Relies(q) /\ q.at = "register" /\ call[c].at # "signer"
    <2>1. call[c].at = "register"
      BY DEF InsertRegistered
    <2> QED BY <2>1, <1>1, AtStatement
  <1>3. UNCHANGED <<tokens, store, accepted, mails, page, vouched, opened, now>>
    BY DEF InsertRegistered
  <1>4. CASE Insertable(q.prof.email, NoIds)
    <2>1. NoIds \in [Provider -> Id]
      BY DEF NoIds, Id
    <2>2. PICK row : row = NewRow(q.prof.email, NoIds, FALSE)
      OBVIOUS
    <2>3. row \in UserRow /\ row.hash = 0 /\ ~ row.gone /\ ~ row.verified
      <3>1. q.prof.email \in Address
        BY <1>2 DEF Relies
      <3> QED BY <2>1, <2>2, <3>1 DEF NewRow, UserRow
    <2>4. PICK n : n = Len(users) + 1
      OBVIOUS
    <2>5. PICK r : r = [q EXCEPT !.at = "mail", !.row = n]
      OBVIOUS
    <2>6. /\ users' = Append(users, row) /\ Len(users) < MaxRow
          /\ call' = [call EXCEPT ![c] = r]
      BY <1>1, <1>4, <2>2, <2>4, <2>5 DEF InsertRegistered, Inserted, Insertable, Starts
    <2>7. Grows /\ Histories' /\ Mails' /\ Accounts' /\ n \in Row
      BY <1>3, <2>3, <2>4, <2>6, RowInserted
    <2>8. r \in CallType /\ r.at = "mail"
      BY <1>2, <2>5, <2>7 DEF CallType
    <2>9. Relies(r)'
      BY <2>8 DEF Relies, Looking
    <2>10. Calls' /\ Waiting'
      BY <1>2, <1>3, <2>6, <2>7, <2>8, <2>9, CallMoves
    <2>11. Strings' /\ Purposes' /\ OneTime!Next
      BY <1>3, <2>7, StringsUntouched
    <2> QED BY <2>7, <2>10, <2>11 DEF Carries, IInv
  <1>5. CASE ~ Insertable(q.prof.email, NoIds)
    <2>1. users' = users /\ Ends(c)
      BY <1>1, <1>5 DEF InsertRegistered
    <2> QED BY <1>2, <1>3, <2>1, OnlyEnds
  <1> QED BY <1>4, <1>5

LEMMA ResendVerificationCarries ==
  ASSUME IInv, Remembers, NEW c \in Call, NEW u \in DOMAIN users, ResendVerification(c, u)
  PROVE  Carries
  <1>1. u \in Row
    BY RowIndex DEF ResendVerification, MayAct
  <1>2. PICK r : r = [NoCall EXCEPT !.at = "mail", !.row = u]
    OBVIOUS
  <1>3. r \in CallType /\ r.at = "mail"
    BY <1>1, <1>2, Idle DEF CallType
  <1>4. Relies(r)
    BY <1>3 DEF Relies, Looking
  <1>5. /\ call' = [call EXCEPT ![c] = r] /\ call[c].at # "signer"
        /\ UNCHANGED <<users, tokens, store, accepted, mails, page, vouched, opened, now>>
    BY <1>2 DEF ResendVerification, Starts, Free
  <1> QED BY <1>3, <1>4, <1>5, OnlyMoves

(* The row has the hash of the mail that is sent for it.                   *)
LEMMA IssueEmailVerificationCarries ==
  ASSUME IInv, Remembers, NEW c \in Call, IssueEmailVerification(c)
  PROVE  Carries
  <1>1. PICK u : u = call[c].row
    OBVIOUS
  <1>2. call[c].at # "signer" /\ Ends(c) /\ Len(mails) < MaxMail
        /\ UNCHANGED <<tokens, store, accepted, page, vouched, opened, now>>
    BY DEF IssueEmailVerification
  <1>3. CASE u \notin Rows
    <2>1. UNCHANGED <<users, mails>>
      BY <1>1, <1>3 DEF IssueEmailVerification
    <2> QED BY <1>2, <2>1, OnlyEnds
  <1>4. CASE u \in Rows
    <2>1. PICK n : n = Len(mails) + 1
      OBVIOUS
    <2>2. PICK sent : sent = [row |-> u, until |-> now + MailLife]
      OBVIOUS
    <2>3. PICK row : row = [users[u] EXCEPT !["hash"] = n]
      OBVIOUS
    <2>4. users' = [users EXCEPT ![u] = row] /\ mails' = Append(mails, sent)
      BY <1>1, <1>4, <2>1, <2>2, <2>3 DEF IssueEmailVerification, With
    <2>5. u \in Row /\ u \in DOMAIN users /\ users[u] \in UserRow
      BY <1>4, RowIndex
    <2>6. sent \in [row : Row, until : Nat] /\ sent.row = u
      <3>1. now + MailLife \in Nat
        BY AuthAssumption DEF IInv, Histories
      <3> QED BY <2>2, <2>5, <3>1
    <2>7. /\ mails \in Seq([row : Row, until : Nat]) /\ Len(mails) \in Nat
          /\ DOMAIN mails = 1 .. Len(mails)
      BY DEF IInv, Mails
    <2>8. /\ mails' \in Seq([row : Row, until : Nat]) /\ Len(mails') = n
          /\ DOMAIN mails' = 1 .. n /\ mails'[n] = sent
          /\ \A k \in DOMAIN mails : k \in DOMAIN mails' /\ mails'[k] = mails[k]
      BY <2>1, <2>4, <2>6, <2>7
    <2>9. n \in Mail /\ n <= MaxMail /\ n # 0
      BY <1>2, <2>1, <2>7, AuthAssumption DEF Mail
    <2>10. /\ row \in UserRow /\ row.hash = n /\ row.verified = users[u].verified
           /\ row.gone = users[u].gone
      BY <2>3, <2>5, <2>9 DEF UserRow
    <2>11. /\ users' \in Seq(UserRow) /\ Len(users') = Len(users)
           /\ DOMAIN users' = DOMAIN users /\ users'[u] = row
           /\ \A x \in DOMAIN users \ {u} : users'[x] = users[x]
      <3>1. users \in Seq(UserRow)
        BY DEF IInv, Accounts
      <3> QED BY <2>4, <2>5, <2>10, <3>1
    <2>12. Grows
      BY <1>2, <2>8 DEF Grows, Remembers
    <2>13. Histories'
      <3>1. DOMAIN users' \subseteq Row
        BY <2>11, AuthAssumption DEF IInv, Accounts, Row
      <3>2. Links(users') \subseteq Row \X Identities
        BY <3>1 DEF Links
      <3> QED BY <3>2, <1>2 DEF IInv, Histories, Remembers
    <2>14. Mails'
      BY <1>2, <2>8, <2>9 DEF IInv, Mails
    <2>15. Accounts'
      <3>1. ASSUME NEW x \in Rows'
            PROVE  /\ users'[x].hash # 0 =>
                        users'[x].hash \in DOMAIN mails' /\ mails'[users'[x].hash].row = x
                   /\ users'[x].verified => Proved(x)'
        <4>1. x \in Rows /\ users'[x].verified = users[x].verified
          BY <2>10, <2>11 DEF Rows
        <4>2. Proved(x) => Proved(x)'
          BY <2>12, ProvedStill DEF IInv
        <4>3. users[x].verified => Proved(x)
          BY <4>1 DEF IInv, Accounts
        <4>4. CASE x = u
          BY <4>1, <4>2, <4>3, <4>4, <2>6, <2>8, <2>9, <2>10, <2>11
        <4>5. CASE x # u
          <5>1. users'[x] = users[x]
            BY <4>1, <4>5, <2>11 DEF Rows
          <5>2. users[x].hash # 0 =>
                  users[x].hash \in DOMAIN mails /\ mails[users[x].hash].row = x
            BY <4>1 DEF IInv, Accounts
          <5> QED BY <4>1, <4>2, <4>3, <5>1, <5>2, <2>8
        <4> QED BY <4>4, <4>5
      <3> QED BY <3>1, <2>11 DEF IInv, Accounts
    <2>16. Strings' /\ Purposes' /\ OneTime!Next
      BY <1>2, <2>12, StringsUntouched
    <2>17. Calls' /\ Waiting'
      BY <1>2, <2>12, CallEnds
    <2> QED BY <2>12, <2>13, <2>14, <2>15, <2>16, <2>17 DEF Carries, IInv
  <1> QED BY <1>3, <1>4

(* A link that is opened in time proves the address of its row.            *)
LEMMA OpenLinkCarries ==
  ASSUME IInv, Remembers, NEW c \in Call, NEW k \in DOMAIN mails, OpenLink(c, k)
  PROVE  Carries
  <1>1. PICK intime : intime = (mails[k].until >= now)
    OBVIOUS
  <1>2. PICK u \in Rows : users[u].hash = k
                          /\ Starts(c, [NoCall EXCEPT !.at = "verify", !.row = u, !.saw = intime])
    BY <1>1 DEF OpenLink
  <1>3. /\ UNCHANGED <<users, tokens, store, accepted, mails, page, vouched, now>>
        /\ opened' = IF intime THEN opened \cup {k} ELSE opened
        /\ call[c].at # "signer"
    BY <1>1 DEF OpenLink, Free
  <1>4. Grows /\ Histories' /\ Mails' /\ Accounts'
    <2>1. opened \subseteq opened' /\ opened' \subseteq DOMAIN mails
      BY <1>3 DEF IInv, Mails
    <2> QED BY <1>3, <2>1, RowsKept DEF IInv, Histories
  <1>5. Strings' /\ Purposes' /\ OneTime!Next
    BY <1>3, <1>4, StringsUntouched
  <1>6. PICK r : r = [NoCall EXCEPT !.at = "verify", !.row = u, !.saw = intime]
    OBVIOUS
  <1>7. u \in Row /\ intime \in BOOLEAN
    BY <1>1, RowIndex
  <1>8. r \in CallType /\ r.at = "verify" /\ r.row = u /\ r.saw = intime
    BY <1>6, <1>7, Idle DEF CallType
  <1>9. intime => k \in opened' /\ mails'[k].row = u
    <2>1. mails[k].row = u
      <3>1. k # 0
        BY DEF IInv, Mails
      <3> QED BY <1>2, <3>1 DEF IInv, Accounts
    <2> QED BY <1>3, <2>1
  <1>10. Relies(r)'
    BY <1>8, <1>9 DEF Relies, Looking
  <1>11. call' = [call EXCEPT ![c] = r]
    BY <1>2, <1>6 DEF Starts
  <1>12. Calls' /\ Waiting'
    BY <1>3, <1>4, <1>8, <1>10, <1>11, CallMoves
  <1> QED BY <1>4, <1>5, <1>12 DEF Carries, IInv

LEMMA VerifyEmailCarries ==
  ASSUME IInv, Remembers, NEW c \in Call, VerifyEmail(c)
  PROVE  Carries
  <1>1. PICK q : q = call[c]
    OBVIOUS
  <1>2. PICK u : u = q.row
    OBVIOUS
  <1>3. /\ q \in CallType /\ Relies(q) /\ q.at = "verify" /\ call[c].at # "signer"
    <2>1. call[c].at = "verify"
      BY DEF VerifyEmail
    <2> QED BY <2>1, <1>1, AtStatement
  <1>4. UNCHANGED <<tokens, store, accepted, mails, page, vouched, opened, now>> /\ Ends(c)
    BY DEF VerifyEmail
  <1>5. CASE u \notin Rows
    <2>1. users' = users
      BY <1>1, <1>2, <1>5 DEF VerifyEmail
    <2> QED BY <1>3, <1>4, <2>1, OnlyEnds
  <1>6. CASE u \in Rows
    <2>1. users[u] \in UserRow
      BY <1>6, RowIndex
    <2>2. PICK v : v = (users[u].verified \/ q.saw)
      OBVIOUS
    <2>3. PICK row : row = [users[u] EXCEPT !.hash = 0, !.verified = v]
      OBVIOUS
    <2>4. row \in UserRow /\ row.hash = 0 /\ row.verified = v
      <3>1. v \in BOOLEAN
        BY <2>2
      <3> QED BY <2>1, <2>3, <3>1 DEF UserRow
    <2>5. users' = [users EXCEPT ![u] = row]
      <3>1. users' = [users EXCEPT ![u].hash = 0, ![u].verified = @ \/ q.saw]
        BY <1>1, <1>2, <1>6 DEF VerifyEmail
      <3>2. u \in DOMAIN users
        BY <1>6, RowIndex
      <3> QED BY <3>1, <3>2, <2>1, <2>2, <2>3 DEF UserRow
    <2>6. row.verified => users[u].verified \/ Proved(u)
      BY <1>2, <1>3, <2>2, <2>4 DEF Relies, Proved
    <2>7. Grows /\ Histories' /\ Mails' /\ Accounts'
      BY <1>4, <1>6, <2>4, <2>5, <2>6, RowChanged
    <2>8. Strings' /\ Purposes' /\ OneTime!Next
      BY <1>4, <2>7, StringsUntouched
    <2>9. Calls' /\ Waiting'
      BY <1>3, <1>4, <2>7, CallEnds
    <2> QED BY <2>7, <2>8, <2>9 DEF Carries, IInv
  <1> QED BY <1>5, <1>6

LEMMA SetUserBlockedCarries ==
  ASSUME IInv, Remembers, NEW u \in DOMAIN users, NEW b \in BOOLEAN, SetUserBlocked(u, b)
  PROVE  Carries
  <1>1. u \in Rows
    BY DEF SetUserBlocked
  <1>2. users[u] \in UserRow
    BY <1>1, RowIndex
  <1>3. PICK row : row = [users[u] EXCEPT !["blocked"] = b]
    OBVIOUS
  <1>4. row \in UserRow /\ row.hash = users[u].hash /\ row.verified = users[u].verified
    BY <1>2, <1>3 DEF UserRow
  <1>5. /\ users' = [users EXCEPT ![u] = row]
        /\ UNCHANGED <<tokens, store, accepted, mails, call, page, vouched, opened, now>>
    BY <1>3 DEF SetUserBlocked, With
  <1> QED BY <1>1, <1>4, <1>5, OneColumn

LEMMA DeleteUserCarries ==
  ASSUME IInv, Remembers, NEW u \in DOMAIN users, DeleteUser(u)
  PROVE  Carries
  <1>1. u \in Rows
    BY DEF DeleteUser
  <1>2. users[u] \in UserRow
    BY <1>1, RowIndex
  <1>3. PICK row : row = [users[u] EXCEPT !["gone"] = TRUE]
    OBVIOUS
  <1>4. row \in UserRow /\ row.hash = users[u].hash /\ row.verified = users[u].verified
    BY <1>2, <1>3 DEF UserRow
  <1>5. /\ users' = [users EXCEPT ![u] = row]
        /\ UNCHANGED <<tokens, store, accepted, mails, call, page, vouched, opened, now>>
    BY <1>3 DEF DeleteUser, With
  <1> QED BY <1>1, <1>4, <1>5, OneColumn

(* Time passes: no string is nearer to its deadline than it was.           *)
LEMMA TickCarries ==
  ASSUME IInv, Remembers, Tick
  PROVE  Carries
  <1>1. /\ UNCHANGED <<users, tokens, store, accepted, mails, call, page, vouched, opened>>
        /\ now \in Nat /\ now' \in 0 .. LastTick /\ now <= now'
    BY AuthAssumption DEF Tick, IInv, Histories
  <1>2. Grows /\ Histories' /\ Mails' /\ Accounts'
    BY <1>1, RowsKept DEF IInv, Mails, Histories
  <1>3. Strings' /\ OneTime!Next
    BY <1>1, StringsKept DEF IInv
  <1>4. Purposes'
    BY <1>1, <1>2, PurposesKept DEF IInv
  <1>5. Calls' /\ Waiting'
    BY <1>1, <1>2, CallsUntouched
  <1> QED BY <1>2, <1>3, <1>4, <1>5 DEF Carries, IInv

(* Every request fails, and the pages that waited show it.                 *)
LEMMA RestartCarries ==
  ASSUME IInv, Remembers, Restart
  PROVE  Carries
  <1>1. /\ UNCHANGED <<users, tokens, accepted, mails, vouched, opened, now>>
        /\ store' = {} /\ now \in Int /\ now <= now'
    BY DEF Restart, IInv, Histories
  <1>2. Grows /\ Histories' /\ Mails' /\ Accounts'
    BY <1>1, RowsKept DEF IInv, Mails, Histories
  <1>3. Strings' /\ OneTime!Next
    BY <1>1, StringsKept DEF IInv
  <1>4. Purposes'
    BY <1>1, <1>2, PurposesKept DEF IInv
  <1>5. Calls'
    <2>1. call' = [c \in Call |-> NoCall]
      BY DEF Restart
    <2>2. \A c \in Call : call'[c].at = "idle"
      BY <2>1, Idle
    <2>3. \A c \in Call : Relies(call[c])'
      BY <2>2 DEF Relies, Looking
    <2> QED BY <2>1, <2>3, Idle DEF Calls
  <1>6. Waiting'
    <2>1. \A c \in Call : call'[c].at # "signer"
      BY Idle DEF Restart
    <2>2. \A t \in Token : ~ Asked(t)'
      BY <2>1 DEF Asked
    <2>3. page' = [t \in Token |->
                    IF ~ Asked(t) THEN page[t]
                    ELSE [page[t] EXCEPT !.exchanged = FALSE,
                           !.shows = IF @ = "loader" THEN "error" ELSE @]]
      BY DEF Restart, Answered
    <2>4. ASSUME NEW t \in Token
          PROVE  /\ page'[t] \in PageType /\ page'[t].shows # "loader"
                 /\ page'[t].shows = "error" => ~ page'[t].exchanged
      <3>1. /\ page[t] \in PageType
            /\ page[t].shows = "error" => ~ page[t].exchanged /\ ~ Asked(t)
            /\ page[t].shows = "loader" => Asked(t)
        BY DEF IInv, Waiting
      <3>2. CASE Asked(t)
        BY <2>3, <3>1, <3>2 DEF PageType
      <3>3. CASE ~ Asked(t)
        BY <2>3, <3>1, <3>3
      <3> QED BY <3>2, <3>3
    <2>5. page' \in [Token -> PageType]
      BY <2>3, <2>4
    <2> QED BY <2>1, <2>2, <2>4, <2>5 DEF Waiting
  <1> QED BY <1>2, <1>3, <1>4, <1>5, <1>6 DEF Carries, IInv

-----------------------------------------------------------------------------
(* The callback page                                                       *)

(* The one request that exchanges the code is answered.                    *)
LEMMA FindSignerCarries ==
  ASSUME IInv, Remembers, NEW c \in Call, FindSigner(c)
  PROVE  Carries
  <1>1. PICK x : x = call[c].token
    OBVIOUS
  <1>2. PICK ok : ok = MayAct(call[c].row)
    OBVIOUS
  <1>3. /\ call[c].at = "signer" /\ x \in Token /\ ok \in BOOLEAN
        /\ page' = Answered({x}, ok) /\ call' = [call EXCEPT ![c] = NoCall]
        /\ UNCHANGED <<users, tokens, store, accepted, mails, vouched, opened, now>>
    BY <1>1, <1>2, AtStatement DEF FindSigner, Ends, Relies, MayAct
  <1>4. Grows /\ Histories' /\ Mails' /\ Accounts'
    BY <1>3, RowsKept DEF IInv, Mails, Histories
  <1>5. Strings' /\ Purposes' /\ OneTime!Next
    BY <1>3, <1>4, StringsUntouched
  <1>6. /\ call'[c].at = "idle" /\ call' \in [Call -> CallType]
        /\ \A d \in Call \ {c} : call'[d] = call[d]
    BY <1>3, Idle DEF IInv, Calls
  <1>7. Calls'
    <2>1. ASSUME NEW d \in Call
          PROVE  Relies(call[d])'
      <3>1. CASE d = c
        BY <3>1, <1>6 DEF Relies, Looking
      <3>2. CASE d # c
        <4>1. PICK q : q = call[d]
          OBVIOUS
        <4>2. call'[d] = q /\ Relies(q)
          BY <3>2, <4>1, <1>6 DEF IInv, Calls
        <4>3. Relies(q)'
          BY <4>2, <1>4, ReliesStill DEF IInv
        <4> QED BY <4>2, <4>3 DEF Relies, Proved
      <3> QED BY <3>1, <3>2
    <2> QED BY <1>6, <2>1 DEF Calls
  <1>8. Waiting'
    <2>1. \A t \in Token : Asked(t)' <=> Asked(t) /\ t # x
      <3>1. \A d \in Call : call[d].at = "signer" /\ call[d].token = x => d = c
        BY <1>1, <1>3 DEF IInv, Waiting
      <3> QED BY <1>1, <1>3, <1>6, <3>1 DEF Asked
    <2>2. page' = [t \in Token |->
                    IF t # x THEN page[t]
                    ELSE [page[t] EXCEPT !.exchanged = ok,
                           !.shows = IF @ = "loader" THEN (IF ok THEN "home" ELSE "error") ELSE @]]
      BY <1>3 DEF Answered
    <2>3. ASSUME NEW t \in Token
          PROVE  /\ page'[t] \in PageType
                 /\ page'[t].shows = "error" => ~ page'[t].exchanged /\ ~ Asked(t)'
                 /\ page'[t].shows = "loader" => Asked(t)'
      <3>1. /\ page[t] \in PageType
            /\ page[t].shows = "error" => ~ page[t].exchanged /\ ~ Asked(t)
            /\ page[t].shows = "loader" => Asked(t)
        BY DEF IInv, Waiting
      <3>2. CASE t = x
        <4>1. Asked(t)
          BY <3>2, <1>1, <1>3 DEF Asked
        <4>2. page[t].shows # "error" /\ ~ Asked(t)'
          BY <2>1, <3>1, <3>2, <4>1
        <4>3. page'[t] = [page[t] EXCEPT !.exchanged = ok,
                           !.shows = IF @ = "loader" THEN (IF ok THEN "home" ELSE "error") ELSE @]
          BY <2>2, <3>2
        <4>4. /\ page'[t] \in PageType /\ page'[t].exchanged = ok
              /\ page'[t].shows # "loader"
              /\ page'[t].shows = "error" => ~ ok
          <5>1. CASE page[t].shows = "loader"
            BY <4>3, <5>1, <3>1, <1>3 DEF PageType
          <5>2. CASE page[t].shows # "loader"
            BY <4>2, <4>3, <5>2, <3>1, <1>3 DEF PageType
          <5> QED BY <5>1, <5>2
        <4> QED BY <4>2, <4>4
      <3>3. CASE t # x
        BY <2>1, <2>2, <3>1, <3>3
      <3> QED BY <3>2, <3>3
    <2>4. page' \in [Token -> PageType]
      BY <2>2, <2>3
    <2>5. \A d, e \in Call :
            call'[d].at = "signer" /\ call'[e].at = "signer" /\ call'[d].token = call'[e].token
              => d = e
      BY <1>6 DEF IInv, Waiting
    <2> QED BY <2>3, <2>4, <2>5 DEF Waiting
  <1> QED BY <1>4, <1>5, <1>7, <1>8 DEF Carries, IInv

(* A page that only changes what it shows, and never to a failure.         *)
LEMMA PageChanges ==
  ASSUME IInv, Grows, call' = call, NEW t \in Token, NEW p \in PageType,
         page' = [page EXCEPT ![t] = p],
         p.shows = "error" => ~ p.exchanged /\ ~ Asked(t), p.shows = "loader" => Asked(t)
  PROVE  Calls' /\ Waiting'
  <1>1. \A x \in Token : Asked(x)' <=> Asked(x)
    BY DEF Asked
  <1>2. Calls'
    <2>1. ASSUME NEW d \in Call
          PROVE  Relies(call[d])'
      <3>1. PICK q : q = call[d]
        OBVIOUS
      <3>2. Relies(q)'
        BY <3>1, ReliesStill DEF IInv, Calls
      <3> QED BY <3>1, <3>2 DEF Relies, Proved
    <2> QED BY <2>1 DEF IInv, Calls
  <1>3. Waiting'
    BY <1>1 DEF IInv, Waiting
  <1> QED BY <1>2, <1>3

LEMMA UnmountCarries ==
  ASSUME IInv, Remembers, NEW t \in Token, Unmount(t)
  PROVE  Carries
  <1>1. UNCHANGED <<users, tokens, store, accepted, mails, call, vouched, opened, now>>
    BY DEF Unmount
  <1>2. Grows /\ Histories' /\ Mails' /\ Accounts'
    BY <1>1, RowsKept DEF IInv, Mails, Histories
  <1>3. Strings' /\ Purposes' /\ OneTime!Next
    BY <1>1, <1>2, StringsUntouched
  <1>4. PICK p : p = [page[t] EXCEPT !.shows = "closed"]
    OBVIOUS
  <1>5. page[t] \in PageType
    BY DEF IInv, Waiting
  <1>6. p \in PageType /\ p.shows = "closed"
    BY <1>4, <1>5 DEF PageType
  <1>7. page' = [page EXCEPT ![t] = p]
    BY <1>4 DEF Unmount, Shows, IInv, Waiting
  <1>8. Calls' /\ Waiting'
    BY <1>1, <1>2, <1>6, <1>7, PageChanges
  <1> QED BY <1>2, <1>3, <1>8 DEF Carries, IInv

(* A code that is stored is sent once: nobody has asked with it.           *)
LEMMA MountCarries ==
  ASSUME IInv, Remembers, NEW c \in Call, NEW t \in Token, Mount(c, t)
  PROVE  Carries
  <1>1. /\ t \in DOMAIN tokens /\ page[t].shows = "closed" /\ page[t].mounts < MaxMount
        /\ UNCHANGED <<users, tokens, mails, vouched, opened, now>>
        /\ now \in Nat
    BY DEF Mount, Drawn, IInv, Histories
  <1>2. Grows /\ Histories' /\ Mails' /\ Accounts'
    BY <1>1, RowsKept DEF IInv, Mails, Histories
  <1>3. page \in [Token -> PageType] /\ page[t] \in PageType
    BY DEF IInv, Waiting
  <1> DEFINE opens(what) == [page[t] EXCEPT !.shows = what, !.mounts = @ + 1]
  <1>4. ASSUME NEW what \in {"loader", "home", "error"}
        PROVE  /\ opens(what) \in PageType /\ opens(what).shows = what
               /\ opens(what).exchanged = page[t].exchanged
    <2>1. page[t].mounts + 1 \in 0 .. MaxMount
      BY <1>1, <1>3, AuthAssumption DEF PageType
    <2> QED BY <1>3, <2>1 DEF PageType
  <1>5. ASSUME NEW what, page' = [page EXCEPT ![t].shows = what, ![t].mounts = @ + 1]
        PROVE  page' = [page EXCEPT ![t] = opens(what)]
    BY <1>3, <1>5 DEF PageType
  <1> HIDE DEF opens
  <1>6. CASE /\ page[t].exchanged
             /\ page' = [page EXCEPT ![t].shows = "home", ![t].mounts = @ + 1]
             /\ UNCHANGED <<store, accepted, call>>
    <2>1. PICK p : p = opens("home")
      OBVIOUS
    <2>2. Calls' /\ Waiting'
      BY <1>2, <1>4, <1>5, <1>6, <2>1, PageChanges
    <2>3. Strings' /\ Purposes' /\ OneTime!Next
      BY <1>1, <1>2, <1>6, StringsUntouched
    <2> QED BY <1>2, <2>2, <2>3 DEF Carries, IInv
  <1>7. CASE /\ InFlight(t)
             /\ page' = [page EXCEPT ![t].shows = "loader", ![t].mounts = @ + 1]
             /\ UNCHANGED <<store, accepted, call>>
    <2>1. PICK p : p = opens("loader")
      OBVIOUS
    <2>2. Calls' /\ Waiting'
      BY <1>2, <1>4, <1>5, <1>7, <2>1, PageChanges DEF InFlight
    <2>3. Strings' /\ Purposes' /\ OneTime!Next
      BY <1>1, <1>2, <1>7, StringsUntouched
    <2> QED BY <1>2, <2>2, <2>3 DEF Carries, IInv
  <1>8. CASE /\ ~ page[t].exchanged /\ ~ InFlight(t) /\ Free(c) /\ Accept(t)
             /\ IF t \in Fresh
                  THEN /\ Starts(c, [NoCall EXCEPT !.at = "signer", !.token = t,
                                        !.row = tokens[t].row])
                       /\ page' = [page EXCEPT ![t].shows = "loader", ![t].mounts = @ + 1]
                  ELSE /\ UNCHANGED call
                       /\ page' = [page EXCEPT ![t].shows = "error", ![t].mounts = @ + 1]
    <2>1. Strings' /\ OneTime!Next
      BY <1>1, <1>8, StringsAccepted DEF IInv
    <2>2. Purposes'
      BY <1>1, <1>2, PurposesKept DEF IInv
    <2>3. CASE t \notin Fresh
      <3>1. PICK p : p = opens("error")
        OBVIOUS
      <3>2. Calls' /\ Waiting'
        BY <1>2, <1>4, <1>5, <1>8, <2>3, <3>1, PageChanges DEF InFlight
      <3> QED BY <1>2, <2>1, <2>2, <3>2 DEF Carries, IInv
    <2>4. CASE t \in Fresh
      <3>1. PICK r : r = [NoCall EXCEPT !.at = "signer", !.token = t, !.row = tokens[t].row]
        OBVIOUS
      <3>2. r \in CallType /\ r.at = "signer" /\ r.token = t
        <4>1. tokens[t] \in TokenType
          BY <1>1 DEF IInv, Strings
        <4>2. tokens[t].row \in {0} \cup Row
          BY <4>1 DEF TokenType
        <4> QED BY <3>1, <4>2, Idle DEF CallType
      <3>3. Relies(r)'
        BY <3>2 DEF Relies, Looking
      <3>4. /\ call' \in [Call -> CallType] /\ call'[c] = r
            /\ \A d \in Call \ {c} : call'[d] = call[d]
        BY <1>8, <2>4, <3>1, <3>2 DEF Starts, IInv, Calls
      <3>5. Calls'
        <4>1. ASSUME NEW d \in Call
              PROVE  Relies(call[d])'
          <5>1. CASE d = c
            BY <5>1, <3>3, <3>4 DEF Relies, Proved
          <5>2. CASE d # c
            <6>1. PICK q : q = call[d]
              OBVIOUS
            <6>2. call'[d] = q /\ Relies(q)
              BY <5>2, <6>1, <3>4 DEF IInv, Calls
            <6>3. Relies(q)'
              BY <6>2, <1>2, ReliesStill DEF IInv
            <6> QED BY <6>2, <6>3 DEF Relies, Proved
          <5> QED BY <5>1, <5>2
        <4> QED BY <3>4, <4>1 DEF Calls
      <3>6. \A x \in Token : Asked(x)' <=> Asked(x) \/ x = t
        <4>1. call[c].at = "idle"
          BY <1>8 DEF Free
        <4> QED BY <3>2, <3>4, <4>1 DEF Asked
      <3>7. PICK p : p = opens("loader")
        OBVIOUS
      <3>8. p \in PageType /\ p.shows = "loader" /\ page' = [page EXCEPT ![t] = p]
        BY <1>4, <1>5, <1>8, <2>4, <3>7
      <3>9. \A d, e \in Call :
              call'[d].at = "signer" /\ call'[e].at = "signer"
                /\ call'[d].token = call'[e].token => d = e
        <4>1. \A d \in Call : call[d].at = "signer" => call[d].token # t
          BY <1>8 DEF InFlight, Asked
        <4> QED BY <3>2, <3>4, <4>1 DEF IInv, Waiting
      <3>10. Waiting'
        <4>1. page' \in [Token -> PageType]
          BY <1>3, <3>8
        <4>2. ASSUME NEW x \in Token
              PROVE  /\ page'[x].shows = "error" => ~ page'[x].exchanged /\ ~ Asked(x)'
                     /\ page'[x].shows = "loader" => Asked(x)'
          <5>1. CASE x = t
            BY <5>1, <1>3, <3>6, <3>8
          <5>2. CASE x # t
            <6>1. page'[x] = page[x]
              BY <5>2, <1>3, <3>8
            <6> QED BY <5>2, <6>1, <3>6 DEF IInv, Waiting
          <5> QED BY <5>1, <5>2
        <4> QED BY <3>9, <4>1, <4>2 DEF Waiting
      <3> QED BY <1>2, <2>1, <2>2, <3>5, <3>10 DEF Carries, IInv
    <2> QED BY <2>3, <2>4
  <1>9. \/ /\ page[t].exchanged
           /\ page' = [page EXCEPT ![t].shows = "home", ![t].mounts = @ + 1]
           /\ UNCHANGED <<store, accepted, call>>
        \/ /\ InFlight(t)
           /\ page' = [page EXCEPT ![t].shows = "loader", ![t].mounts = @ + 1]
           /\ UNCHANGED <<store, accepted, call>>
        \/ /\ ~ page[t].exchanged /\ ~ InFlight(t) /\ Free(c) /\ Accept(t)
           /\ IF t \in Fresh
                THEN /\ Starts(c, [NoCall EXCEPT !.at = "signer", !.token = t,
                                      !.row = tokens[t].row])
                     /\ page' = [page EXCEPT ![t].shows = "loader", ![t].mounts = @ + 1]
                ELSE /\ UNCHANGED call
                     /\ page' = [page EXCEPT ![t].shows = "error", ![t].mounts = @ + 1]
    BY DEF Mount
  <1> QED BY <1>6, <1>7, <1>8, <1>9

-----------------------------------------------------------------------------
(* The invariant holds, and the strings are one-time tokens                *)

LEMMA InitInv == Init => IInv
  <1> SUFFICES ASSUME Init
               PROVE  IInv
    OBVIOUS
  <1>1. PICK s \in Scenarios : users = s.users /\ events = s.events
    BY DEF Init
  <1>2. /\ users \in Seq(UserRow) /\ Len(users) <= MaxRow /\ events \subseteq EventKind
        /\ \A u \in DOMAIN users : ~ users[u].verified /\ users[u].hash = 0
    BY <1>1, AuthAssumption
  <1>3. Histories
    <2>1. DOMAIN users \subseteq Row
      BY <1>2, AuthAssumption DEF Row
    <2>2. Links(users) \subseteq Row \X Identities
      BY <2>1 DEF Links
    <2> QED BY <1>2, <2>2, AuthAssumption DEF Init, Histories
  <1>4. Mails
    BY AuthAssumption DEF Init, Mails
  <1>5. Accounts
    BY <1>2 DEF Accounts, Rows
  <1>6. Strings
    BY AuthAssumption DEF Init, Strings
  <1>7. Purposes
    BY DEF Init, Purposes, Drawn
  <1>8. Calls
    <2>1. \A c \in Call : call[c].at = "idle"
      BY Idle DEF Init
    <2> QED BY <2>1, Idle DEF Init, Calls, Relies, Looking
  <1>9. Waiting
    <2>1. \A c \in Call : call[c].at = "idle"
      BY Idle DEF Init
    <2>2. NoPage \in PageType /\ NoPage.shows = "closed"
      BY AuthAssumption DEF NoPage, PageType
    <2> QED BY <2>1, <2>2 DEF Init, Waiting
  <1> QED BY <1>3, <1>4, <1>5, <1>6, <1>7, <1>8, <1>9 DEF IInv

LEMMA StatementCarries ==
  ASSUME IInv, Remembers, NEW c \in Call, Statement(c)
  PROVE  Carries
  <1>1. CASE FindByIdentity(c)
    BY <1>1, FindByIdentityCarries
  <1>2. CASE Touch(c)
    BY <1>2, TouchCarries
  <1>3. CASE FindByEmail(c)
    BY <1>3, FindByEmailCarries
  <1>4. CASE Link(c)
    BY <1>4, LinkCarries
  <1>5. CASE CreateLinked(c)
    BY <1>5, CreateLinkedCarries
  <1>6. CASE FindSelf(c)
    BY <1>6, FindSelfCarries
  <1>7. CASE FindHolder(c)
    BY <1>7, FindHolderCarries
  <1>8. CASE LinkSelf(c)
    BY <1>8, LinkSelfCarries
  <1>9. CASE FindSigner(c)
    BY <1>9, FindSignerCarries
  <1>10. CASE InsertRegistered(c)
    BY <1>10, InsertRegisteredCarries
  <1>11. CASE IssueEmailVerification(c)
    BY <1>11, IssueEmailVerificationCarries
  <1>12. CASE VerifyEmail(c)
    BY <1>12, VerifyEmailCarries
  <1> QED BY <1>1, <1>2, <1>3, <1>4, <1>5, <1>6, <1>7, <1>8, <1>9, <1>10, <1>11, <1>12
          DEF Statement

LEMMA ArrivalCarries ==
  ASSUME IInv, Remembers, NEW c \in Call, Arrival(c)
  PROVE  Carries
  <1>1. ASSUME NEW t \in Token, NEW p \in Profile, ResolveCallback(c, t, p)
        PROVE  Carries
    BY <1>1, ResolveCallbackCarries
  <1>2. ASSUME NEW t \in Token, NEW e \in Address, CompleteGithubEmail(c, t, e)
        PROVE  Carries
    BY <1>2, CompleteGithubEmailCarries
  <1>3. ASSUME NEW t \in Token, Mount(c, t)
        PROVE  Carries
    BY <1>3, MountCarries
  <1>4. ASSUME NEW e \in Address, Register(c, e)
        PROVE  Carries
    BY <1>4, RegisterCarries
  <1>5. ASSUME NEW u \in DOMAIN users, ResendVerification(c, u)
        PROVE  Carries
    BY <1>5, ResendVerificationCarries
  <1>6. ASSUME NEW k \in DOMAIN mails, OpenLink(c, k)
        PROVE  Carries
    BY <1>6, OpenLinkCarries
  <1> QED BY <1>1, <1>2, <1>3, <1>4, <1>5, <1>6 DEF Arrival

LEMMA StepCarries ==
  ASSUME IInv, Remembers, Step
  PROVE  Carries
  <1>1. ASSUME NEW c \in Call, Statement(c) \/ Arrival(c)
        PROVE  Carries
    BY <1>1, StatementCarries, ArrivalCarries
  <1>2. ASSUME NEW u \in {0} \cup DOMAIN users, CreateState(u)
        PROVE  Carries
    BY <1>2, CreateStateCarries
  <1>3. ASSUME NEW u \in DOMAIN users, NEW v \in Provider, Unlink(u, v)
        PROVE  Carries
    BY <1>3, UnlinkCarries
  <1>4. ASSUME NEW u \in DOMAIN users, NEW b \in BOOLEAN, SetUserBlocked(u, b)
        PROVE  Carries
    BY <1>4, SetUserBlockedCarries
  <1>5. ASSUME NEW u \in DOMAIN users, DeleteUser(u)
        PROVE  Carries
    BY <1>5, DeleteUserCarries
  <1>6. ASSUME NEW t \in Token, Unmount(t)
        PROVE  Carries
    BY <1>6, UnmountCarries
  <1>7. CASE Restart
    BY <1>7, RestartCarries
  <1>8. CASE Tick
    BY <1>8, TickCarries
  <1> QED BY <1>1, <1>2, <1>3, <1>4, <1>5, <1>6, <1>7, <1>8 DEF Step

LEMMA NextInv ==
  ASSUME IInv, [Next]_vars
  PROVE  IInv' /\ [OneTime!Next]_OneTime!tokenVars
  <1>1. CASE Next
    <2>1. Remembers /\ Step
      BY <1>1 DEF Next, Remembers
    <2> QED BY <2>1, StepCarries DEF Carries
  <1>2. CASE UNCHANGED vars
    <2>1. /\ UNCHANGED <<users, tokens, store, accepted, mails, call, page, vouched, opened>>
          /\ UNCHANGED <<linkedOnce, events, now>>
      BY <1>2 DEF vars
    <2>2. IInv'
      <3>1. Histories' /\ Mails' /\ Accounts'
        BY <2>1 DEF IInv, Histories, Mails, Accounts, Rows, Proved
      <3>2. Strings' /\ Purposes'
        BY <2>1 DEF IInv, Strings, Purposes, Drawn
      <3>3. Calls'
        BY <2>1 DEF IInv, Calls, Relies, Proved
      <3>4. Waiting'
        BY <2>1 DEF IInv, Waiting, Asked
      <3> QED BY <3>1, <3>2, <3>3, <3>4 DEF IInv
    <2>3. UNCHANGED OneTime!tokenVars
      BY <2>1 DEF OneTime!tokenVars, Phase
    <2> QED BY <2>2, <2>3
  <1> QED BY <1>1, <1>2

(* The inductive invariant holds in every state.                           *)
THEOREM Invariant == Spec => []IInv
  <1>1. IInv /\ [Next]_vars => IInv'
    BY NextInv
  <1> QED BY <1>1, InitInv, PTL DEF Spec

(* Every variable keeps its shape; a token is either stored or accepted.   *)
THEOREM TypeCorrect == Spec => []TypeOK
  <1>1. IInv => TypeOK
    <2> SUFFICES ASSUME IInv
                 PROVE  TypeOK
      OBVIOUS
    <2>1. /\ users \in Seq(UserRow) /\ Len(users) <= MaxRow
          /\ \A u \in Rows : users[u].hash # 0 => mails[users[u].hash].row = u
      BY DEF IInv, Accounts
    <2>2. /\ tokens \in Seq(TokenType) /\ Len(tokens) <= MaxToken
          /\ store \subseteq {t \in DOMAIN tokens : accepted[t] = 0}
          /\ accepted \in [Token -> Nat]
      BY DEF IInv, Strings
    <2>3. /\ mails \in Seq([row : Row, until : Nat]) /\ Len(mails) <= MaxMail
          /\ vouched \subseteq Identities /\ opened \subseteq Mail
          /\ linkedOnce \subseteq Row \X Identities
          /\ events \subseteq EventKind /\ now \in 0 .. LastTick
      <3>1. DOMAIN mails \subseteq Mail
        BY AuthAssumption DEF IInv, Mails, Mail
      <3> QED BY <3>1 DEF IInv, Mails, Histories
    <2>4. \A c \in Call : call[c].row \in {0} \cup Row /\ call[c].token \in {0} \cup Token
      BY DEF IInv, Calls, CallType
    <2>5. page \in [Token -> [mounts : 0 .. MaxMount, exchanged : BOOLEAN,
                               shows : {"closed", "loader", "home", "error"}]]
      BY DEF IInv, Waiting, PageType
    <2> QED BY <2>1, <2>2, <2>3, <2>4, <2>5 DEF TypeOK, TokenType
  <1> QED BY <1>1, Invariant, PTL

(* However the requests interleave, an account is verified only by a mail  *)
(* opened in time or a provider that vouched for a linked identity.        *)
THEOREM Verified == Spec => []VerifiedByProof
  <1>1. IInv => VerifiedByProof
    BY DEF IInv, Accounts, VerifiedByProof, Proved
  <1> QED BY <1>1, Invariant, PTL

(* A code signs in only to an account that has been linked with the        *)
(* identity of whoever it was drawn for.                                   *)
THEOREM CodeHolders == Spec => []CodeIsForItsHolder
  <1>1. IInv => CodeIsForItsHolder
    BY DEF IInv, Purposes, CodeIsForItsHolder
  <1> QED BY <1>1, Invariant, PTL

(* The callback page never shows the failure of a code that signed in, and *)
(* never waits for an answer that is not to come.                          *)
THEOREM PageTruth == Spec => []PageFollowsCode
  <1>1. IInv => PageFollowsCode
    BY DEF IInv, Waiting, PageFollowsCode
  <1> QED BY <1>1, Invariant, PTL

(* The states, codes and tickets of a sign-in implement OneTimeToken.      *)
THEOREM Refinement == Spec => TokensAreOneTime
  <1>1. Init => OneTime!Init
    BY DEF Init, OneTime!Init, Phase
  <1>2. IInv /\ [Next]_vars => [OneTime!Next]_OneTime!tokenVars
    BY NextInv
  <1> QED BY <1>1, <1>2, Invariant, PTL DEF Spec, TokensAreOneTime, OneTime!Spec

=============================================================================
