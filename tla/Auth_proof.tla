------------------------------ MODULE Auth_proof ------------------------------
(***************************************************************************)
(* Proofs about Auth, for any users, requests and failures: AuthInv is an  *)
(* invariant, and the safety properties of accounts and tokens follow from *)
(* it.       As for the chat service, what a step does to the accounts is  *)
(* one of three things (AccountEffects), whatever action did it.           *)
(***************************************************************************)
EXTENDS Auth, TLAPS

-----------------------------------------------------------------------------
(* Types.                                                                  *)

StoreTypes ==
    /\ accounts \in [Name -> Account \cup {None}]
    /\ lastLink \in 0 .. MaxLinks
    /\ mailed \in SUBSET Link
    /\ faults \in 0 .. MaxFaults

CallTypes ==
    /\ pc \in [Proc -> {"idle", "checkName", "insertUser", "sendMail",
                        "findByLink", "markVerified", "lookUp", "sign"}]
    /\ call \in [Proc -> Registration \cup Verification \cup Credentials
                         \cup {None}]
    /\ \A p \in Proc :
          /\ pc[p] \in {"checkName", "insertUser", "sendMail"} =>
                call[p] \in Registration
          /\ pc[p] \in {"insertUser", "sendMail"} => call[p].link \in Link
          /\ pc[p] \in {"findByLink", "markVerified"} =>
                call[p] \in Verification
          /\ pc[p] = "markVerified" => call[p].name \in Name
          /\ pc[p] \in {"lookUp", "sign"} => call[p] \in Credentials

HistTypes ==
    /\ linkFor \in [Name -> Link \cup {None}]
    /\ presented \in SUBSET Link
    /\ registered \in SUBSET Registration
    /\ dead \in SUBSET Link
    /\ logins \in SUBSET Credentials

\* The type invariant of Auth speaks of what is stored, of calls and of
\* histories.
LEMMA TypeParts == TypeOK <=> StoreTypes /\ CallTypes /\ HistTypes
  BY DEF TypeOK, StoreTypes, CallTypes, HistTypes

\* A row of users is not NULL, and neither is a link.
LEMMA RowsAreNotNull ==
    /\ \A a \in Account : a # None
    /\ \A l \in Link : l # None
  BY AuthAssumption DEF Account, Link

\* A call that begins is typed, if its arguments are.
LEMMA BeginTypes ==
    ASSUME CallTypes, NEW p \in Proc, NEW c, NEW at, Begin(p, at, c),
           \/ at = "checkName" /\ c \in Registration
           \/ at = "findByLink" /\ c \in Verification
           \/ at = "lookUp" /\ c \in Credentials
    PROVE  CallTypes'
  BY DEF CallTypes, Begin

\* A call that goes on is typed, if its locals are.
LEMMA GoOnTypes ==
    ASSUME CallTypes, NEW p \in Proc, NEW c, NEW at, GoOn(p, at, c),
           \/ at \in {"insertUser", "sendMail"} /\ c \in Registration
                                                /\ c.link \in Link
           \/ at = "markVerified" /\ c \in Verification /\ c.name \in Name
           \/ at = "sign" /\ c \in Credentials
    PROVE  CallTypes'
  BY DEF CallTypes, GoOn

\* A call that returns leaves nothing behind.
LEMMA ReturnTypes ==
    ASSUME CallTypes, NEW p \in Proc, Return(p)
    PROVE  CallTypes'
  BY DEF CallTypes, Return

\* Every step keeps the types of the calls.
LEMMA CallTypesStep ==
    ASSUME AuthInv, Next
    PROVE  CallTypes'
<1> USE DEF store, histVars
<1>1. StoreTypes /\ CallTypes /\ HistTypes
  BY TypeParts DEF AuthInv
<1>2. ASSUME NEW p \in Proc, CallRegister(p)
      PROVE  CallTypes'
  BY <1>1, <1>2, BeginTypes DEF CallRegister, Registration
<1>3. ASSUME NEW p \in Proc, CallVerify(p)
      PROVE  CallTypes'
  BY <1>1, <1>3, BeginTypes DEF CallVerify, Verification
<1>4. ASSUME NEW p \in Proc, CallLogin(p)
      PROVE  CallTypes'
  BY <1>1, <1>4, BeginTypes DEF CallLogin
<1>6. ASSUME NEW p \in Proc, CheckName(p)
      PROVE  CallTypes'
  <2>1. CASE Return(p)
    BY <1>1, <2>1, ReturnTypes
  <2>2. CASE ~Return(p)
    <3>1. /\ lastLink + 1 \in Link
          /\ GoOn(p, "insertUser", [call[p] EXCEPT !.link = lastLink + 1])
          /\ call[p] \in Registration
      BY <1>1, <1>6, <2>2, AuthAssumption
      DEF CheckName, NewLink, StoreTypes, CallTypes, Link
    <3>2. /\ [call[p] EXCEPT !.link = lastLink + 1] \in Registration
          /\ [call[p] EXCEPT !.link = lastLink + 1].link \in Link
      BY <3>1 DEF Registration
    <3> QED
      BY <1>1, <3>1, <3>2, GoOnTypes
  <2> QED
    BY <2>1, <2>2
<1>7. ASSUME NEW p \in Proc, InsertUser(p)
      PROVE  CallTypes'
  <2>1. call[p] \in Registration /\ call[p].link \in Link
    BY <1>1, <1>7 DEF InsertUser, CallTypes
  <2> QED
    BY <1>1, <1>7, <2>1, GoOnTypes, ReturnTypes DEF InsertUser
<1>8. ASSUME NEW p \in Proc, FindByLink(p)
      PROVE  CallTypes'
  <2>1. CASE Return(p)
    BY <1>1, <2>1, ReturnTypes
  <2>2. CASE ~Return(p)
    <3>1. PICK n \in Name :
              GoOn(p, "markVerified", [call[p] EXCEPT !.name = n])
      BY <1>8, <2>2 DEF FindByLink
    <3>2. call[p] \in Verification
      BY <1>1, <1>8 DEF FindByLink, CallTypes
    <3>3. /\ [call[p] EXCEPT !.name = n] \in Verification
          /\ [call[p] EXCEPT !.name = n].name \in Name
      BY <3>2 DEF Verification
    <3> QED
      BY <1>1, <3>1, <3>3, GoOnTypes
  <2> QED
    BY <2>1, <2>2
<1>9. ASSUME NEW p \in Proc, LookUp(p)
      PROVE  CallTypes'
  <2>1. call[p] \in Credentials
    BY <1>1, <1>9 DEF LookUp, CallTypes
  <2> QED
    BY <1>1, <1>9, <2>1, GoOnTypes, ReturnTypes DEF LookUp
<1>10. ASSUME NEW p \in Proc,
              \/ SendMail(p) \/ MarkVerified(p) \/ Sign(p)
              \/ Fail(p) \/ FailAfterwards(p)
       PROVE  CallTypes'
  BY <1>1, <1>10, ReturnTypes
  DEF SendMail, MarkVerified, Sign, Fail, FailAfterwards
<1>11. CASE Crash
  BY <1>11 DEF Crash, CallTypes
<1> QED
  BY <1>2, <1>3, <1>4, <1>6, <1>7, <1>8, <1>9, <1>10, <1>11 DEF Next, Step

-----------------------------------------------------------------------------
(* What a step does to the accounts.                                       *)

Inserts(p) == pc[p] = "insertUser" /\ StoreUser(call[p])

Verifies(p) ==
    /\ pc[p] = "markVerified"
    /\ SetVerified(call[p].name)
    /\ UNCHANGED linkFor

\* Only the INSERT of Register and the UPDATE of VerifyEmail, each with or
\* without an answer, change an account.
LEMMA AccountEffects ==
    ASSUME Next
    PROVE  \/ UNCHANGED <<accounts, linkFor>>
           \/ \E p \in Proc : Inserts(p) \/ Verifies(p)
<1> USE DEF store, callVars, histVars
<1>1. CASE \E p \in Proc : CallRegister(p) \/ CallVerify(p) \/ CallLogin(p)
  BY <1>1 DEF CallRegister, CallVerify, CallLogin, Begin
<1>2. CASE \E p \in Proc : InsertUser(p)
  BY <1>2 DEF InsertUser, Inserts
<1>3. CASE \E p \in Proc : MarkVerified(p)
  BY <1>3 DEF MarkVerified, Verifies
<1>4. CASE \E p \in Proc : CheckName(p) \/ SendMail(p) \/ FindByLink(p)
  BY <1>4 DEF CheckName, SendMail, FindByLink
<1>5. CASE \E p \in Proc : LookUp(p) \/ Sign(p)
  BY <1>5 DEF LookUp, Sign
<1>6. CASE \E p \in Proc : Fail(p) \/ FailAfterwards(p)
  BY <1>6 DEF Fail, FailAfterwards, Inserts, Verifies
<1>7. CASE Crash
  BY <1>7 DEF Crash
<1> QED
  BY <1>1, <1>2, <1>3, <1>4, <1>5, <1>6, <1>7 DEF Next, Step

\* A new account is what its registration asked for, and unique.
LEMMA InsertEffect ==
    ASSUME AuthInv, NEW p \in Proc, Inserts(p)
    PROVE  /\ call[p] \in Registration /\ call[p].link \in Link
           /\ call[p].name \in Name
           /\ accounts[call[p].name] = None
           /\ \A m \in Name :
                 accounts[m] # None => accounts[m].email # call[p].email
           /\ accounts'[call[p].name] \in Account
           /\ accounts'[call[p].name].email = call[p].email
           /\ accounts'[call[p].name].password = call[p].password
           /\ ~accounts'[call[p].name].verified
           /\ accounts'[call[p].name].link = call[p].link
           /\ linkFor'[call[p].name] = call[p].link
           /\ \A n \in Name \ {call[p].name} :
                 accounts'[n] = accounts[n] /\ linkFor'[n] = linkFor[n]
           /\ accounts' \in [Name -> Account \cup {None}]
           /\ linkFor' \in [Name -> Link \cup {None}]
<1>1. call[p] \in Registration /\ call[p].link \in Link
  BY DEF AuthInv, TypeOK, Inserts
<1>2. [email |-> call[p].email, password |-> call[p].password,
       verified |-> FALSE, link |-> call[p].link] \in Account
  BY <1>1 DEF Registration, Account
<1>3. call[p].name \in Name
  BY <1>1 DEF Registration
<1>4. accounts'[call[p].name] =
          [email |-> call[p].email, password |-> call[p].password,
           verified |-> FALSE, link |-> call[p].link]
  BY <1>3 DEF Inserts, StoreUser, AuthInv, TypeOK
<1>5. /\ accounts'[call[p].name].email = call[p].email
      /\ accounts'[call[p].name].password = call[p].password
      /\ ~accounts'[call[p].name].verified
      /\ accounts'[call[p].name].link = call[p].link
  BY <1>4
<1>6. /\ accounts' \in [Name -> Account \cup {None}]
      /\ linkFor' \in [Name -> Link \cup {None}]
  BY <1>1, <1>2, <1>3 DEF Inserts, StoreUser, AuthInv, TypeOK
<1>7. /\ accounts[call[p].name] = None
      /\ \A m \in Name : accounts[m] # None => accounts[m].email # call[p].email
  BY DEF Inserts, StoreUser, Unique
<1>8. /\ linkFor'[call[p].name] = call[p].link
      /\ \A n \in Name \ {call[p].name} :
            accounts'[n] = accounts[n] /\ linkFor'[n] = linkFor[n]
  BY <1>3 DEF Inserts, StoreUser, AuthInv, TypeOK
<1> QED
  BY <1>1, <1>2, <1>3, <1>4, <1>5, <1>6, <1>7, <1>8

\* An account that is verified stays what it was otherwise.
LEMMA VerifyEffect ==
    ASSUME AuthInv, NEW p \in Proc, Verifies(p)
    PROVE  /\ call[p].name \in Name
           /\ accounts[call[p].name] \in Account
           /\ accounts'[call[p].name] \in Account
           /\ accounts'[call[p].name].email = accounts[call[p].name].email
           /\ accounts'[call[p].name].password = accounts[call[p].name].password
           /\ accounts'[call[p].name].verified
           /\ accounts'[call[p].name].link = None
           /\ linkFor[call[p].name] \in presented
           /\ \A n \in Name \ {call[p].name} : accounts'[n] = accounts[n]
           /\ accounts' \in [Name -> Account \cup {None}]
           /\ linkFor' = linkFor
<1>1. call[p].name \in Name /\ accounts[call[p].name] # None
  BY DEF AuthInv, TypeOK, Verifies, CallKnows
<1>2. /\ accounts \in [Name -> Account \cup {None}]
      /\ accounts[call[p].name] \in Account
  BY <1>1 DEF AuthInv, TypeOK
<1>3. accounts'[call[p].name] =
          [accounts[call[p].name] EXCEPT !.verified = TRUE, !.link = None]
  BY <1>1, <1>2 DEF Verifies, SetVerified
<1>4. /\ accounts'[call[p].name] \in Account
      /\ accounts'[call[p].name].email = accounts[call[p].name].email
      /\ accounts'[call[p].name].password = accounts[call[p].name].password
      /\ accounts'[call[p].name].verified
      /\ accounts'[call[p].name].link = None
  BY <1>2, <1>3 DEF Account
<1>5. /\ \A n \in Name \ {call[p].name} : accounts'[n] = accounts[n]
      /\ accounts' \in [Name -> Account \cup {None}]
  BY <1>1, <1>2, <1>4 DEF Verifies, SetVerified
<1>6. linkFor[call[p].name] \in presented /\ linkFor' = linkFor
  BY DEF AuthInv, CallKnows, Verifies
<1> QED
  BY <1>1, <1>2, <1>4, <1>5, <1>6

\* An account never goes, never changes its address, its password or the link
\* that was made for it, and once verified it stays verified.
LEMMA AccountsStay ==
    ASSUME AuthInv, Next, NEW n \in Name, accounts[n] # None
    PROVE  /\ accounts'[n] # None
           /\ accounts'[n].email = accounts[n].email
           /\ accounts'[n].password = accounts[n].password
           /\ accounts[n].verified => accounts'[n].verified
           /\ linkFor'[n] = linkFor[n]
<1>1. CASE UNCHANGED <<accounts, linkFor>>
  BY <1>1
<1>2. ASSUME NEW p \in Proc, Inserts(p)
      PROVE  accounts'[n] = accounts[n] /\ linkFor'[n] = linkFor[n]
  BY <1>2, InsertEffect
<1>3. ASSUME NEW p \in Proc, Verifies(p), n # call[p].name
      PROVE  accounts'[n] = accounts[n] /\ linkFor'[n] = linkFor[n]
  BY <1>3, VerifyEffect
<1>4. ASSUME NEW p \in Proc, Verifies(p), n = call[p].name
      PROVE  /\ accounts'[n] \in Account
             /\ accounts'[n].email = accounts[n].email
             /\ accounts'[n].password = accounts[n].password
             /\ accounts'[n].verified
             /\ linkFor'[n] = linkFor[n]
  BY <1>4, VerifyEffect
<1> QED
  BY <1>1, <1>2, <1>3, <1>4, AccountEffects, RowsAreNotNull

\* Every step keeps the addresses apart.
LEMMA EmailsUniqueStep ==
    ASSUME AuthInv, Next
    PROVE  EmailsUnique'
<1>1. EmailsUnique
  BY DEF AuthInv
<1>2. CASE UNCHANGED <<accounts, linkFor>>
  BY <1>1, <1>2 DEF EmailsUnique
<1>3. ASSUME NEW p \in Proc, Inserts(p)
      PROVE  EmailsUnique'
  <2>1. accounts'[call[p].name].email = call[p].email
    BY <1>3, InsertEffect
  <2> QED
    BY <1>1, <1>3, <2>1, InsertEffect DEF EmailsUnique
<1>4. ASSUME NEW p \in Proc, Verifies(p)
      PROVE  EmailsUnique'
  <2>1. \A n \in Name : accounts'[n] # None =>
            accounts[n] # None /\ accounts'[n].email = accounts[n].email
    BY <1>4, VerifyEffect, RowsAreNotNull
  <2> QED
    BY <1>1, <2>1 DEF EmailsUnique
<1> QED
  BY <1>2, <1>3, <1>4, AccountEffects

\* A confirmed registration enters the history when the mail has been tried, a
\* login when its token is signed, and a link when VerifyEmail is called with it.
LEMMA ConfirmedEffects ==
    ASSUME Next
    PROVE  /\ \/ UNCHANGED <<registered, mailed>>
              \/ \E p \in Proc : SendMail(p)
           /\ \/ UNCHANGED logins
              \/ \E p \in Proc : Sign(p)
           /\ \/ UNCHANGED dead
              \/ \E p \in Proc : FindByLink(p)
           /\ \/ UNCHANGED presented
              \/ \E p \in Proc : CallVerify(p)
<1> USE DEF store, callVars, histVars
<1>1. ASSUME NEW p \in Proc, CallRegister(p) \/ CallVerify(p) \/ CallLogin(p)
      PROVE  /\ UNCHANGED <<registered, mailed, logins, dead>>
             /\ UNCHANGED presented \/ CallVerify(p)
  BY <1>1 DEF CallRegister, CallVerify, CallLogin, Begin
<1>2. ASSUME NEW p \in Proc, SendMail(p)
      PROVE  UNCHANGED <<logins, dead, presented>>
  BY <1>2 DEF SendMail
<1>3. ASSUME NEW p \in Proc, Sign(p)
      PROVE  UNCHANGED <<registered, mailed, dead, presented>>
  BY <1>3 DEF Sign
<1>4. ASSUME NEW p \in Proc, FindByLink(p)
      PROVE  UNCHANGED <<registered, mailed, logins, presented>>
  BY <1>4 DEF FindByLink
<1>5. ASSUME NEW p \in Proc,
             \/ CheckName(p) \/ InsertUser(p) \/ MarkVerified(p) \/ LookUp(p)
             \/ Fail(p) \/ FailAfterwards(p)
      PROVE  UNCHANGED <<registered, mailed, logins, dead, presented>>
  BY <1>5 DEF CheckName, InsertUser, MarkVerified, LookUp, Fail, FailAfterwards
<1>6. CASE Crash
  BY <1>6 DEF Crash
<1> QED
  BY <1>1, <1>2, <1>3, <1>4, <1>5, <1>6 DEF Next, Step

\* The links that were presented are not forgotten.
LEMMA PresentedGrows ==
    ASSUME Next
    PROVE  presented \subseteq presented'
  BY ConfirmedEffects DEF CallVerify

\* Every step keeps accounts unlocked by their own links only.
LEMMA VerifiedByOwnLinkStep ==
    ASSUME AuthInv, Next
    PROVE  VerifiedByOwnLink'
<1>1. VerifiedByOwnLink /\ presented \subseteq presented'
  BY PresentedGrows DEF AuthInv
<1>2. CASE UNCHANGED <<accounts, linkFor>>
  BY <1>1, <1>2 DEF VerifiedByOwnLink
<1>3. ASSUME NEW p \in Proc, Inserts(p)
      PROVE  VerifiedByOwnLink'
  <2>1. /\ ~accounts'[call[p].name].verified
        /\ accounts'[call[p].name].link = linkFor'[call[p].name]
    BY <1>3, InsertEffect
  <2> QED
    BY <1>1, <1>3, <2>1, InsertEffect DEF VerifiedByOwnLink
<1>4. ASSUME NEW p \in Proc, Verifies(p)
      PROVE  VerifiedByOwnLink'
  <2>1. accounts'[call[p].name].verified
    BY <1>4, VerifyEffect
  <2> QED
    BY <1>1, <1>4, <2>1, VerifyEffect DEF VerifiedByOwnLink
<1> QED
  BY <1>2, <1>3, <1>4, AccountEffects

\* What is stored keeps its types.
LEMMA StoreTypesStep ==
    ASSUME AuthInv, Next
    PROVE  StoreTypes'
<1> USE DEF store, histVars
<1>1. StoreTypes /\ CallTypes /\ HistTypes
  BY TypeParts DEF AuthInv
<1>2. accounts' \in [Name -> Account \cup {None}]
  BY <1>1, AccountEffects, InsertEffect, VerifyEffect DEF StoreTypes
<1>3. mailed' \in SUBSET Link
  <2>1. ASSUME NEW p \in Proc, SendMail(p)
        PROVE  mailed' \in SUBSET Link
    <3>1. call[p].link \in Link
      BY <1>1, <2>1 DEF SendMail, CallTypes
    <3> QED
      BY <1>1, <2>1, <3>1 DEF SendMail, StoreTypes
  <2> QED
    BY <1>1, <2>1, ConfirmedEffects DEF StoreTypes
<1>4. lastLink' \in 0 .. MaxLinks /\ faults' \in 0 .. MaxFaults
  <2> USE AuthAssumption DEF StoreTypes
  <2>1. ASSUME NEW p \in Proc, CallRegister(p) \/ CallVerify(p) \/ CallLogin(p)
        PROVE  UNCHANGED <<lastLink, faults>>
    BY <2>1 DEF CallRegister, CallVerify, CallLogin, Begin
  <2>2. ASSUME NEW p \in Proc, CheckName(p)
        PROVE  UNCHANGED faults /\ lastLink' \in 0 .. MaxLinks
    BY <1>1, <2>2 DEF CheckName
  <2>3. ASSUME NEW p \in Proc,
               \/ InsertUser(p) \/ SendMail(p) \/ FindByLink(p)
               \/ MarkVerified(p) \/ LookUp(p) \/ Sign(p)
        PROVE  UNCHANGED <<lastLink, faults>>
    BY <2>3 DEF InsertUser, SendMail, FindByLink, MarkVerified, LookUp, Sign
  <2>4. ASSUME NEW p \in Proc, Fail(p) \/ FailAfterwards(p)
        PROVE  UNCHANGED lastLink /\ faults' \in 0 .. MaxFaults
    BY <1>1, <2>4 DEF Fail, FailAfterwards
  <2>5. CASE Crash
    BY <1>1, <2>5 DEF Crash
  <2> QED
    BY <1>1, <2>1, <2>2, <2>3, <2>4, <2>5 DEF Next, Step
<1> QED
  BY <1>2, <1>3, <1>4 DEF StoreTypes

\* The histories keep their types.
LEMMA HistTypesStep ==
    ASSUME AuthInv, Next
    PROVE  HistTypes'
<1> USE ConfirmedEffects
<1>1. StoreTypes /\ CallTypes /\ HistTypes
  BY TypeParts DEF AuthInv
<1>2. linkFor' \in [Name -> Link \cup {None}]
  BY <1>1, AccountEffects, InsertEffect, VerifyEffect DEF HistTypes
<1>3. presented' \in SUBSET Link
  BY <1>1 DEF HistTypes, CallVerify
<1>4. registered' \in SUBSET Registration
  BY <1>1 DEF HistTypes, CallTypes, SendMail
<1>5. logins' \in SUBSET Credentials
  BY <1>1 DEF HistTypes, CallTypes, Sign
<1>6. dead' \in SUBSET Link
  <2>1. ASSUME NEW p \in Proc, FindByLink(p)
        PROVE  dead' \in SUBSET Link
    <3>1. call[p].link \in Link
      BY <1>1, <2>1 DEF FindByLink, CallTypes, Verification
    <3> QED
      BY <1>1, <2>1, <3>1 DEF FindByLink, HistTypes
  <2> QED
    BY <1>1, <2>1 DEF HistTypes
<1> QED
  BY <1>2, <1>3, <1>4, <1>5, <1>6 DEF HistTypes

-----------------------------------------------------------------------------
(* What a confirmed registration and an issued token stand on.             *)

\* An account goes on holding what a registration asked for.
LEMMA HoldsStays ==
    ASSUME AuthInv, Next, NEW r \in Registration, Holds(r)
    PROVE  Holds(r)'
<1>1. r.name \in Name
  BY DEF Registration
<1> QED
  BY <1>1, AccountsStay DEF Holds

\* Every confirmed registration is held.
LEMMA RegisteredStep ==
    ASSUME AuthInv, Next
    PROVE  \A r \in registered' : Holds(r)'
<1>1. \A r \in registered : r \in Registration /\ Holds(r)
  BY DEF AuthInv, TypeOK
<1>2. ASSUME NEW p \in Proc, pc[p] = "sendMail"
      PROVE  call[p] \in Registration /\ Holds(call[p])
  BY <1>2 DEF AuthInv, TypeOK, CallKnows
<1>3. \A r \in registered' : r \in Registration /\ Holds(r)
  BY <1>1, <1>2, ConfirmedEffects DEF SendMail
<1> QED
  BY <1>3, HoldsStays

\* Whoever may log in may do so later.
LEMMA MayLoginStays ==
    ASSUME AuthInv, Next, NEW c, c.name \in Name, MayLogin(c)
    PROVE  MayLogin(c)'
  BY AccountsStay DEF MayLogin

\* Every token is earned.
LEMMA TokensAreEarnedStep ==
    ASSUME AuthInv, Next
    PROVE  TokensAreEarned'
<1>1. \A c \in logins : c.name \in Name /\ MayLogin(c)
  BY DEF AuthInv, TypeOK, TokensAreEarned, MayLogin, Credentials
<1>2. ASSUME NEW p \in Proc, Sign(p)
      PROVE  call[p].name \in Name /\ MayLogin(call[p])
  BY <1>2 DEF Sign, AuthInv, TypeOK, CallKnows, Credentials
<1>3. \A c \in logins' : c.name \in Name /\ MayLogin(c)
  BY <1>1, <1>2, ConfirmedEffects DEF Sign
<1> QED
  BY <1>3, MayLoginStays DEF TokensAreEarned, MayLogin

-----------------------------------------------------------------------------
(* Links.                                                                  *)

\* Every step keeps verified accounts without a link.
LEMMA UsedLinksGoStep ==
    ASSUME AuthInv, Next
    PROVE  UsedLinksGo'
<1>1. UsedLinksGo
  BY DEF AuthInv
<1>2. CASE UNCHANGED <<accounts, linkFor>>
  BY <1>1, <1>2 DEF UsedLinksGo
<1>3. ASSUME NEW p \in Proc, Inserts(p)
      PROVE  UsedLinksGo'
  BY <1>1, <1>3, InsertEffect DEF UsedLinksGo
<1>4. ASSUME NEW p \in Proc, Verifies(p)
      PROVE  UsedLinksGo'
  BY <1>1, <1>4, VerifyEffect DEF UsedLinksGo
<1> QED
  BY <1>2, <1>3, <1>4, AccountEffects

\* The account of a link stays, and so does what has been done to it.
Stored(l) == \E n \in Name : linkFor[n] = l /\ accounts[n] # None

\* Only the links of accounts are mailed or presented.
LEMMA LinksWereStoredStep ==
    ASSUME AuthInv, Next
    PROVE  LinksWereStored'
<1>1. /\ TypeOK /\ VerifiedByOwnLink /\ UsedLinksGo
      /\ \A l \in mailed \cup presented : Stored(l)
      /\ \A p \in Proc : CallKnows(p)
  BY DEF AuthInv, LinksWereStored, Stored
<1>2. \A l : Stored(l) => Stored(l)'
  BY AccountsStay DEF Stored
<1>3. ASSUME NEW p \in Proc, SendMail(p)
      PROVE  \A l \in mailed' : Stored(l)
  <2>1. call[p] \in Registration /\ Holds(call[p])
    BY <1>1, <1>3 DEF SendMail, TypeOK, CallKnows
  <2>2. Stored(call[p].link)
    BY <2>1 DEF Holds, Stored, Registration
  <2> QED
    BY <1>1, <1>3, <2>2 DEF SendMail
<1>4. ASSUME NEW p \in Proc, CallVerify(p)
      PROVE  \A l \in presented' : Stored(l)
  <2>1. PICK l \in Link : Known(l) /\ presented' = presented \cup {l}
    BY <1>4 DEF CallVerify
  <2>2. ASSUME NEW n \in Name, accounts[n] # None, accounts[n].link = l
        PROVE  Stored(l)
    BY <1>1, <2>1, <2>2, RowsAreNotNull DEF VerifiedByOwnLink, UsedLinksGo, Stored
  <2>3. Stored(l)
    BY <1>1, <2>1, <2>2 DEF Known
  <2> QED
    BY <1>1, <2>1, <2>3
<1>5. \A l \in mailed' \cup presented' : Stored(l)
  BY <1>1, <1>3, <1>4, ConfirmedEffects
<1> QED
  BY <1>2, <1>5 DEF LinksWereStored, Stored

\* A link that finds no account was taken from it when it was verified.
LEMMA DeadLinksStep ==
    ASSUME AuthInv, Next
    PROVE  DeadLinksHaveVerified'
<1> DEFINE Used(l) == \E n \in Name :
                         linkFor[n] = l /\ accounts[n] # None /\ accounts[n].verified
<1>1. \A l \in dead : Used(l)
  BY DEF AuthInv, DeadLinksHaveVerified
<1>2. ASSUME NEW p \in Proc, FindByLink(p), dead' # dead
      PROVE  \A l \in dead' : Used(l)
  <2>1. /\ dead' = dead \cup {call[p].link}
        /\ \A n \in Name : ~HasLink(n, call[p].link)
        /\ call[p].link \in presented
    BY <1>2 DEF FindByLink, AuthInv, CallKnows
  <2>2. PICK n \in Name : linkFor[n] = call[p].link /\ accounts[n] # None
    BY <2>1 DEF AuthInv, LinksWereStored
  <2>3. accounts[n].verified
    BY <2>1, <2>2 DEF HasLink, AuthInv, VerifiedByOwnLink
  <2> QED
    BY <1>1, <2>1, <2>2, <2>3
<1>3. \A l \in dead' : Used(l)
  BY <1>1, <1>2, ConfirmedEffects
<1> QED
  BY <1>3, AccountsStay DEF DeadLinksHaveVerified

-----------------------------------------------------------------------------
(* What a call has learnt.                                                 *)

\* The facts about a call that are left alone stay true.
LEMMA OthersKnow ==
    ASSUME AuthInv, Next, NEW p \in Proc, pc'[p] = pc[p], call'[p] = call[p]
    PROVE  CallKnows(p)'
<1>1. /\ TypeOK /\ CallKnows(p)
  BY DEF AuthInv
<1>2. ASSUME pc[p] = "sendMail"
      PROVE  Holds(call[p])'
  BY <1>1, <1>2, HoldsStays DEF TypeOK, CallKnows
<1>3. pc[p] \in {"findByLink", "markVerified"} => call[p].link \in presented'
  BY <1>1, PresentedGrows DEF CallKnows
<1>4. ASSUME pc[p] = "markVerified"
      PROVE  /\ accounts'[call[p].name] # None
             /\ linkFor'[call[p].name] = call[p].link
  BY <1>1, <1>4, AccountsStay DEF TypeOK, CallKnows
<1>5. ASSUME pc[p] = "sign"
      PROVE  MayLogin(call[p])'
  <2>1. call[p].name \in Name
    BY <1>1, <1>5 DEF TypeOK, Credentials
  <2> QED
    BY <1>1, <1>5, <2>1, MayLoginStays DEF CallKnows
<1> QED
  BY <1>2, <1>3, <1>4, <1>5 DEF CallKnows

\* A step of one goroutine leaves what the others know.
LEMMA OneCallKnows ==
    ASSUME AuthInv, Next, NEW p \in Proc, NEW at, NEW c, GoOn(p, at, c),
           CallKnows(p)'
    PROVE  \A q \in Proc : CallKnows(q)'
<1>1. \A q \in Proc \ {p} : pc'[q] = pc[q] /\ call'[q] = call[q]
  BY DEF AuthInv, TypeOK, GoOn
<1> QED
  BY <1>1, OthersKnow

\* Nothing is asked of a call that has returned.
LEMMA ReturnKnows ==
    ASSUME AuthInv, Next, NEW p \in Proc, Return(p)
    PROVE  \A q \in Proc : CallKnows(q)'
<1>1. GoOn(p, "idle", None) /\ pc'[p] = "idle"
  BY DEF AuthInv, TypeOK, Return, GoOn
<1>2. CallKnows(p)'
  BY <1>1 DEF CallKnows
<1> QED
  BY <1>1, <1>2, OneCallKnows

\* Where a goroutine stands after it went on.
LEMMA WentOn ==
    ASSUME AuthInv, NEW p \in Proc, NEW at, NEW c, GoOn(p, at, c)
    PROVE  pc'[p] = at /\ call'[p] = c
  BY DEF AuthInv, TypeOK, GoOn

\* Every step keeps what the calls know.
LEMMA CallKnowsStep ==
    ASSUME AuthInv, Next
    PROVE  \A p \in Proc : CallKnows(p)'
<1> DEFINE Goal == \A q \in Proc : CallKnows(q)'
<1>1. TypeOK /\ \A p \in Proc : CallKnows(p)
  BY DEF AuthInv
<1>2. ASSUME NEW p \in Proc, CallRegister(p)
      PROVE  Goal
  <2>1. PICK c : GoOn(p, "checkName", c)
    BY <1>2 DEF CallRegister, Begin, GoOn
  <2>2. CallKnows(p)'
    BY <2>1, WentOn DEF CallKnows
  <2> QED
    BY <2>1, <2>2, OneCallKnows
<1>3. ASSUME NEW p \in Proc, CallVerify(p)
      PROVE  Goal
  <2>1. PICK l \in Link : /\ GoOn(p, "findByLink", [link |-> l, name |-> None])
                          /\ l \in presented'
    BY <1>3 DEF CallVerify, Begin, GoOn
  <2>2. CallKnows(p)'
    BY <2>1, WentOn DEF CallKnows
  <2> QED
    BY <2>1, <2>2, OneCallKnows
<1>4. ASSUME NEW p \in Proc, CallLogin(p)
      PROVE  Goal
  <2>1. PICK c : GoOn(p, "lookUp", c)
    BY <1>4 DEF CallLogin, Begin, GoOn
  <2>2. CallKnows(p)'
    BY <2>1, WentOn DEF CallKnows
  <2> QED
    BY <2>1, <2>2, OneCallKnows
<1>6. ASSUME NEW p \in Proc, CheckName(p)
      PROVE  Goal
  <2>1. CASE Return(p)
    BY <2>1, ReturnKnows
  <2>2. CASE ~Return(p)
    <3>1. PICK c : GoOn(p, "insertUser", c)
      BY <1>6, <2>2 DEF CheckName
    <3>2. CallKnows(p)'
      BY <3>1, WentOn DEF CallKnows
    <3> QED
      BY <3>1, <3>2, OneCallKnows
  <2> QED
    BY <2>1, <2>2
<1>7. ASSUME NEW p \in Proc, InsertUser(p)
      PROVE  Goal
  <2>1. CASE Return(p)
    BY <2>1, ReturnKnows
  <2>2. CASE ~Return(p)
    <3>1. Inserts(p) /\ GoOn(p, "sendMail", call[p])
      BY <1>7, <2>2 DEF InsertUser, Inserts
    <3>2. pc'[p] = "sendMail" /\ call'[p] = call[p]
      BY <3>1, WentOn
    <3>3. /\ accounts'[call[p].name] \in Account
          /\ accounts'[call[p].name].email = call[p].email
          /\ accounts'[call[p].name].password = call[p].password
          /\ linkFor'[call[p].name] = call[p].link
      BY <3>1, InsertEffect
    <3>4. CallKnows(p)'
      BY <3>2, <3>3, RowsAreNotNull DEF CallKnows, Holds
    <3> QED
      BY <3>1, <3>4, OneCallKnows
  <2> QED
    BY <2>1, <2>2
<1>8. ASSUME NEW p \in Proc, FindByLink(p)
      PROVE  Goal
  <2>1. CASE Return(p)
    BY <2>1, ReturnKnows
  <2>2. CASE ~Return(p)
    <3>1. PICK n \in Name :
              /\ HasLink(n, call[p].link)
              /\ ~accounts[n].verified
              /\ GoOn(p, "markVerified", [call[p] EXCEPT !.name = n])
      BY <1>8, <2>2 DEF FindByLink
    <3>2. call[p] \in Verification /\ call[p].link \in presented
      BY <1>1, <1>8 DEF FindByLink, TypeOK, CallKnows
    <3>3. pc'[p] = "markVerified" /\ call'[p].name = n
          /\ call'[p].link = call[p].link
      BY <3>1, <3>2, WentOn DEF Verification
    <3>4. accounts[n] # None /\ linkFor[n] = call[p].link
      BY <3>1 DEF HasLink, AuthInv, VerifiedByOwnLink
    <3>5. accounts'[n] # None /\ linkFor'[n] = call[p].link
      BY <3>4, AccountsStay
    <3>6. CallKnows(p)'
      BY <3>2, <3>3, <3>5, PresentedGrows DEF CallKnows
    <3> QED
      BY <3>1, <3>6, OneCallKnows
  <2> QED
    BY <2>1, <2>2
<1>9. ASSUME NEW p \in Proc, LookUp(p)
      PROVE  Goal
  <2>1. CASE Return(p)
    BY <2>1, ReturnKnows
  <2>2. CASE ~Return(p)
    <3>1. MayLogin(call[p]) /\ GoOn(p, "sign", call[p]) /\ pc[p] = "lookUp"
      BY <1>9, <2>2 DEF LookUp
    <3>2. call[p].name \in Name
      BY <1>1, <3>1 DEF TypeOK, Credentials
    <3>3. pc'[p] = "sign" /\ call'[p] = call[p] /\ MayLogin(call[p])'
      BY <3>1, <3>2, WentOn, MayLoginStays
    <3>4. CallKnows(p)'
      BY <3>3 DEF CallKnows, MayLogin
    <3> QED
      BY <3>1, <3>4, OneCallKnows
  <2> QED
    BY <2>1, <2>2
<1>10. ASSUME NEW p \in Proc,
              \/ SendMail(p) \/ MarkVerified(p) \/ Sign(p)
              \/ Fail(p) \/ FailAfterwards(p)
       PROVE  Goal
  BY <1>10, ReturnKnows
  DEF SendMail, MarkVerified, Sign, Fail, FailAfterwards
<1>11. CASE Crash
  BY <1>11 DEF Crash, CallKnows
<1> QED
  BY <1>2, <1>3, <1>4, <1>6, <1>7, <1>8, <1>9, <1>10, <1>11 DEF Next, Step

-----------------------------------------------------------------------------
(* The theorems.                                                           *)

\* The service starts without accounts, calls and tokens.
LEMMA AuthInvInit == Init => AuthInv
<1> SUFFICES ASSUME Init
             PROVE  AuthInv
  OBVIOUS
<1>1. TypeOK
  BY AuthAssumption DEF Init, TypeOK, Link
<1> QED
  BY <1>1 DEF Init, AuthInv, EmailsUnique, VerifiedByOwnLink, CallKnows,
     UsedLinksGo, LinksWereStored, DeadLinksHaveVerified, TokensAreEarned

\* Every step keeps the invariant.
LEMMA AuthInvStep == AuthInv /\ [Next]_vars => AuthInv'
<1> SUFFICES ASSUME AuthInv, [Next]_vars
             PROVE  AuthInv'
  OBVIOUS
<1>1. CASE Next
  <2>1. TypeOK'
    BY <1>1, StoreTypesStep, CallTypesStep, HistTypesStep
    DEF TypeOK, StoreTypes, CallTypes, HistTypes
  <2> QED
    BY <1>1, <2>1, EmailsUniqueStep, VerifiedByOwnLinkStep, CallKnowsStep,
       RegisteredStep, UsedLinksGoStep, LinksWereStoredStep, DeadLinksStep,
       TokensAreEarnedStep
    DEF AuthInv
<1>2. CASE UNCHANGED vars
  BY <1>2 DEF vars, store, callVars, histVars, AuthInv, TypeOK, EmailsUnique,
     VerifiedByOwnLink, CallKnows, Holds, MayLogin, UsedLinksGo,
     LinksWereStored, DeadLinksHaveVerified, TokensAreEarned
<1> QED
  BY <1>1, <1>2

\* In every run, whatever calls overlap and whatever fails, the addresses are
\* distinct, accounts hold what was registered and are verified by their own
\* links, and what a call knows of an account is true when it is used.
THEOREM AuthInvariant == Spec => []AuthInv
  BY AuthInvInit, AuthInvStep, PTL DEF Spec

\* Accounts, links, tokens and calls have their types.
THEOREM AuthTypes == Spec => []TypeOK
<1>1. AuthInv => TypeOK
  BY DEF AuthInv
<1> QED
  BY <1>1, AuthInvariant, PTL

\* A confirmed registration keeps its name, address and password for good, and
\* shares neither name nor address with another.
THEOREM RegistrationsAreKept == Spec => []RegisteredIsKept
<1>1. AuthInv => RegisteredIsKept
  <2> SUFFICES ASSUME AuthInv, NEW r \in registered
               PROVE  /\ Holds(r)
                      /\ \A s \in registered :
                            s.name = r.name \/ s.email = r.email => s = r
    BY DEF RegisteredIsKept, Holds
  <2>1. \A s \in registered : s \in Registration /\ s.name \in Name /\ Holds(s)
    BY DEF AuthInv, TypeOK, Registration
  <2>2. ASSUME NEW s \in registered, s.name = r.name \/ s.email = r.email
        PROVE  s = r
    <3>1. s.name = r.name
      BY <2>1, <2>2 DEF AuthInv, EmailsUnique, Holds
    <3>2. /\ s.email = r.email
          /\ s.password = r.password
          /\ s.link = r.link
      BY <2>1, <3>1 DEF Holds
    <3> QED
      BY <2>1, <3>1, <3>2 DEF Registration
  <2> QED
    BY <2>1, <2>2
<1> QED
  BY <1>1, AuthInvariant, PTL

\* An account is verified by its own link only, and its link works until then.
THEOREM LinksVerify == Spec => []VerifiedByOwnLink
<1>1. AuthInv => VerifiedByOwnLink
  BY DEF AuthInv
<1> QED
  BY <1>1, AuthInvariant, PTL

\* A token was given to a verified account for its password.
THEOREM EarnedTokens == Spec => []TokensAreEarned
<1>1. AuthInv => TokensAreEarned
  BY DEF AuthInv
<1> QED
  BY <1>1, AuthInvariant, PTL

\* A link that finds no account any more has verified it.
THEOREM LinksAreUsedUp == Spec => []DeadLinksHaveVerified
<1>1. AuthInv => DeadLinksHaveVerified
  BY DEF AuthInv
<1> QED
  BY <1>1, AuthInvariant, PTL
=============================================================================
