--------------------------------- MODULE Auth ---------------------------------
(***************************************************************************)
(* AuthService with its user repository: concurrent calls of Register,     *)
(* VerifyEmail and Login, each a sequence of accesses to PostgreSQL and the *)
(* mail server, between which other calls run.  Any access may fail, a     *)
(* failed one may have been executed, and the process may be killed.       *)
(*                                                                         *)
(* Names, addresses and passwords are opaque and not empty.  A link stands *)
(* for its verification token: 32 random bytes, hence a fresh number.      *)
(* Signatures are taken to be sound.  No code calls RevokeToken and the    *)
(* handler of /auth/logout is empty, so that a session ends with the hour  *)
(* of its token only; ValidateToken changes nothing, and what it needs of  *)
(* Redis is in Lifecycle.                                                  *)
(***************************************************************************)
EXTENDS Naturals

CONSTANTS
    Name, Email, Password,
    Proc,       \* goroutines that serve requests
    None,       \* nil, NULL, an absent row or key
    MaxLinks,   \* bound: verification tokens generated
    MaxFaults   \* bound: failed accesses and crashes

ASSUME AuthAssumption ==
    /\ MaxLinks \in Nat
    /\ MaxFaults \in Nat
    /\ None \notin Nat
    /\ None \notin [email : Email, password : Password, verified : BOOLEAN,
                    link : 1 .. MaxLinks \cup {None}]

Link == 1 .. MaxLinks

VARIABLES
    accounts,   \* table users: name -> row
    lastLink,   \* verification tokens generated so far
    pc,         \* the access that each goroutine does next
    call,       \* the arguments and locals of its call
    faults,     \* how much of the bound is used
    mailed,     \* the links that reached a mailbox
    linkFor,    \* history: the link that was stored with an account
    presented,  \* history: the links with which VerifyEmail was called
    registered, \* history: the Register calls that returned no error
    dead,       \* history: the links for which VerifyEmail found no account
    logins      \* history: the Login calls that returned a token

store == <<accounts, lastLink, mailed>>
callVars == <<pc, call>>
histVars == <<linkFor, presented, registered, dead, logins>>
vars == <<store, callVars, faults, histVars>>

Account == [email : Email, password : Password, verified : BOOLEAN,
            link : Link \cup {None}]

Registration == [name : Name, email : Email, password : Password,
                 link : Link \cup {None}]
Verification == [link : Link, name : Name \cup {None}]
Credentials == [name : Name, password : Password]

TypeOK ==
    /\ accounts \in [Name -> Account \cup {None}]
    /\ lastLink \in 0 .. MaxLinks
    /\ pc \in [Proc -> {"idle", "checkName", "insertUser", "sendMail",
                        "findByLink", "markVerified", "lookUp", "sign"}]
    /\ call \in [Proc -> Registration \cup Verification \cup Credentials
                         \cup {None}]
    /\ \A p \in Proc :
          /\ pc[p] \in {"checkName", "insertUser", "sendMail"} =>
                call[p] \in Registration
          /\ pc[p] \in {"insertUser", "sendMail"} => call[p].link \in Link
          /\ pc[p] \in {"findByLink", "markVerified"} =>
                call[p] \in Verification
          /\ pc[p] = "markVerified" => call[p].name \in Name
          /\ pc[p] \in {"lookUp", "sign"} => call[p] \in Credentials
    /\ faults \in 0 .. MaxFaults
    /\ mailed \in SUBSET Link
    /\ linkFor \in [Name -> Link \cup {None}]
    /\ presented \in SUBSET Link
    /\ registered \in SUBSET Registration
    /\ dead \in SUBSET Link
    /\ logins \in SUBSET Credentials

Init ==
    /\ accounts = [n \in Name |-> None]
    /\ lastLink = 0
    /\ pc = [p \in Proc |-> "idle"]
    /\ call = [p \in Proc |-> None]
    /\ faults = 0
    /\ mailed = {}
    /\ linkFor = [n \in Name |-> None]
    /\ presented = {}
    /\ registered = {}
    /\ dead = {}
    /\ logins = {}

\* p begins a call with arguments c, goes on with it, or returns from it.
Begin(p, at, c) ==
    /\ pc[p] = "idle"
    /\ pc' = [pc EXCEPT ![p] = at]
    /\ call' = [call EXCEPT ![p] = c]
    /\ UNCHANGED <<store, faults>>

GoOn(p, at, c) ==
    /\ pc' = [pc EXCEPT ![p] = at]
    /\ call' = [call EXCEPT ![p] = c]

Return(p) ==
    /\ pc' = [pc EXCEPT ![p] = "idle"]
    /\ call' = [call EXCEPT ![p] = None]

-----------------------------------------------------------------------------
(* Register.                                                               *)

CallRegister(p) ==
    /\ \E n \in Name, e \in Email, w \in Password :
          Begin(p, "checkName",
                [name |-> n, email |-> e, password |-> w, link |-> None])
    /\ UNCHANGED histVars

\* generateVerificationToken.  (Variant for the checks: its error is ignored.)
NoLink == None
NewLink == lastLink + 1

\* GetUserByName finds nobody, and a verification token is generated.
CheckName(p) ==
    /\ pc[p] = "checkName"
    /\ \/ /\ accounts[call[p].name] = None
          /\ lastLink < MaxLinks
          /\ lastLink' = lastLink + 1
          /\ GoOn(p, "insertUser", [call[p] EXCEPT !.link = NewLink])
       \/ /\ accounts[call[p].name] # None
          /\ Return(p)
          /\ UNCHANGED lastLink
    /\ UNCHANGED <<accounts, mailed, faults, histVars>>

\* The UNIQUE columns username and email.  (Variant for the checks: only the
\* name is.)
NameUnique(n, e) == accounts[n] = None
Unique(n, e) ==
    /\ accounts[n] = None
    /\ \A m \in Name : accounts[m] # None => accounts[m].email # e

\* INSERT INTO users.
StoreUser(r) ==
    /\ Unique(r.name, r.email)
    /\ accounts' = [accounts EXCEPT ![r.name] =
          [email |-> r.email, password |-> r.password, verified |-> FALSE,
           link |-> r.link]]
    /\ linkFor' = [linkFor EXCEPT ![r.name] = r.link]

InsertUser(p) ==
    /\ pc[p] = "insertUser"
    /\ \/ StoreUser(call[p]) /\ GoOn(p, "sendMail", call[p])
       \/ /\ ~Unique(call[p].name, call[p].email)
          /\ Return(p)
          /\ UNCHANGED <<accounts, linkFor>>
    /\ UNCHANGED <<lastLink, mailed, faults, presented, registered, dead,
                   logins>>

\* A mail that cannot be sent is no error of Register.
SendMail(p) ==
    /\ pc[p] = "sendMail"
    /\ mailed' \in {mailed, mailed \cup {call[p].link}}
    /\ registered' = registered \cup {call[p]}
    /\ Return(p)
    /\ UNCHANGED <<accounts, lastLink, faults, linkFor, presented, dead, logins>>

-----------------------------------------------------------------------------
(* VerifyEmail.                                                            *)

\* The links that people have: from a mail, now or earlier, or from
\* /auth/verification-token.
Known(l) ==
    \/ l \in mailed
    \/ \E n \in Name : accounts[n] # None /\ accounts[n].link = l

CallVerify(p) ==
    /\ \E l \in Link :
          /\ Known(l)
          /\ Begin(p, "findByLink", [link |-> l, name |-> None])
          /\ presented' = presented \cup {l}
    /\ UNCHANGED <<linkFor, registered, dead, logins>>

HasLink(n, l) == accounts[n] # None /\ accounts[n].link = l

\* GetUserByVerifyToken.  Without a row it returns nil and no error, and
\* user.IsVerefied panics; the recovery of the router answers 500, and nothing
\* has changed.
FindByLink(p) ==
    /\ pc[p] = "findByLink"
    /\ \/ \E n \in Name :
            /\ HasLink(n, call[p].link)
            /\ IF accounts[n].verified THEN Return(p)
               ELSE GoOn(p, "markVerified", [call[p] EXCEPT !.name = n])
            /\ UNCHANGED dead
       \/ /\ \A n \in Name : ~HasLink(n, call[p].link)
          /\ dead' = dead \cup {call[p].link}
          /\ Return(p)
    /\ UNCHANGED <<store, faults, linkFor, presented, registered, logins>>

\* MarkUserAsVerified, by name.  (Variant for the checks: the verification
\* token of a row that is not verified is lost.)
OnlyClearLink(n) == accounts' = [accounts EXCEPT ![n].link = None]
SetVerified(n) ==
    accounts' = [accounts EXCEPT ![n].verified = TRUE, ![n].link = None]

MarkVerified(p) ==
    /\ pc[p] = "markVerified"
    /\ SetVerified(call[p].name)
    /\ Return(p)
    /\ UNCHANGED <<lastLink, mailed, faults, histVars>>

-----------------------------------------------------------------------------
(* Login.                                                                  *)

CallLogin(p) ==
    /\ \E c \in Credentials : Begin(p, "lookUp", c)
    /\ UNCHANGED histVars

\* The account is verified and has this password.  (Variant for the checks:
\* whether it is verified is not looked at.)
PasswordFits(c) ==
    accounts[c.name] # None /\ accounts[c.name].password = c.password
MayLogin(c) ==
    /\ accounts[c.name] # None
    /\ accounts[c.name].verified
    /\ accounts[c.name].password = c.password

LookUp(p) ==
    /\ pc[p] = "lookUp"
    /\ IF MayLogin(call[p]) THEN GoOn(p, "sign", call[p]) ELSE Return(p)
    /\ UNCHANGED <<store, faults, histVars>>

\* The token has no more than the name and the hour.
Sign(p) ==
    /\ pc[p] = "sign"
    /\ logins' = logins \cup {call[p]}
    /\ Return(p)
    /\ UNCHANGED <<store, faults, linkFor, presented, registered, dead>>

-----------------------------------------------------------------------------
(* Failures and crashes.                                                   *)

\* An access fails, and the call returns an error.
Fail(p) ==
    /\ pc[p] \in {"checkName", "insertUser", "findByLink", "markVerified",
                  "lookUp", "sign"}
    /\ faults < MaxFaults
    /\ faults' = faults + 1
    /\ Return(p)
    /\ UNCHANGED <<store, histVars>>

\* The same, but the database did execute the statement.
FailAfterwards(p) ==
    /\ faults < MaxFaults
    /\ faults' = faults + 1
    /\ \/ pc[p] = "insertUser" /\ StoreUser(call[p])
       \/ pc[p] = "markVerified" /\ SetVerified(call[p].name)
                                 /\ UNCHANGED linkFor
    /\ Return(p)
    /\ UNCHANGED <<lastLink, mailed, presented, registered, dead, logins>>

Crash ==
    /\ faults < MaxFaults
    /\ faults' = faults + 1
    /\ pc' = [p \in Proc |-> "idle"]
    /\ call' = [p \in Proc |-> None]
    /\ UNCHANGED <<store, histVars>>

Step(p) ==
    \/ CheckName(p) \/ InsertUser(p) \/ SendMail(p)
    \/ FindByLink(p) \/ MarkVerified(p)
    \/ LookUp(p) \/ Sign(p)

Next ==
    \/ \E p \in Proc : CallRegister(p) \/ CallVerify(p) \/ CallLogin(p)
    \/ \E p \in Proc : Step(p)
    \/ \E p \in Proc : Fail(p) \/ FailAfterwards(p)
    \/ Crash

Spec == Init /\ [][Next]_vars

-----------------------------------------------------------------------------
\* A registration that was confirmed to its caller is his for good: the account
\* has his address and password, and no other confirmed registration has the
\* same name or address, although Register looks for the name one statement
\* before it inserts and never for the address.
RegisteredIsKept ==
    \A r \in registered :
        /\ accounts[r.name] # None
        /\ accounts[r.name].email = r.email
        /\ accounts[r.name].password = r.password
        /\ \A s \in registered : s.name = r.name \/ s.email = r.email => s = r

\* An account is verified only by the link that was made for it, and until then
\* that link can be used: no failure locks an account out.
VerifiedByOwnLink ==
    \A n \in Name : accounts[n] # None =>
        IF accounts[n].verified THEN linkFor[n] \in presented
        ELSE accounts[n].link = linkFor[n]

\* A link for which VerifyEmail finds no account, where it panics on the nil
\* user, has done its work: the account it was made for is verified.  So a
\* second use, even one that began before the first had ended, or one after an
\* answer was lost, is told of an error but never leaves an account locked.
DeadLinksHaveVerified ==
    \A l \in dead : \E n \in Name :
        linkFor[n] = l /\ accounts[n] # None /\ accounts[n].verified

\* A token is of a verified account and was given for its password.
TokensAreEarned ==
    \A c \in logins :
        /\ accounts[c.name] # None
        /\ accounts[c.name].verified
        /\ accounts[c.name].password = c.password

-----------------------------------------------------------------------------
(* The inductive invariant behind these properties.                        *)

\* The account of r.name is the one that r asked for.
Holds(r) ==
    /\ accounts[r.name] # None
    /\ accounts[r.name].email = r.email
    /\ accounts[r.name].password = r.password
    /\ linkFor[r.name] = r.link

EmailsUnique ==
    \A m, n \in Name :
        /\ accounts[m] # None /\ accounts[n] # None
        /\ accounts[m].email = accounts[n].email
        => m = n

\* A verified account has no link.
UsedLinksGo ==
    \A n \in Name :
        accounts[n] # None /\ accounts[n].verified => accounts[n].link = None

\* A link that people have was stored with an account.
LinksWereStored ==
    \A l \in mailed \cup presented : \E n \in Name :
        linkFor[n] = l /\ accounts[n] # None

\* What a call has learnt from its accesses stays true until it uses it.
CallKnows(p) ==
    /\ pc[p] = "sendMail" => Holds(call[p])
    /\ pc[p] \in {"findByLink", "markVerified"} => call[p].link \in presented
    /\ pc[p] = "markVerified" =>
          /\ accounts[call[p].name] # None
          /\ linkFor[call[p].name] = call[p].link
    /\ pc[p] = "sign" => MayLogin(call[p])

AuthInv ==
    /\ TypeOK
    /\ EmailsUnique /\ VerifiedByOwnLink
    /\ \A p \in Proc : CallKnows(p)
    /\ \A r \in registered : Holds(r)
    /\ UsedLinksGo /\ LinksWereStored /\ DeadLinksHaveVerified
    /\ TokensAreEarned
=============================================================================
