------------------------------- MODULE Emails -------------------------------
(***************************************************************************)
(* The e-mail of an address (routes/email.ts, lib/emails.ts): connected    *)
(* with a token that is mailed and expires, validated by following the     *)
(* link in the mail, and removed, which makes a new pair of tokens as the  *)
(* requests of Logins do.                                                  *)
(***************************************************************************)
EXTENDS Logins

CONSTANTS EmailAddresses,
          Mailers,     \* the requests that connect, resend and verify, one each
          NoEmail, NoAddress, NoMail

ASSUME EmailsAssumption ==
    NoEmail \notin EmailAddresses /\ NoAddress \notin Addresses /\ NoMail \notin Mailers

VARIABLES emails,  \* the Email rows; one without a row is like one with an empty row
          mailed,  \* the mails that arrived: the token, the e-mail, who asked for it
          mailer   \* the requests
VARIABLES followed,  \* history: e-mails whose link was followed, for which address
          overtaken, \* history: rows written by who had read something else
          swapped    \* history: rows whose address was connected to another e-mail

emailHistory == <<followed, overtaken, swapped>>
emailVars == <<emails, mailed, mailer, emailHistory>>
allVars == <<loginVars, emailVars>>

\* activeToken is named by the request that made it.
Email == [address : Addresses \cup {NoAddress}, activeToken : Mailers \cup {NoMail},
          tokenExpiresAt : {"null", "ahead", "past"}, isValidated : BOOLEAN]
Empty == [address |-> NoAddress, activeToken |-> NoMail, tokenExpiresAt |-> "null",
          isValidated |-> FALSE]
Mailer == [at : {"idle", "upsert", "update", "mail", "clear", "validate", "done"},
           address : Addresses \cup {NoAddress}, email : EmailAddresses \cup {NoEmail},
           seen : Email]
Waiting == [at |-> "idle", address |-> NoAddress, email |-> NoEmail, seen |-> Empty]

EmailTypes ==
    /\ emails \in [EmailAddresses -> Email]
    /\ mailed \subseteq [activeToken : Mailers, to : EmailAddresses, from : Addresses]
    /\ mailer \in [Mailers -> Mailer]
    /\ followed \subseteq EmailAddresses \X Addresses
    /\ overtaken \subseteq EmailAddresses
    /\ swapped \subseteq EmailAddresses

EmailTypeOK == TypeOK /\ EmailTypes

EmailInit ==
    /\ Init
    /\ emails = [e \in EmailAddresses |-> Empty]
    /\ mailed = {}
    /\ mailer = [m \in Mailers |-> Waiting]
    /\ followed = {} /\ overtaken = {} /\ swapped = {}

-----------------------------------------------------------------------------
Of(a) == {e \in EmailAddresses : emails[e].address = a}
LoggedIn(a) == \E l \in Lineages : Owner[l] = a /\ authTokens[l].row = "live"

Ask(m, step, a, e) == mailer' = [mailer EXCEPT ![m] =
    [at |-> step, address |-> a, email |-> e,
     seen |-> IF e = NoEmail THEN Empty ELSE emails[e]]]
Done(m) == mailer' = [mailer EXCEPT ![m] = [Waiting EXCEPT !.at = "done"]]

\* Whoever writes a row that is not as it was read.
Overtake(m, e) ==
    overtaken' = IF emails[e] = mailer[m].seen THEN overtaken ELSE overtaken \cup {e}

IsTaken(e) == emails[e].isValidated \/ emails[e].tokenExpiresAt = "ahead"

\* POST /email: the row is read.
Post(m, a, e) ==
    /\ mailer[m].at = "idle" /\ LoggedIn(a)
    /\ IF IsTaken(e) THEN Done(m) ELSE Ask(m, "upsert", a, e)
    /\ UNCHANGED <<loginVars, emails, mailed, emailHistory>>

Released(f) == [emails[f] EXCEPT !.address = NoAddress]

\* upsertUnverifiedEmail. An address has one e-mail (addressId is unique): another one
\* it is connected to loses it, or else both attempts fail.
UpsertUnverifiedEmail(m) ==
    /\ mailer[m].at = "upsert"
    /\ LET a == mailer[m].address  e == mailer[m].email  others == Of(a) \ {e} IN
       \/ /\ emails' = [f \in EmailAddresses |->
                IF f = e THEN [emails[e] EXCEPT !.address = a, !.activeToken = m,
                                                !.tokenExpiresAt = "ahead"]
                ELSE IF f \in others THEN Released(f)
                ELSE emails[f]]
          /\ Overtake(m, e)
          /\ swapped' = swapped \cup others
          /\ mailer' = [mailer EXCEPT ![m].at = "mail"]
       \/ others # {} /\ Done(m) /\ UNCHANGED <<emails, overtaken, swapped>>
    /\ UNCHANGED <<loginVars, mailed, followed>>

\* sendVerificationEmail, which may fail.
Mail(m) ==
    /\ mailer[m].at = "mail"
    /\ \/ mailed' = mailed \cup {[activeToken |-> m, to |-> mailer[m].email,
                                  from |-> mailer[m].address]}
       \/ UNCHANGED mailed
    /\ Done(m)
    /\ UNCHANGED <<loginVars, emails, emailHistory>>

\* POST /email/resend: the address's e-mail is read ...
Resend(m, a) ==
    /\ mailer[m].at = "idle" /\ LoggedIn(a)
    /\ IF \E e \in Of(a) : ~emails[e].isValidated
       THEN \E e \in Of(a) : Ask(m, "update", a, e)
       ELSE Done(m)
    /\ UNCHANGED <<loginVars, emails, mailed, emailHistory>>

\* ... and the e-mail that is the address's by now gets the new token, which goes to
\* the one that was read.
UpdateToken(m) ==
    /\ mailer[m].at = "update"
    /\ \/ \E e \in Of(mailer[m].address) :
             /\ emails' = [emails EXCEPT ![e] = [@ EXCEPT !.activeToken = m,
                                                          !.tokenExpiresAt = "ahead"]]
             /\ overtaken' = IF e = mailer[m].email THEN overtaken ELSE overtaken \cup {e}
             /\ mailer' = [mailer EXCEPT ![m].at = "mail"]
       \/ Of(mailer[m].address) = {} /\ Done(m) /\ UNCHANGED <<emails, overtaken>>
    /\ UNCHANGED <<loginVars, mailed, followed, swapped>>

-----------------------------------------------------------------------------
\* Mutant: the row is found by the e-mail.
FoundByAddress(t) == {t.to}

Found(t) == {e \in EmailAddresses : emails[e].activeToken = t.activeToken}

\* POST /email/verify/:activeToken, from a mail: the row is found by the token.
Verify(m, t) ==
    /\ mailer[m].at = "idle"
    /\ \/ Found(t) = {} /\ Done(m)
       \/ \E e \in Found(t) :
             CASE emails[e].tokenExpiresAt = "null" -> Ask(m, "clear", NoAddress, e)
               [] emails[e].tokenExpiresAt # "null" /\ emails[e].isValidated -> Done(m)
               [] emails[e].tokenExpiresAt = "past" /\ ~emails[e].isValidated ->
                      Ask(m, "clear", NoAddress, e)
               [] OTHER -> Ask(m, "validate", NoAddress, e)
    /\ followed' = followed \cup {<<t.to, t.from>>}
    /\ UNCHANGED <<loginVars, emails, mailed, overtaken, swapped>>

\* The row of a link that has expired is emptied, by its id; or, "just in case", that
\* of one which does not expire.
Clear(m) ==
    /\ mailer[m].at = "clear"
    /\ LET e == mailer[m].email IN
       /\ emails' = [emails EXCEPT ![e] = [Empty EXCEPT !.isValidated = emails[e].isValidated]]
       /\ Overtake(m, e)
    /\ Done(m)
    /\ UNCHANGED <<loginVars, mailed, followed, swapped>>

Validate(m) ==
    /\ mailer[m].at = "validate"
    /\ LET e == mailer[m].email IN
       /\ emails' = [emails EXCEPT ![e].isValidated = TRUE]
       /\ Overtake(m, e)
    /\ Done(m)
    /\ UNCHANGED <<loginVars, mailed, followed, swapped>>

-----------------------------------------------------------------------------
(* DELETE /email                                                           *)

\* Mutant: isValidated stays.
Disconnected(e) == [Empty EXCEPT !.isValidated = emails[e].isValidated]

Removed(e) == Empty

\* Without an e-mail it is 404; else the row is emptied, and a new pair is made.
RemoveEmail(h, l) ==
    /\ "remove email" \in Calls
    /\ hand[h].at = "idle" /\ \E s \in sent : s.login = l
    /\ authTokens[l].row = "live"
    /\ LET a == Owner[l] IN
       /\ emails' = [e \in EmailAddresses |-> IF e \in Of(a) THEN Removed(e) ELSE emails[e]]
       /\ hand' = [hand EXCEPT ![h] = [Idle EXCEPT
             !.at = IF Of(a) = {} THEN "done" ELSE "bump",
             !.call = "remove email", !.login = l]]
    /\ Enter(l)
    /\ UNCHANGED <<db, sent, named, cut, replayed, held, mailed, mailer, emailHistory>>

\* A day has passed.
ExpireMail(e) ==
    /\ emails[e].tokenExpiresAt = "ahead"
    /\ emails' = [emails EXCEPT ![e].tokenExpiresAt = "past"]
    /\ UNCHANGED <<loginVars, mailed, mailer, emailHistory>>

CrashMailer(m) ==
    /\ mailer[m].at \notin {"idle", "done"}
    /\ Done(m)
    /\ UNCHANGED <<loginVars, emails, mailed, emailHistory>>

MailerStep(m) ==
    \/ \E a \in Addresses : \/ Resend(m, a)
                            \/ \E e \in EmailAddresses : Post(m, a, e)
    \/ \E t \in mailed : Verify(m, t)
    \/ UpsertUnverifiedEmail(m) \/ Mail(m) \/ UpdateToken(m) \/ Clear(m) \/ Validate(m)
    \/ CrashMailer(m)

EmailNext ==
    \/ Next /\ UNCHANGED emailVars
    \/ \E m \in Mailers : MailerStep(m)
    \/ \E h \in Handlers, l \in Lineages : RemoveEmail(h, l)
    \/ \E e \in EmailAddresses : ExpireMail(e)

EmailSpec == EmailInit /\ [][EmailNext]_allVars

-----------------------------------------------------------------------------
\* An address has a validated e-mail only after the link in a mail to that e-mail, which
\* this address had asked for, was followed, unless a request wrote over a row that
\* had changed since it read it.
ValidatedWereFollowed ==
    \A e \in EmailAddresses :
        emails[e].isValidated /\ emails[e].address # NoAddress =>
            <<e, emails[e].address>> \in followed \/ e \in overtaken

\* A validated e-mail belongs to an address: nobody could connect it again otherwise,
\* nor remove it. Connecting the address to another e-mail does that, or a
\* verification that a removal overtook.
ValidatedHaveAddresses ==
    \A e \in EmailAddresses :
        emails[e].isValidated /\ emails[e].address = NoAddress => e \in overtaken \cup swapped

-----------------------------------------------------------------------------
(* The inductive invariant behind both.                                    *)

\* A token in a row was written there by the request it names, together with its time,
\* and went to that e-mail for the row's address, unless that address has gone since.
TokenFits(e) ==
    LET row == emails[e]  k == emails[e].activeToken IN
    k # NoMail =>
        /\ mailer[k].at \in {"mail", "done"} /\ row.tokenExpiresAt # "null"
        /\ row.address = NoAddress => e \in overtaken \cup swapped
        /\ e \notin overtaken =>
              /\ mailer[k].at = "mail" =>
                    mailer[k].email = e /\ row.address \in {mailer[k].address, NoAddress}
              /\ \A t \in mailed : t.activeToken = k =>
                    t.to = e /\ row.address \in {t.from, NoAddress}

\* What a request that is about to write has read.
MailerTrue(m) ==
    LET q == mailer[m]  row == mailer[m].seen IN
    /\ q.at \in {"upsert", "update", "mail"} => q.address \in Addresses
    /\ q.at \notin {"idle", "done"} => q.email \in EmailAddresses
    /\ q.at \in {"upsert", "clear"} => ~row.isValidated
    /\ q.at = "validate" =>
          /\ row.address = NoAddress => q.email \in overtaken \cup swapped
          /\ row.address # NoAddress => <<q.email, row.address>> \in followed \/ q.email \in overtaken

EmailInv ==
    /\ EmailTypes
    /\ \A e \in EmailAddresses : TokenFits(e)
    /\ \A m \in Mailers : MailerTrue(m)
    /\ \A t \in mailed : mailer[t.activeToken].at = "done"
    /\ ValidatedWereFollowed
    /\ ValidatedHaveAddresses
=============================================================================
