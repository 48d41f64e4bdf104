----------------------------- MODULE VoterAccess -----------------------------
(***************************************************************************)
(* How a student becomes a voter and is let in: Backend/student,           *)
(* Backend/voter (registration, verification, login by password and OTP),  *)
(* and the pages in front of them (VoterRegistration.tsx, Login.tsx).      *)
(* Whose session a browser then has and whom its pages show is module      *)
(* SessionPages.                                                           *)
(*                                                                         *)
(* A tab is a page together with the request it waits for.  As in          *)
(* DjangoElection, requests run concurrently at READ COMMITTED and are cut *)
(* where another one's commit can fall between two statements; a request   *)
(* that is refused without writing anything is not a step.  Registration   *)
(* is one transaction, login is not: each of its statements commits by     *)
(* itself.                                                                 *)
(*                                                                         *)
(* Passwords are right, and two OTPs are two different codes.  Time runs   *)
(* in units of OTPLife, the five minutes; a day has Day of them.           *)
(***************************************************************************)
EXTENDS Integers, Sequences, FiniteSets, FiniteSetsExt

CONSTANTS
  Rolls, Emails,  \* students; Student.email is not unique
  Tabs,
  Day,            \* timedelta.seconds wraps here
  MaxTime, MaxOTPs,  \* bounds: the clock, the OTPs made
  NoOne

OTPLife == 1

ASSUME AccessConstants ==
  /\ IsFiniteSet(Tabs) /\ NoOne \notin Rolls \cup Emails
  /\ Day \in Nat /\ Day > OTPLife
  /\ MaxTime \in Nat /\ MaxOTPs \in Nat

VARIABLES
  students,  \* Student table: roll -> email
  users,     \* User table: the usernames, which are emails
  voters,    \* Voter table: roll -> its user and is_verified
  otps,      \* VoterOTP table, in the order of created_at
  mailed,    \* the OTPs that have reached a mailbox
  tab,       \* what each tab does
  now,
  opened     \* history: the sessions each OTP has opened

registry == <<students, users, voters>>
vars == <<registry, otps, mailed, tab, now, opened>>

OpenTab == [pc |-> "form", who |-> NoOne, email |-> NoOne, otp |-> 0]
Without(f, x) == [y \in DOMAIN f \ {x} |-> f[y]]
With(f, x, val) == [y \in DOMAIN f \cup {x} |-> IF y = x THEN val ELSE f[y]]

Init ==
  /\ students = [r \in {} |-> NoOne]
  /\ users = {}
  /\ voters = [r \in {} |-> [user |-> NoOne, verified |-> FALSE]]
  /\ otps = << >> /\ mailed = {} /\ opened = << >>
  /\ tab = [t \in Tabs |-> OpenTab]
  /\ now = 0

At(t, pc) == tab[t].pc = pc
GoTo(t, pc) == tab' = [tab EXCEPT ![t].pc = pc]

(* The forms of the pages.  One is filled in again after an error, after a *)
(* reload, and in VoterRegister also after a success, which goes on to     *)
(* /login.                                                                 *)
Form(t) == At(t, "form")
OTPForm(t) == At(t, "otp")
ToForm(t) == tab' = [tab EXCEPT ![t] = OpenTab]
ToOTPForm(t) == tab' = [tab EXCEPT ![t] = [OpenTab EXCEPT !.pc = "otp", !.email = tab[t].email]]

-----------------------------------------------------------------------------
(* The student list: the REST views of Backend/student.                    *)

(* Create and update.                                                      *)
StudentSave(r, e) ==
  /\ students' = With(students, r, e)
  /\ UNCHANGED <<users, voters, otps, mailed, tab, now, opened>>

(* The voter goes with the student (CASCADE), the user does not.           *)
StudentDelete(r) ==
  /\ r \in DOMAIN students
  /\ students' = Without(students, r)
  /\ voters' = Without(voters, r)
  /\ UNCHANGED <<users, otps, mailed, tab, now, opened>>

-----------------------------------------------------------------------------
(* voter_register, verify_email and dev_verify_voter                       *)

RegisterCheck(t, r) ==
  /\ Form(t)
  /\ r \in DOMAIN students /\ r \notin DOMAIN voters
  /\ students[r] \notin users
  /\ tab' = [tab EXCEPT ![t] = [OpenTab EXCEPT !.pc = "registering", !.who = r,
                                               !.email = students[r]]]
  /\ UNCHANGED <<registry, otps, mailed, now, opened>>

(* Mutant: no unique username, no OneToOneField.                           *)
RegisterAnyway(t) ==
  LET e == tab[t].email
  IN  /\ At(t, "registering")
      /\ users' = users \cup {e}
      /\ voters' = With(voters, tab[t].who, [user |-> e, verified |-> FALSE])
      /\ ToForm(t)
      /\ UNCHANGED <<students, otps, mailed, now, opened>>

(* User, Voter and the mail, in one transaction.  The unique columns       *)
(* refuse the INSERTs, the foreign key to a student deleted meanwhile the  *)
(* commit - after the mail has gone, whose link then leads nowhere.  The   *)
(* link comes with the answer when the mail fails.                         *)
RegisterCommit(t) ==
  LET r == tab[t].who
      e == tab[t].email
      accepted == e \notin users /\ r \notin DOMAIN voters /\ r \in DOMAIN students
  IN  /\ At(t, "registering")
      /\ IF accepted
           THEN /\ users' = users \cup {e}
                /\ voters' = With(voters, r, [user |-> e, verified |-> FALSE])
           ELSE UNCHANGED <<users, voters>>
      /\ ToForm(t)
      /\ UNCHANGED <<students, otps, mailed, now, opened>>

VerifyEmail(r) ==
  /\ r \in DOMAIN voters /\ ~voters[r].verified
  /\ voters' = [voters EXCEPT ![r].verified = TRUE]
  /\ UNCHANGED <<students, users, otps, mailed, tab, now, opened>>

-----------------------------------------------------------------------------
(* voter_login                                                             *)

VerifiedVoter(e) == \E r \in DOMAIN voters : voters[r].user = e /\ voters[r].verified

OTPsInTheMaking == {t \in Tabs : tab[t].pc \in {"checked", "cleared"}}

LoginCheck(t, e) ==
  /\ Form(t)
  /\ e \in users /\ VerifiedVoter(e)
  /\ Len(otps) + Cardinality(OTPsInTheMaking) < MaxOTPs
  /\ tab' = [tab EXCEPT ![t] = [OpenTab EXCEPT !.pc = "checked", !.email = e]]
  /\ UNCHANGED <<registry, otps, mailed, now, opened>>

(* Mutant: older OTPs stay as they are.                                    *)
LoginKeepsOld(t) ==
  /\ At(t, "checked")
  /\ GoTo(t, "cleared")
  /\ UNCHANGED <<registry, otps, mailed, now, opened>>

(* UPDATE ... SET is_used = true, of the rows committed by now.            *)
LoginInvalidate(t) ==
  /\ At(t, "checked")
  /\ otps' = [i \in DOMAIN otps |->
                IF otps[i].user = tab[t].email THEN [otps[i] EXCEPT !.used = TRUE]
                                               ELSE otps[i]]
  /\ GoTo(t, "cleared")
  /\ UNCHANGED <<registry, mailed, now, opened>>

(* Mutant: created_at is ahead of the clock it is compared with.           *)
LoginCreateAhead(t) ==
  /\ At(t, "cleared")
  /\ otps' = Append(otps, [user |-> tab[t].email, created |-> now + 1, used |-> FALSE])
  /\ opened' = Append(opened, 0)
  /\ tab' = [tab EXCEPT ![t].pc = "mailing", ![t].otp = Len(otps) + 1]
  /\ UNCHANGED <<registry, mailed, now>>

LoginCreate(t) ==
  /\ At(t, "cleared")
  /\ otps' = Append(otps, [user |-> tab[t].email, created |-> now, used |-> FALSE])
  /\ opened' = Append(opened, 0)
  /\ tab' = [tab EXCEPT ![t].pc = "mailing", ![t].otp = Len(otps) + 1]
  /\ UNCHANGED <<registry, mailed, now>>

(* The mail goes or fails (500, and the new OTP stays), and the answer     *)
(* arrives or is lost.                                                     *)
LoginMail(t) ==
  /\ At(t, "mailing")
  /\ mailed' \in {mailed, mailed \cup {tab[t].otp}}
  /\ \/ mailed' # mailed /\ ToOTPForm(t)
     \/ ToForm(t)
  /\ UNCHANGED <<registry, otps, now, opened>>

-----------------------------------------------------------------------------
(* verify_voter_otp                                                        *)

Unused(e) == {i \in DOMAIN otps : otps[i].user = e /\ ~otps[i].used}

(* Mutant: the age is not looked at.                                       *)
never_expired(i) == FALSE

(* .seconds is the remainder of the difference in seconds by a day.        *)
is_expired(i) == (now - otps[i].created) % Day > OTPLife

(* The newest unused OTP is read, and compared with the code typed in,     *)
(* that of i.  A code that does not match writes nothing.                  *)
OTPCheck(t, i) ==
  LET e == tab[t].email
      latest == Max(Unused(e))
  IN  /\ OTPForm(t) /\ Unused(e) # {}
      /\ is_expired(latest) \/ i = latest
      /\ tab' = [tab EXCEPT ![t].pc = IF is_expired(latest) THEN "expiring" ELSE "accepted",
                            ![t].otp = latest]
      /\ UNCHANGED <<registry, otps, mailed, now, opened>>

OTPExpire(t) ==
  /\ At(t, "expiring")
  /\ otps' = [otps EXCEPT ![tab[t].otp].used = TRUE]
  /\ ToOTPForm(t)
  /\ UNCHANGED <<registry, mailed, now, opened>>

(* Mutant: the OTP is not marked.                                          *)
OTPKeep(t) ==
  /\ At(t, "accepted")
  /\ GoTo(t, "marked")
  /\ UNCHANGED <<registry, otps, mailed, now, opened>>

OTPMark(t) ==
  /\ At(t, "accepted")
  /\ otps' = [otps EXCEPT ![tab[t].otp].used = TRUE]
  /\ GoTo(t, "marked")
  /\ UNCHANGED <<registry, mailed, now, opened>>

(* login() (SessionPages!LogIn).  If the answer is lost the page says      *)
(* "Invalid or expired OTP", or has been reloaded meanwhile.               *)
OTPLogIn(t) ==
  /\ At(t, "marked")
  /\ opened' = [opened EXCEPT ![tab[t].otp] = @ + 1]
  /\ ToForm(t) \/ ToOTPForm(t)
  /\ UNCHANGED <<registry, otps, mailed, now>>

(* A page is left or reloaded.                                             *)
Reload(t) ==
  /\ OTPForm(t)
  /\ ToForm(t)
  /\ UNCHANGED <<registry, otps, mailed, now, opened>>

Tick ==
  /\ now < MaxTime
  /\ now' = now + 1
  /\ UNCHANGED <<registry, otps, mailed, tab, opened>>

-----------------------------------------------------------------------------
StudentStep(r) ==
  \/ \E e \in Emails : StudentSave(r, e)
  \/ StudentDelete(r) \/ VerifyEmail(r)

TabStep(t) ==
  \/ \E r \in Rolls : RegisterCheck(t, r)
  \/ \E e \in Emails : LoginCheck(t, e)
  \/ RegisterCommit(t) \/ LoginInvalidate(t) \/ LoginCreate(t) \/ LoginMail(t)
  \/ \E i \in mailed : OTPCheck(t, i)
  \/ OTPExpire(t) \/ OTPMark(t) \/ OTPLogIn(t) \/ Reload(t)

Next ==
  \/ \E r \in Rolls : StudentStep(r)
  \/ \E t \in Tabs : TabStep(t)
  \/ Tick

Spec == Init /\ [][Next]_vars

-----------------------------------------------------------------------------
(* The tables are well typed and so is what every tab waits for.           *)
TypeOK ==
  /\ DOMAIN students \subseteq Rolls /\ students \in [DOMAIN students -> Emails]
  /\ users \subseteq Emails
  /\ voters \in [DOMAIN voters -> [user : Emails, verified : BOOLEAN]]
  /\ otps \in Seq([user : users, created : 0..now, used : BOOLEAN])
  /\ mailed \subseteq DOMAIN otps
  /\ tab \in [Tabs -> [pc : {"form", "registering", "checked", "cleared", "mailing",
                             "otp", "expiring", "accepted", "marked"},
                       who : Rolls \cup {NoOne}, email : Emails \cup {NoOne},
                       otp : 0..Len(otps)]]
  /\ now \in 0..MaxTime
  /\ opened \in Seq(Nat) /\ Len(opened) = Len(otps)

(* One student, one voter, one user: however registrations of the same     *)
(* student, or of two students with one email, interleave with each other  *)
(* and with deletions from the student list.                               *)
OneAccountEach ==
  /\ DOMAIN voters \subseteq DOMAIN students
  /\ \A r \in DOMAIN voters : voters[r].user \in users
  /\ \A r, s \in DOMAIN voters : voters[r].user = voters[s].user => r = s

(* A login makes older OTPs useless.  Two logins at a time may leave two   *)
(* OTPs, but never more than there are logins at a time: the statements    *)
(* of voter_login are not a transaction, and still OTPs do not pile up.    *)
FewUnused == \A e \in Emails : Cardinality(Unused(e)) <= Cardinality(Tabs)

(* An OTP that has opened a session opens another one only for a request   *)
(* that had read it before: no request that comes later is let in.         *)
NoReuse ==
  [][\A t \in Tabs : At(t, "otp") /\ tab'[t].pc = "accepted"
       => opened[tab'[t].otp] = 0]_vars

(* "It expires in 5 minutes." (voter_login).  It does, until the day is    *)
(* over: is_expired has forgotten the days.                                *)
Accepted(t) == At(t, "otp") /\ tab'[t].pc = "accepted"
Age(i) == now - otps[i].created

ExpiresForTheDay ==
  [][\A t \in Tabs : Accepted(t) =>
       \/ Age(tab'[t].otp) <= OTPLife
       \/ Age(tab'[t].otp) >= Day]_vars

(* As the mail says it, without the exception: does not hold.              *)
ExpiresInFiveMinutes ==
  [][\A t \in Tabs : Accepted(t) => Age(tab'[t].otp) <= OTPLife]_vars
=============================================================================
