---------------------------- MODULE SessionPages ----------------------------
(***************************************************************************)
(* Whose session a browser has and whom its pages show: AuthContext.tsx,   *)
(* which every page is wrapped in, ProtectedRoute.tsx behind it, and the   *)
(* login of Admin.tsx, with the views they ask (voter_profile, voter_      *)
(* logout, admin_login, check_admin_auth, admin_logout and the end of      *)
(* verify_voter_otp).                                                      *)
(*                                                                         *)
(* The tabs of a browser share its session cookie, and each asks by itself *)
(* whose session it is.  A request is sent, answered and, later, told to   *)
(* the page; meanwhile another tab may log in or out.  Which OTPs are      *)
(* accepted, and who has a profile, is module VoterAccess: here a login    *)
(* may succeed or fail at any time, and so may a profile.                  *)
(***************************************************************************)
EXTENDS Integers, FiniteSets

CONSTANTS
  Emails,          \* the users who are voters
  Admin,           \* the user that is staff, and no voter
  Tabs, Browsers,
  NoOne

SessionConstants == Admin \notin Emails /\ NoOne \notin Emails \cup {Admin}

VARIABLES
  browser,   \* the browser each tab is in
  session,   \* the user of each browser's session on the server
  tab,       \* what each tab waits for
  user,      \* AuthContext's user of each tab: the voter it shows
  auth,      \* the checkAuth of each tab
  admin,     \* the tabs that show the admin's dashboard
  had        \* history: the users the browser's session has had since each
             \* tab's page was loaded

vars == <<browser, session, tab, user, auth, admin, had>>

Users == Emails \cup {Admin}

Idle == [pc |-> "idle", who |-> NoOne, sent |-> NoOne]
Settled == [pc |-> "settled", voter |-> NoOne]

Init ==
  /\ browser \in [Tabs -> Browsers]
  /\ session = [b \in Browsers |-> NoOne] /\ had = [t \in Tabs |-> {}]
  /\ tab = [t \in Tabs |-> Idle]
  /\ user = [t \in Tabs |-> NoOne] /\ auth = [t \in Tabs |-> Settled] /\ admin = {}

At(t, pc) == tab[t].pc = pc
GoTo(t, pc) == tab' = [tab EXCEPT ![t].pc = pc]
ToPage(t) == tab' = [tab EXCEPT ![t] = Idle]

Session(t) == session[browser[t]]
SetSession(t, u) ==
  /\ session' = [session EXCEPT ![browser[t]] = u]
  /\ had' = [s \in Tabs |-> IF browser[s] = browser[t] THEN had[s] \cup ({u} \ {NoOne})
                                                      ELSE had[s]]

(* A form that is gone to, whoever is shown and while checkAuth has no     *)
(* answer yet: /login and /admin are routes like any other.                *)
Form(t) == At(t, "idle") /\ t \notin admin

-----------------------------------------------------------------------------
(* Logging in                                                              *)

(* The OTP, or the admin's password, goes with the cookie of the moment.   *)
Submit(t, u) ==
  /\ Form(t)
  /\ tab' = [tab EXCEPT ![t] = [pc |-> "submitted", who |-> u, sent |-> Session(t)]]
  /\ UNCHANGED <<browser, session, user, auth, admin, had>>

(* login() replaces the session that the request came with, whoever's it   *)
(* was, by a new one.  A voter's page goes on to ask for the profile, the  *)
(* admin's is told.  If the answer is lost so is the new session's key,    *)
(* and the old one opens nothing any more.                                 *)
LogIn(t) ==
  LET u == tab[t].who
  IN  /\ At(t, "submitted")
      /\ \/ /\ SetSession(t, u)
            /\ tab' = [tab EXCEPT ![t] = [Idle EXCEPT !.pc = IF u = Admin THEN "admin"
                                                                        ELSE "profile"]]
         \/ /\ IF Session(t) = tab[t].sent THEN SetSession(t, NoOne)
                                           ELSE UNCHANGED <<session, had>>
            /\ ToPage(t)
      /\ UNCHANGED <<browser, user, auth, admin>>

(* Refused, or never answered.                                             *)
NoLogin(t) ==
  /\ At(t, "submitted")
  /\ ToPage(t)
  /\ UNCHANGED <<browser, session, user, auth, admin, had>>

-----------------------------------------------------------------------------
(* AuthContext: the voter that a page shows                                *)

(* voter_profile: the voter of the session that the browser has by now, or *)
(* nobody: there is none, or the request is lost.                          *)
Profiles(t) == {NoOne} \cup ({Session(t)} \ {Admin})

(* verifyOtp asks for the profile once the OTP was accepted ...            *)
Profile(t) ==
  /\ At(t, "profile")
  /\ \E u \in Profiles(t) : tab' = [tab EXCEPT ![t] = [Idle EXCEPT !.pc = "told", !.who = u]]
  /\ UNCHANGED <<browser, session, user, auth, admin, had>>

(* ... and shows it when it comes.  Without one it says "Invalid or        *)
(* expired OTP", and shows whom it showed before.                          *)
ShowProfile(t) ==
  /\ At(t, "told")
  /\ ToPage(t)
  /\ user' = IF tab[t].who = NoOne THEN user ELSE [user EXCEPT ![t] = tab[t].who]
  /\ UNCHANGED <<browser, session, auth, admin, had>>

(* Mutant: whom the page shows is kept over a reload.                      *)
ReloadKeepsUser(t) ==
  /\ ~At(t, "submitted")
  /\ ToPage(t)
  /\ admin' = admin \ {t}
  /\ auth' = [auth EXCEPT ![t] = [pc |-> "asking", voter |-> NoOne]]
  /\ had' = [had EXCEPT ![t] = {Session(t)} \ {NoOne}]
  /\ UNCHANGED <<browser, session, user>>

(* All that the page knew is gone, with the answers it waited for, and     *)
(* checkAuth asks for the profile.  A tab that has a login under way is    *)
(* not reloaded, as the server goes on: another tab stands for the page.   *)
Reload(t) ==
  /\ ~At(t, "submitted")
  /\ ToPage(t)
  /\ user' = [user EXCEPT ![t] = NoOne] /\ admin' = admin \ {t}
  /\ auth' = [auth EXCEPT ![t] = [pc |-> "asking", voter |-> NoOne]]
  /\ had' = [had EXCEPT ![t] = {Session(t)} \ {NoOne}]
  /\ UNCHANGED <<browser, session>>

CheckAuth(t) ==
  /\ auth[t].pc = "asking"
  /\ \E u \in Profiles(t) : auth' = [auth EXCEPT ![t] = [pc |-> "told", voter |-> u]]
  /\ UNCHANGED <<browser, session, tab, user, admin, had>>

(* The answer is taken for the present user, also if it is nobody and a    *)
(* login has ended in between.                                             *)
ShowAuth(t) ==
  /\ auth[t].pc = "told"
  /\ user' = [user EXCEPT ![t] = auth[t].voter]
  /\ auth' = [auth EXCEPT ![t] = Settled]
  /\ UNCHANGED <<browser, session, tab, admin, had>>

(* The page forgets the user when the answer comes, even if the request    *)
(* was lost or refused; until then it shows him.                           *)
Logout(t) ==
  /\ user[t] # NoOne
  /\ SetSession(t, NoOne) \/ UNCHANGED <<session, had>>
  /\ user' \in {user, [user EXCEPT ![t] = NoOne]}
  /\ UNCHANGED <<browser, tab, auth, admin>>

-----------------------------------------------------------------------------
(* Admin.tsx                                                               *)

check_admin_auth(t) == Session(t) = Admin

(* checkAuthStatus, when the page is mounted: until the answer comes there *)
(* is no form.  Without an answer it is the login form.                    *)
OpenAdmin(t) ==
  /\ Form(t)
  /\ GoTo(t, "checking")
  /\ UNCHANGED <<browser, session, user, auth, admin, had>>

CheckAdmin(t) ==
  /\ At(t, "checking")
  /\ \/ check_admin_auth(t) /\ GoTo(t, "admin")
     \/ ToPage(t)
  /\ UNCHANGED <<browser, session, user, auth, admin, had>>

(* The page is told, by either, that it is the admin's.                    *)
ShowAdmin(t) ==
  /\ At(t, "admin")
  /\ admin' = admin \cup {t}
  /\ ToPage(t)
  /\ UNCHANGED <<browser, session, user, auth, had>>

(* CsrfViewMiddleware refuses the request, which comes without the token,  *)
(* and the page does not look at the answer.  So it is no more than        *)
(* leaving the page: the session stays.                                    *)
AdminLogout(t) ==
  /\ t \in admin
  /\ admin' = admin \ {t}
  /\ UNCHANGED <<browser, session, tab, user, auth, had>>

-----------------------------------------------------------------------------
TabStep(t) ==
  \/ \E u \in Users : Submit(t, u)
  \/ LogIn(t) \/ NoLogin(t)
  \/ Profile(t) \/ ShowProfile(t) \/ Reload(t) \/ CheckAuth(t) \/ ShowAuth(t) \/ Logout(t)
  \/ OpenAdmin(t) \/ CheckAdmin(t) \/ ShowAdmin(t) \/ AdminLogout(t)

Next == \E t \in Tabs : TabStep(t)

Spec == Init /\ [][Next]_vars

-----------------------------------------------------------------------------
(* Sessions have users, pages show voters, and answers name them.          *)
TypeOK ==
  /\ browser \in [Tabs -> Browsers]
  /\ session \in [Browsers -> Users \cup {NoOne}]
  /\ tab \in [Tabs -> [pc : {"idle", "submitted", "profile", "told", "checking", "admin"},
                       who : Users \cup {NoOne}, sent : Users \cup {NoOne}]]
  /\ user \in [Tabs -> Emails \cup {NoOne}] /\ admin \subseteq Tabs
  /\ auth \in [Tabs -> [pc : {"settled", "asking", "told"}, voter : Emails \cup {NoOne}]]
  /\ had \in [Tabs -> SUBSET Users]

(* Whom a page shows, be it a voter or the admin, has had the session of   *)
(* its browser since the page was loaded, whatever other tabs do between   *)
(* an answer and its arrival: nobody is left over from before a reload.    *)
ShownSinceLoaded ==
  \A t \in Tabs : /\ user[t] # NoOne => user[t] \in had[t]
                  /\ t \in admin => Admin \in had[t]

(* Two stronger ones do not hold.  The session may be another's by the     *)
(* time a page comes to show somebody, and a page goes on to show a voter  *)
(* whose session is gone.                                                  *)
ShownIsServed ==
  [][\A t \in Tabs :
       /\ user'[t] \notin {user[t], NoOne} => user'[t] = Session(t)'
       /\ t \in admin' \ admin => Session(t)' = Admin]_vars

ShownStaysServed == \A t \in Tabs : user[t] # NoOne => user[t] = Session(t)

(* "Logged out successfully" (admin_logout): does not hold.                *)
LogoutEndsSession == [][\A t \in Tabs : AdminLogout(t) => Session(t)' # Admin]_vars
=============================================================================
