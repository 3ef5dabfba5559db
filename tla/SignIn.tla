------------------------------- MODULE SignIn -------------------------------
(***************************************************************************)
(* Signing in to the control center.  The tabs of one browser share what   *)
(* auth.js keeps in localStorage; the orchestrator keeps a row per session *)
(* (server.ts, routes/auth.ts, the auth_sessions table).                   *)
(***************************************************************************)
EXTENDS Naturals, FiniteSets

CONSTANTS
    Tabs,       \* tabs of the browser
    Logins,     \* sessions; bound on how often somebody signs in
    NoLogin,
    Troubles,   \* offline: a request fails; stale: a session changes while a tab has its token checked
    MaxTroubles

SignInAssumption ==
    /\ NoLogin \notin Logins /\ IsFiniteSet(Logins)
    /\ Troubles \subseteq {"offline", "stale"} /\ MaxTroubles \in Nat

VARIABLES
    row,        \* row[s]: the session in the table
    stored,     \* what localStorage holds, and whether it has run out there
    tab,        \* the page of each tab, and the token it has sent
    troubles

signInVars == <<row, stored, tab, troubles>>

Pages == {"login", "form", "submitting", "loading", "checking", "refused", "console", "leaving"}

SignInTypeOK ==
    /\ row \in [Logins -> {"absent", "live", "expired", "gone"}]
    /\ stored \in [session : Logins \cup {NoLogin}, fresh : BOOLEAN]
    /\ tab \in [Tabs -> [page : Pages, token : Logins \cup {NoLogin}]]
    /\ troubles \in 0..MaxTroubles

At(page) == [page |-> page, token |-> NoLogin]
Nothing == [session |-> NoLogin, fresh |-> FALSE]

SignInInit ==
    /\ row = [s \in Logins |-> "absent"]
    /\ stored = Nothing
    /\ tab = [t \in Tabs |-> At("login")]
    /\ troubles = MaxTroubles

Trouble(h) == h \in Troubles /\ troubles > 0 /\ troubles' = troubles - 1
SomebodyChecks == \E t \in Tabs : tab[t].page \in {"checking", "refused"}
Go(t, page) == tab' = [tab EXCEPT ![t] = At(page)]

(* Mutant: the comparison with the clock is the other way round.           *)
CurrentReversed == IF stored.fresh THEN Nothing ELSE stored

(* getStoredSession: what has run out is removed when it is looked at.     *)
Current == IF stored.fresh THEN stored ELSE Nothing

-----------------------------------------------------------------------------
(* login.js                                                                *)

(* redirectIfAuthenticated.                                                *)
OpenLogin(t) ==
    /\ tab[t].page = "login"
    /\ stored' = Current
    /\ Go(t, IF Current.session # NoLogin THEN "loading" ELSE "form")
    /\ UNCHANGED <<row, troubles>>

Submit(t) ==
    /\ tab[t].page = "form"
    /\ Go(t, "submitting")
    /\ UNCHANGED <<row, stored, troubles>>

Unused == {s \in Logins : row[s] = "absent"}

(* POST /api/auth/login: a session for the right credentials; the browser  *)
(* stores it when the answer arrives.                                      *)
Granted(t) ==
    /\ tab[t].page = "submitting"
    /\ \E s \in Unused :
         /\ row' = [row EXCEPT ![s] = "live"]
         /\ \/ /\ IF SomebodyChecks THEN Trouble("stale") ELSE UNCHANGED troubles
               /\ stored' = [session |-> s, fresh |-> TRUE]
               /\ Go(t, "loading")
            \/ /\ Trouble("offline")
               /\ UNCHANGED stored
               /\ Go(t, "form")

Denied(t) ==
    /\ tab[t].page = "submitting"
    /\ Go(t, "form")
    /\ UNCHANGED <<row, stored, troubles>>

-----------------------------------------------------------------------------
(* initAuth of app.js: validateSession, or back to the login page.         *)

OpenConsole(t) ==
    /\ tab[t].page = "loading"
    /\ stored' = Current
    /\ tab' = [tab EXCEPT ![t] =
                 IF Current.session = NoLogin THEN At("login")
                 ELSE [page |-> "checking", token |-> Current.session]]
    /\ UNCHANGED <<row, troubles>>

(* validateToken of server.ts deletes the row it finds expired.            *)
Validate(t) ==
    LET s == tab[t].token IN
    /\ tab[t].page = "checking"
    /\ row' = IF row[s] = "expired" THEN [row EXCEPT ![s] = "gone"] ELSE row
    /\ IF row[s] = "live" THEN Go(t, "console") ELSE tab' = [tab EXCEPT ![t].page = "refused"]
    /\ UNCHANGED <<stored, troubles>>

(* The request fails: the stored session is believed.                      *)
ValidateOffline(t) ==
    /\ tab[t].page = "checking"
    /\ Trouble("offline")
    /\ stored' = Current
    /\ Go(t, IF Current.session # NoLogin THEN "console" ELSE "login")
    /\ UNCHANGED row

(* clearAuth: whatever the browser holds by then.                          *)
Refused(t) ==
    /\ tab[t].page = "refused"
    /\ stored' = Nothing
    /\ Go(t, "login")
    /\ UNCHANGED <<row, troubles>>

-----------------------------------------------------------------------------
(* The user leaves, or reloads the console.                                *)

Reload(t) ==
    /\ tab[t].page = "console"
    /\ Go(t, "loading")
    /\ UNCHANGED <<row, stored, troubles>>

Logout(t) ==
    /\ tab[t].page = "console"
    /\ stored' = Current
    /\ tab' = [tab EXCEPT ![t] = [page |-> "leaving", token |-> Current.session]]
    /\ UNCHANGED <<row, troubles>>

(* revokeToken; a failed request is ignored.                               *)
Revoked(t) ==
    LET s == tab[t].token IN
    /\ tab[t].page = "leaving"
    /\ \/ /\ row' = [u \in Logins |-> IF u = s THEN "gone" ELSE row[u]]
          /\ IF stored.session \in {s, NoLogin} THEN UNCHANGED troubles ELSE Trouble("stale")
       \/ Trouble("offline") /\ UNCHANGED row
    /\ stored' = Nothing
    /\ Go(t, "login")

ExpireSession(s) ==
    /\ row[s] = "live"
    /\ row' = [row EXCEPT ![s] = "expired"]
    /\ UNCHANGED <<stored, tab, troubles>>

ExpireStored ==
    /\ stored.session # NoLogin /\ stored.fresh
    /\ stored' = [stored EXCEPT !.fresh = FALSE]
    /\ UNCHANGED <<row, tab, troubles>>

(* deleteExpiredAuthSessions, every half hour.                             *)
Purge ==
    /\ \E s \in Logins : row[s] = "expired"
    /\ row' = [s \in Logins |-> IF row[s] = "expired" THEN "gone" ELSE row[s]]
    /\ UNCHANGED <<stored, tab, troubles>>

(* What a page does by itself.                                             *)
PageStep(t) ==
    \/ OpenLogin(t) \/ Granted(t) \/ Denied(t) \/ OpenConsole(t)
    \/ Validate(t) \/ Refused(t) \/ Revoked(t)

SignInNext ==
    \/ \E t \in Tabs : PageStep(t) \/ Submit(t) \/ ValidateOffline(t) \/ Reload(t) \/ Logout(t)
    \/ \E s \in Logins : ExpireSession(s)
    \/ ExpireStored \/ Purge

SignInSpec == SignInInit /\ [][SignInNext]_signInVars

-----------------------------------------------------------------------------
(* A page that is being loaded settles, at the form or in the console: the *)
(* two pages never send a tab back and forth over a session that only one  *)
(* of them accepts.                                                        *)
Still(t) == tab[t].page \notin {"login", "loading", "checking", "refused"}
PagesSettle == \A t \in Tabs : []<>Still(t)

(* A browser loses a session that the orchestrator honours only by         *)
(* leaving, or because the time kept in the browser is over.               *)
SessionIsKept ==
    [][\A s \in Logins :
         (/\ stored.session = s /\ stored'.session = NoLogin
          /\ row[s] = "live" /\ row'[s] = "live" /\ stored.fresh)
             => troubles < MaxTroubles \/ troubles' < MaxTroubles]_signInVars
=============================================================================
