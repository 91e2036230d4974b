----------------------------- MODULE ApiSession -----------------------------
(***************************************************************************)
(* The session of the console in one browser tab: the token of the API     *)
(* client (services/api/client.ts), the auth slice of the store with its   *)
(* copy in localStorage, the ["me"] query of the query cache, the route    *)
(* guards and SessionBootstrap (router.tsx), LoginPage and useAuth, against *)
(* the server's one session per user.  JavaScript runs a handler to its    *)
(* end, so an action is a handler; requests are in flight between two.     *)
(***************************************************************************)
EXTENDS Integers, FiniteSets

CONSTANTS
  Users, Tokens,
  Owner,      \* the user a token names
  MaxCalls,   \* bound: requests of pages in flight at once
  MaxReloads, \* bound: page loads
  None

ASSUME SessionAssumption ==
  /\ Owner \in [Tokens -> Users] /\ None \notin Users \cup Tokens
  /\ MaxCalls \in Nat /\ MaxReloads \in Nat

VARIABLES
  session,    \* server: the one valid token of each user
  issued,     \* server: tokens handed out
  token,      \* client.ts: the token attached to requests
  stored,     \* localStorage["ch.token"]
  auth,       \* store: token, user, and whose role and permissions
  route,      \* "landing", "login" or "app"
  me,         \* query ["me"]: the token its data answered, error, freshness
  asking,     \* the token of the ["me"] request in flight
  booted,     \* SessionBootstrap is mounted
  login,      \* user of LoginPage's login request in flight
  loginMe,    \* token of LoginPage's own /auth/me in flight
  calls,      \* pages' mutations and logouts in flight, with their token
  ended,      \* history: tokens the user signed out of
  reloads

server == <<session, issued>>
client == <<token, stored, auth>>
view == <<route, asking, booted>>
sent == <<login, loginMe, calls>>
vars == <<server, client, view, me, sent, ended, reloads>>

-----------------------------------------------------------------------------
Valid(t) == t \in Tokens /\ session[Owner[t]] = t

SignedOut == [token |-> None, user |-> None, perms |-> None]
Loaded(a, t) == [a EXCEPT !.user = Owner[t], !.perms = Owner[t]]
NoMe == [of |-> None, error |-> FALSE, fresh |-> FALSE]

\* RequireAuth: no token, no console.  Leaving the console unmounts
\* SessionBootstrap, which cancels its request.
Guarded(r, a) == IF r = "app" /\ a.token = None THEN "login" ELSE r

Land(r, a) ==
  /\ route' = Guarded(r, a)
  /\ booted' = (booted /\ route' = "app")
  /\ asking' = IF route' = "app" THEN asking ELSE None

\* Mutant of Clear: sessionFailed keeps the token of the store.
ClearUser(r) ==
  /\ token' = None
  /\ auth' = [SignedOut EXCEPT !.token = auth.token]
  /\ UNCHANGED stored /\ Land(r, auth')

\* setToken(null) with sessionFailed, which leaves localStorage alone.
Clear(r) == token' = None /\ auth' = SignedOut /\ UNCHANGED stored /\ Land(r, auth')

\* A 401: the handler runs when the client holds a token, whichever the
\* request was sent with.
Unauthorized(r) ==
  IF token # None THEN Clear(r) ELSE UNCHANGED client /\ Land(r, auth)

-----------------------------------------------------------------------------
Init ==
  /\ session = [u \in Users |-> None] /\ issued = {}
  /\ token = None /\ stored = None /\ auth = SignedOut
  /\ route = "landing" /\ booted = FALSE /\ me = NoMe /\ asking = None
  /\ login = None /\ loginMe = None /\ calls = {} /\ ended = {}
  /\ reloads = 0

\* main.tsx: the stored token goes to the client and the store; the query
\* cache and what was in flight are gone.
Reload(r) ==
  /\ reloads < MaxReloads /\ reloads' = reloads + 1
  /\ token' = stored /\ auth' = [SignedOut EXCEPT !.token = stored]
  /\ route' = Guarded(r, auth') /\ booted' = FALSE
  /\ me' = NoMe /\ asking' = None
  /\ login' = None /\ loginMe' = None /\ calls' = {}
  /\ UNCHANGED <<server, stored, ended>>

\* A link of the landing page, or the history.
Go(r) ==
  /\ route # r /\ Land(r, auth)
  /\ UNCHANGED <<server, client, me, sent, ended, reloads>>

\* Mutant of Boot: a query that failed is not asked again.
BootAfterError ==
  /\ route = "app" /\ ~booted
  /\ auth' = IF me.of = None THEN auth ELSE Loaded(auth, me.of)
  /\ booted' = TRUE
  /\ asking' = IF (me.of = None \/ ~me.fresh) /\ ~me.error THEN token ELSE None
  /\ UNCHANGED <<server, token, stored, route, me, sent, ended, reloads>>

\* SessionBootstrap mounts: its query asks unless the cache holds fresh data,
\* its effect loads cached data into the store, and a query that failed with
\* data in the cache sends the user to /login.
Boot ==
  /\ route = "app" /\ ~booted
  /\ LET asks == me.of = None \/ ~me.fresh
         error == me.error /\ me.of # None
     IN /\ me' = [me EXCEPT !.error = error]
        /\ auth' = IF me.of = None THEN auth ELSE Loaded(auth, me.of)
        /\ booted' = ~error /\ route' = IF error THEN "login" ELSE "app"
        /\ asking' = IF asks /\ ~error THEN token ELSE None
  /\ UNCHANGED <<server, token, stored, sent, ended, reloads>>

\* refetchOnReconnect: a stale session is asked for again.
Reconnect ==
  /\ booted /\ ~me.fresh /\ asking = None /\ asking' = token
  /\ UNCHANGED <<server, client, route, booted, me, sent, ended, reloads>>

\* /auth/me answers; the effect stores the session.
MeOk ==
  /\ Valid(asking)
  /\ me' = [of |-> asking, error |-> FALSE, fresh |-> TRUE]
  /\ auth' = Loaded(auth, asking) /\ asking' = None
  /\ UNCHANGED <<server, token, stored, route, booted, sent, ended, reloads>>

\* The 401 handler unmounts SessionBootstrap before the query's retry.
MeUnauthorized ==
  /\ asking # None /\ ~Valid(asking)
  /\ Unauthorized(route) /\ UNCHANGED <<server, me, sent, ended, reloads>>

\* The request and its one retry fail: isError.
MeFails ==
  /\ asking # None
  /\ me' = [me EXCEPT !.error = TRUE]
  /\ IF me.of = None
     THEN Clear("login")
     ELSE /\ auth' = Loaded(auth, me.of) /\ Land("login", auth')
          /\ UNCHANGED <<token, stored>>
  /\ UNCHANGED <<server, sent, ended, reloads>>

-----------------------------------------------------------------------------
\* LoginPage.submit, in its four steps.
Submit(u) ==
  /\ route = "login" /\ login = None /\ loginMe = None
  /\ login' = u
  /\ UNCHANGED <<server, client, view, me, loginMe, calls, ended, reloads>>

LoginOk(t) ==
  /\ login = Owner[t] /\ t \notin issued
  /\ session' = [session EXCEPT ![Owner[t]] = t] /\ issued' = issued \cup {t}
  /\ token' = t /\ stored' = t
  /\ auth' = [auth EXCEPT !.token = t, !.user = Owner[t]]
  /\ login' = None /\ loginMe' = t
  /\ UNCHANGED <<view, me, calls, ended, reloads>>

LoginRefused ==
  /\ login # None /\ login' = None
  /\ Unauthorized(route)
  /\ UNCHANGED <<server, me, loginMe, calls, ended, reloads>>

LoginMeOk ==
  /\ Valid(loginMe) /\ loginMe' = None
  /\ auth' = Loaded(auth, loginMe) /\ Land("app", auth')
  /\ UNCHANGED <<server, token, stored, me, login, calls, ended, reloads>>

\* Whatever fails here, the page goes to the console.
LoginMeFails ==
  /\ loginMe # None /\ loginMe' = None
  /\ \/ ~Valid(loginMe) /\ Unauthorized("app")
     \/ UNCHANGED client /\ Land("app", auth)
  /\ UNCHANGED <<server, me, login, calls, ended, reloads>>

\* Mutant of Logout: the query cache is left alone.
LogoutKeepsMe ==
  /\ booted /\ me.of # None
  /\ calls' = calls \cup {[kind |-> "logout", token |-> token]}
  /\ token' = None /\ stored' = None /\ auth' = SignedOut
  /\ Land("login", auth') /\ ended' = ended \cup {token}
  /\ UNCHANGED <<server, me, login, loginMe, reloads>>

\* useAuth.logout from the header, then navigate("/login").
Logout ==
  /\ booted /\ me.of # None
  /\ calls' = calls \cup {[kind |-> "logout", token |-> token]}
  /\ me' = NoMe
  /\ token' = None /\ stored' = None /\ auth' = SignedOut
  /\ Land("login", auth') /\ ended' = ended \cup {token}
  /\ UNCHANGED <<server, login, loginMe, reloads>>

\* A mutation of a page: its answer is awaited wherever the user goes.
Call ==
  /\ booted /\ me.of # None /\ Cardinality(calls) < MaxCalls
  /\ calls' = calls \cup {[kind |-> "call", token |-> token]}
  /\ UNCHANGED <<server, client, view, me, login, loginMe, ended, reloads>>

CallOk(c) ==
  /\ c \in calls /\ Valid(c.token) /\ calls' = calls \ {c}
  /\ session' = IF c.kind = "logout"
                THEN [session EXCEPT ![Owner[c.token]] = None] ELSE session
  /\ UNCHANGED <<issued, client, view, me, login, loginMe, ended, reloads>>

CallUnauthorized(c) ==
  /\ c \in calls /\ ~Valid(c.token) /\ calls' = calls \ {c}
  /\ Unauthorized(route)
  /\ UNCHANGED <<server, me, login, loginMe, ended, reloads>>

CallLost(c) ==
  /\ c \in calls /\ calls' = calls \ {c}
  /\ UNCHANGED <<server, client, view, me, login, loginMe, ended, reloads>>

-----------------------------------------------------------------------------
\* The session's TTL, a password change, a deletion, a login elsewhere.
Expire(u) ==
  /\ session[u] # None /\ session' = [session EXCEPT ![u] = None]
  /\ UNCHANGED <<issued, client, view, me, sent, ended, reloads>>

\* staleTime: five minutes.
MeStale ==
  /\ me.fresh /\ me' = [me EXCEPT !.fresh = FALSE]
  /\ UNCHANGED <<server, client, view, sent, ended, reloads>>

\* gcTime: five minutes without an observer.
MeGone ==
  /\ ~booted /\ me # NoMe /\ me' = NoMe
  /\ UNCHANGED <<server, client, view, sent, ended, reloads>>

Next ==
  \/ Boot \/ Reconnect \/ MeOk \/ MeUnauthorized \/ MeFails
  \/ LoginRefused \/ LoginMeOk \/ LoginMeFails \/ Logout \/ Call
  \/ MeStale \/ MeGone
  \/ \E r \in {"landing", "login", "app"} : Go(r) \/ Reload(r)
  \/ \E u \in Users : Submit(u) \/ Expire(u)
  \/ \E t \in Tokens : LoginOk(t)
  \/ \E c \in calls : CallOk(c) \/ CallUnauthorized(c) \/ CallLost(c)

Spec == Init /\ [][Next]_vars

\* React mounts what is routed to, and /auth/me is answered or fails.
FairSpec == Spec /\ WF_vars(Boot) /\ WF_vars(MeOk \/ MeUnauthorized \/ MeFails)

-----------------------------------------------------------------------------
MaybeToken == Tokens \cup {None}
MaybeUser == Users \cup {None}
Calls == [kind : {"call", "logout"}, token : Tokens]

\* Types of the server's sessions and of the tab's state.
TypeOK ==
  /\ session \in [Users -> MaybeToken] /\ issued \subseteq Tokens
  /\ token \in MaybeToken /\ stored \in MaybeToken
  /\ auth \in [token : MaybeToken, user : MaybeUser, perms : MaybeUser]
  /\ route \in {"landing", "login", "app"} /\ booted \in BOOLEAN
  /\ me \in [of : MaybeToken, error : BOOLEAN, fresh : BOOLEAN]
  /\ asking \in MaybeToken /\ login \in MaybeUser /\ loginMe \in MaybeToken
  /\ calls \subseteq Calls /\ ended \subseteq Tokens
  /\ reloads \in 0..MaxReloads

\* The token lives in three places that five handlers write: the client and
\* the store always agree, a token in use is the stored one (so a reload keeps
\* the session), and the console is never on screen without one.
OneToken ==
  /\ token = auth.token
  /\ token # None => stored = token
  /\ route = "app" => token # None

\* Signing out is final in this browser: no late answer, cached session,
\* reload or later login brings back the token or the cached identity of a
\* session the user signed out of (useAuth: "so a different user signing in on
\* this browser never inherits the previous identity or permissions").
SignOutIsFinal == ended \cap {token, stored, asking, me.of} = {}

\* The console never stays on its loader: the session is loaded or the user is
\* sent to the login page, through any remount, lost answer and cancelled
\* request of SessionBootstrap.
LoaderEnds == route = "app" /\ me.of = None ~> route # "app" \/ me.of # None

\* What the same comment promises, of every way a session ends and another
\* begins: the console never opens with the cached user, role and permissions
\* of somebody else than the user whose token it sends.
OwnIdentity == [][Boot /\ me.of # None => Owner[me.of] = Owner[token]]_vars

\* "a 401 on an authenticated request clears the session once": a request of
\* an earlier session does not end a later one.
OwnUnauthorized ==
  [][\A c \in calls : CallUnauthorized(c) /\ token # None
                        => c.token = token]_vars
=============================================================================
