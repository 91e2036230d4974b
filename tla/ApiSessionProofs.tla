--------------------------- MODULE ApiSessionProofs ---------------------------
(***************************************************************************)
(* TypeOK, OneToken and SignOutIsFinal of ApiSession, for any number of    *)
(* users, tokens, requests in flight and page loads.  The console is only  *)
(* ever mounted with a token, so a logout always ends one; a token is      *)
(* issued once, and whatever the tab still holds is an issued one that was *)
(* not ended, or one it will drop.                                         *)
(***************************************************************************)
EXTENDS ApiSession, TLAPS

TabRoutes == {"landing", "login", "app"}

(* The console is mounted only where it is on screen, and asks only there. *)
Mounted ==
  /\ booted => route = "app"
  /\ asking # None => route = "app"

(* What the tab may hold: a token that was issued and not ended, or none.  *)
Held == (issued \ ended) \cup {None}
AuthType == [token : MaybeToken, user : MaybeUser, perms : MaybeUser]

(* The tab's own part of the invariant, over client and view, and the rest.*)
Tab ==
  /\ token \in Held /\ stored \in Held /\ asking \in Held
  /\ auth \in AuthType
  /\ route \in TabRoutes /\ booted \in BOOLEAN
  /\ OneToken /\ Mounted

Rest ==
  /\ session \in [Users -> MaybeToken] /\ issued \subseteq Tokens
  /\ me \in [of : MaybeToken, error : BOOLEAN, fresh : BOOLEAN]
  /\ login \in MaybeUser /\ loginMe \in MaybeToken
  /\ calls \subseteq Calls /\ ended \subseteq issued
  /\ me.of \in Held
  /\ reloads \in 0..MaxReloads

IInv == Tab /\ Rest

LEMMA SignedOutType == SignedOut \in AuthType /\ SignedOut.token = None
BY DEF SignedOut, AuthType, MaybeToken, MaybeUser

LEMMA InitInv == Init => IInv
<1> SUFFICES ASSUME Init PROVE Tab /\ Rest
  BY DEF IInv
<1>1. Tab
  BY SignedOutType DEF Init, Tab, OneToken, Mounted, Held, TabRoutes
<1>2. me \in [of : MaybeToken, error : BOOLEAN, fresh : BOOLEAN] /\ me.of = None
  BY DEF Init, NoMe, MaybeToken
<1> QED
  BY <1>1, <1>2, SessionAssumption DEF Init, Rest, Held, MaybeToken, MaybeUser

(* Landing somewhere keeps the tab's part when client and store keep it.   *)
LEMMA LandKeeps ==
  ASSUME Tab, NEW r \in TabRoutes, UNCHANGED <<issued, ended>>,
         token' \in Held, stored' \in Held, token' # None => stored' = token',
         auth' \in AuthType, auth'.token = token', Land(r, auth')
  PROVE  Tab'
<1>1. Held' = Held /\ asking' \in Held /\ route' \in TabRoutes /\ booted' \in BOOLEAN
  BY DEF Held, Tab, Land, Guarded, TabRoutes
<1>2. OneToken'
  BY DEF OneToken, Land, Guarded
<1>3. Mounted'
  BY DEF Mounted, Land
<1>4. (auth \in AuthType)'
  BY DEF AuthType, MaybeToken, MaybeUser
<1> QED BY <1>1, <1>2, <1>3, <1>4 DEF Tab

LEMMA ClearKeeps ==
  ASSUME Tab, NEW r \in TabRoutes, UNCHANGED <<issued, ended>>, Clear(r)
  PROVE  Tab'
<1>1. token' = None /\ auth' = SignedOut /\ stored' = stored /\ Land(r, auth')
  BY DEF Clear
<1> QED BY <1>1, SignedOutType, LandKeeps DEF Tab, Held

LEMMA UnauthorizedKeeps ==
  ASSUME Tab, NEW r \in TabRoutes, UNCHANGED <<issued, ended>>, Unauthorized(r)
  PROVE  Tab'
<1>1. CASE token # None
  BY <1>1, ClearKeeps DEF Unauthorized
<1>2. CASE token = None
  BY <1>2, LandKeeps DEF Unauthorized, client, Tab, OneToken
<1> QED BY <1>1, <1>2

LEMMA LoadedType ==
  ASSUME NEW a \in AuthType,
         NEW t \in Tokens
  PROVE  /\ Loaded(a, t) \in AuthType
         /\ Loaded(a, t).token = a.token
BY SessionAssumption DEF Loaded, AuthType, MaybeToken, MaybeUser

-----------------------------------------------------------------------------
(* The actions of the page: mounts, /auth/me and the login form.           *)
LEMMA PageInv ==
  ASSUME Tab, Rest,
         \/ Boot \/ Reconnect \/ MeOk \/ MeUnauthorized \/ MeFails
         \/ LoginRefused \/ LoginMeOk \/ LoginMeFails
         \/ \E r \in TabRoutes : Go(r) \/ Reload(r)
         \/ \E u \in Users : Submit(u)
         \/ \E t \in Tokens : LoginOk(t)
  PROVE  Tab' /\ Rest'
<1> USE SessionAssumption DEF Held, AuthType, MaybeToken, MaybeUser
<1>1. CASE Boot
  <2>1. /\ auth' \in AuthType
        /\ auth'.token = token
    BY <1>1, LoadedType DEF Boot, Tab, Rest, OneToken, MaybeToken
  <2>2. Tab'
    BY <1>1, <2>1 DEF Boot, Tab, Rest, OneToken, Mounted, TabRoutes, server
  <2> QED BY <1>1, <2>2 DEF Boot, Rest, sent, server
<1>2. CASE Reconnect
  <2>1. Tab'
    BY <1>2 DEF Reconnect, Tab, OneToken, Mounted, server, client
  <2> QED BY <1>2, <2>1 DEF Reconnect, Rest, sent, server
<1>3. CASE MeOk
  <2>1. asking \in Tokens /\ asking \in issued \ ended
    BY <1>3 DEF MeOk, Valid, Tab
  <2>2. /\ auth' \in AuthType
        /\ auth'.token = token
    BY <1>3, <2>1, LoadedType DEF MeOk, Tab, OneToken
  <2>3. Tab'
    BY <1>3, <2>2 DEF MeOk, Tab, Held, OneToken, Mounted, server
  <2> QED BY <1>3, <2>1, <2>3 DEF MeOk, Rest, sent, server, MaybeToken
<1>4. CASE MeUnauthorized
  <2>1. Tab'
    BY <1>4, UnauthorizedKeeps DEF MeUnauthorized, Tab, server
  <2> QED BY <1>4, <2>1 DEF MeUnauthorized, Rest, sent, server
<1>5. CASE MeFails
  <2>1. Tab'
    <3>1. CASE me.of = None
      BY <1>5, <3>1, ClearKeeps DEF MeFails, TabRoutes, server
    <3>2. CASE me.of # None
      BY <1>5, <3>2, LandKeeps, LoadedType
         DEF MeFails, TabRoutes, server, Tab, Rest, OneToken, MaybeToken
    <3> QED BY <3>1, <3>2
  <2> QED BY <1>5, <2>1 DEF MeFails, Rest, sent, server
<1>6. CASE LoginRefused
  <2>1. Tab'
    BY <1>6, UnauthorizedKeeps DEF LoginRefused, Tab, server
  <2> QED BY <1>6, <2>1 DEF LoginRefused, Rest, server, MaybeUser
<1>7. CASE LoginMeOk
  <2>1. loginMe \in Tokens
    BY <1>7 DEF LoginMeOk, Valid
  <2>2. Tab'
    BY <1>7, <2>1, LandKeeps, LoadedType DEF LoginMeOk, TabRoutes, server, Tab, OneToken
  <2> QED BY <1>7, <2>2 DEF LoginMeOk, Rest, server, MaybeToken
<1>8. CASE LoginMeFails
  <2>1. Tab'
    <3>1. CASE Unauthorized("app")
      BY <1>8, <3>1, UnauthorizedKeeps DEF LoginMeFails, TabRoutes, server
    <3>2. CASE UNCHANGED client /\ Land("app", auth)
      BY <1>8, <3>2, LandKeeps DEF LoginMeFails, TabRoutes, server, client, Tab, OneToken
    <3> QED BY <1>8, <3>1, <3>2 DEF LoginMeFails
  <2> QED BY <1>8, <2>1 DEF LoginMeFails, Rest, server, MaybeToken
<1>9. ASSUME NEW r \in TabRoutes, Go(r) PROVE Tab' /\ Rest'
  <2>1. Tab'
    BY <1>9, LandKeeps DEF Go, server, client, Tab, OneToken
  <2> QED BY <1>9, <2>1 DEF Go, Rest, server, sent
<1>10. ASSUME NEW r \in TabRoutes, Reload(r) PROVE Tab' /\ Rest'
  <2>0. auth' \in AuthType /\ auth'.token = stored /\ token' = stored
    BY <1>10, SignedOutType DEF Reload, Rest, Tab, Held, SignedOut, AuthType, MaybeToken
  <2>1. Tab'
    BY <1>10, <2>0 DEF Reload, Guarded, Tab, Held, OneToken, Mounted, TabRoutes, server
  <2>2. reloads' \in 0..MaxReloads
    BY <1>10 DEF Reload, Rest
  <2> QED BY <1>10, <2>1, <2>2
             DEF Reload, Rest, server, NoMe, MaybeToken, MaybeUser
<1>11. ASSUME NEW u \in Users, Submit(u) PROVE Tab' /\ Rest'
  BY <1>11 DEF Submit, Tab, Rest, OneToken, Mounted, server, client, view, MaybeUser
<1>12. ASSUME NEW t \in Tokens, LoginOk(t) PROVE Tab' /\ Rest'
  <2>0. auth' \in AuthType /\ auth'.token = t
    BY <1>12 DEF LoginOk, Tab, AuthType, MaybeToken, MaybeUser
  <2>1. issued' = issued \cup {t} /\ ended' = ended /\ t \notin ended
    BY <1>12 DEF LoginOk, Rest
  <2>2. Tab'
    BY <1>12, <2>0, <2>1 DEF LoginOk, Tab, OneToken, Mounted, view
  <2>3. session' \in [Users -> MaybeToken]
    BY <1>12 DEF LoginOk, Rest, MaybeToken
  <2> QED BY <1>12, <2>1, <2>2, <2>3 DEF LoginOk, Rest, MaybeToken, MaybeUser
<1> QED BY <1>1, <1>2, <1>3, <1>4, <1>5, <1>6, <1>7, <1>8, <1>9, <1>10, <1>11, <1>12

(* The actions of the console's pages, of the server and of time.          *)
LEMMA ConsoleInv ==
  ASSUME Tab, Rest,
         \/ Logout \/ Call \/ MeStale \/ MeGone
         \/ \E u \in Users : Expire(u)
         \/ \E c \in calls : CallOk(c) \/ CallUnauthorized(c) \/ CallLost(c)
  PROVE  Tab' /\ Rest'
<1> USE SessionAssumption DEF Held, AuthType, MaybeToken, MaybeUser
<1>1. CASE Logout
  <2>1. token \in Tokens /\ token \in issued
    BY <1>1 DEF Logout, Tab, OneToken, Mounted, MaybeToken
  <2>2. Tab'
    BY <1>1, SignedOutType
       DEF Logout, Land, Guarded, Tab, Held, OneToken, Mounted, TabRoutes, server
  <2> QED BY <1>1, <2>1, <2>2 DEF Logout, Rest, Calls, NoMe, server, MaybeToken
<1>2. CASE Call
  <2>1. token \in Tokens
    BY <1>2 DEF Call, Tab, OneToken, Mounted, MaybeToken
  <2>2. Tab'
    BY <1>2 DEF Call, Tab, OneToken, Mounted, server, client, view
  <2> QED BY <1>2, <2>1, <2>2 DEF Call, Rest, Calls, server
<1>3. CASE MeStale
  BY <1>3 DEF MeStale, Tab, Rest, OneToken, Mounted, server, client, view, sent
<1>4. CASE MeGone
  BY <1>4 DEF MeGone, NoMe, Tab, Rest, OneToken, Mounted, server, client, view, sent,
              MaybeToken
<1>5. ASSUME NEW u \in Users, Expire(u) PROVE Tab' /\ Rest'
  BY <1>5 DEF Expire, Tab, Rest, OneToken, Mounted, client, view, sent, MaybeToken
<1>6. ASSUME NEW c \in calls, CallOk(c) PROVE Tab' /\ Rest'
  <2>1. session' \in [Users -> MaybeToken]
    BY <1>6 DEF CallOk, Rest, MaybeToken
  <2> QED BY <1>6, <2>1 DEF CallOk, Tab, Rest, OneToken, Mounted, client, view
<1>7. ASSUME NEW c \in calls, CallUnauthorized(c) PROVE Tab' /\ Rest'
  <2>1. Tab'
    BY <1>7, UnauthorizedKeeps DEF CallUnauthorized, Tab, server
  <2> QED BY <1>7, <2>1 DEF CallUnauthorized, Rest, server
<1>8. ASSUME NEW c \in calls, CallLost(c) PROVE Tab' /\ Rest'
  BY <1>8 DEF CallLost, Tab, Rest, OneToken, Mounted, server, client, view
<1> QED BY <1>1, <1>2, <1>3, <1>4, <1>5, <1>6, <1>7, <1>8

LEMMA NextInv == IInv /\ [Next]_vars => IInv'
<1> SUFFICES ASSUME Tab, Rest, [Next]_vars PROVE Tab' /\ Rest'
  BY DEF IInv
<1>1. CASE UNCHANGED vars
  BY <1>1 DEF vars, server, client, view, sent, Tab, Rest, Held, OneToken, Mounted,
              AuthType, MaybeToken, MaybeUser
<1> QED BY <1>1, PageInv, ConsoleInv DEF Next, TabRoutes

LEMMA Inductive == Spec => []IInv
BY InitInv, NextInv, PTL DEF Spec

-----------------------------------------------------------------------------
(* The server's sessions and the tab's state are well typed; a request is  *)
(* never sent from the console without a token (calls).                    *)
THEOREM SessionTypes == Spec => []TypeOK
<1>1. IInv => TypeOK
  BY DEF IInv, Tab, Rest, Held, TabRoutes, AuthType, TypeOK, MaybeToken
<1> QED BY Inductive, <1>1, PTL

(* Client, store, localStorage and route agree on the session, whatever    *)
(* order logins, logouts, 401s, reloads and late answers come in.          *)
THEOREM TokensAgree == Spec => []OneToken
<1>1. IInv => OneToken
  BY DEF IInv, Tab
<1> QED BY Inductive, <1>1, PTL

(* Nothing brings back a session the user signed out of.                   *)
THEOREM SignedOutStays == Spec => []SignOutIsFinal
<1>1. IInv => SignOutIsFinal
  BY SessionAssumption DEF IInv, Tab, Rest, Held, SignOutIsFinal
<1> QED BY Inductive, <1>1, PTL
=============================================================================
