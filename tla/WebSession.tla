----------------------------- MODULE WebSession ----------------------------
(***************************************************************************)
(* The session of the web administration: what one tab of the browser      *)
(* holds and shows, the two cookies its requests carry and its answers     *)
(* set, and the sessions of Keycloak behind the refresh tokens.  An answer *)
(* is applied when it arrives, whatever the tab did since it asked.        *)
(***************************************************************************)
EXTENDS Naturals, FiniteSets

CONSTANTS
  Users, Sessions, Null,
  Internal,  \* the users of scope TARHIB, for whom the administration is
  Overlap,   \* requests are sent while others are under way
  Faults     \* what happens besides: "reload", "expiry", "lost" (a request or
             \* its answer), "me" (GET /auth/me fails)

\* A request and its answer, with the cookies it carried.
Requests ==
  [at : {"sent", "answered"}, rt : Sessions \union {Null}, imp : Sessions \union {Null},
   user : Users \union {Null}, session : Sessions \union {Null}]

WebAssumption == Internal \subseteq Users /\ Null \notin Users \union Sessions \union Requests

VARIABLES
  owner,     \* the user of each session of Keycloak
  live,      \* the sessions that were not revoked
  cookie,    \* rt: the refresh token; imp: that of the real actor
  tab,       \* token and profile in memory, the banner, booting
  flight     \* the request of each kind that is under way

vars == <<owner, live, cookie, tab, flight>>

Kinds == {"login", "refresh", "start", "stop", "logout"}

Server == <<owner, live>>
EmptyState(t) == [t EXCEPT !.token = Null, !.profile = Null]

----------------------------------------------------------------------------
\* A request carries the cookies of the moment it is sent.
Request(user) ==
  [at |-> "sent", rt |-> cookie.rt, imp |-> cookie.imp, user |-> user, session |-> Null]

Quiet == \A k \in Kinds : flight[k] = Null

Sends(k, user) ==
  /\ flight[k] = Null
  /\ Overlap \/ Quiet
  /\ flight' = [flight EXCEPT ![k] = Request(user)]

Login(u) ==
  /\ ~tab.booting
  /\ tab.profile = Null
  /\ Sends("login", u)
  /\ UNCHANGED <<Server, cookie, tab>>

\* The timer, or a 401: silentRefresh, of which one is under way at most.
SilentRefresh ==
  /\ tab.token # Null
  /\ Sends("refresh", Null)
  /\ UNCHANGED <<Server, cookie, tab>>

\* The memory of the page is lost, its requests are aborted, and it boots.
Reload ==
  /\ "reload" \in Faults
  /\ tab' = [token |-> Null, profile |-> Null, banner |-> Null, booting |-> TRUE]
  /\ flight' = [k \in Kinds |-> IF k = "refresh" THEN Request(Null) ELSE Null]
  /\ UNCHANGED <<Server, cookie>>

\* A session of Keycloak ends.
Expire(s) ==
  /\ "expiry" \in Faults
  /\ s \in live
  /\ live' = live \ {s}
  /\ UNCHANGED <<owner, cookie, tab, flight>>

\* A request does not arrive, or its answer: a refresh ends without a token, of
\* the others nothing is applied (the error of a logout is ignored).
Lose(k) ==
  /\ "lost" \in Faults
  /\ flight[k] # Null
  /\ flight' = [flight EXCEPT ![k] =
       IF k = "refresh" THEN [@ EXCEPT !.at = "answered", !.session = Null] ELSE Null]
  /\ UNCHANGED <<Server, cookie, tab>>

\* logout() empties the state at once, except for the banner.
Logout ==
  /\ tab.profile # Null
  /\ Sends("logout", Null)
  /\ tab' = EmptyState(tab)
  /\ UNCHANGED <<Server, cookie>>

StartImpersonation(u) ==
  /\ tab.profile \notin {Null, u}
  /\ tab.banner = Null
  /\ Sends("start", u)
  /\ UNCHANGED <<Server, cookie, tab>>

StopImpersonation ==
  /\ tab.profile # Null
  /\ tab.banner # Null
  /\ Sends("stop", Null)
  /\ UNCHANGED <<Server, cookie, tab>>

----------------------------------------------------------------------------
Answers(k, s) == flight' = [flight EXCEPT ![k].at = "answered", ![k].session = s]

\* Keycloak opens a session: a login, or the exchange of a token.
Opens(k, s) ==
  /\ owner[s] = Null
  /\ owner' = [owner EXCEPT ![s] = flight[k].user]
  /\ live' = live \union {s}
  /\ Answers(k, s)

Sent(k) == flight[k] # Null /\ flight[k].at = "sent"

ServeLogin(s) == Sent("login") /\ Opens("login", s) /\ UNCHANGED <<cookie, tab>>

ServeRefresh ==
  /\ Sent("refresh")
  /\ Answers("refresh", IF flight["refresh"].rt \in live THEN flight["refresh"].rt ELSE Null)
  /\ UNCHANGED <<Server, cookie, tab>>

ServeLogout ==
  /\ Sent("logout")
  /\ live' = live \ {flight["logout"].rt}
  /\ Answers("logout", Null)
  /\ UNCHANGED <<owner, cookie, tab>>

\* alreadyImpersonating, missingRefreshToken, or a session of the target.
ServeStart(s) ==
  /\ Sent("start")
  /\ IF flight["start"].imp # Null \/ flight["start"].rt = Null
     THEN Answers("start", Null) /\ UNCHANGED Server
     ELSE Opens("start", s)
  /\ UNCHANGED <<cookie, tab>>

\* The session of the target is revoked, that of the real actor refreshed;
\* without the cookie of the actor it answers notImpersonating.
ServeStop ==
  /\ Sent("stop")
  /\ LET s == flight["stop"].imp IN
     /\ live' = IF s = Null THEN live ELSE live \ {flight["stop"].rt}
     /\ Answers("stop", IF s \in live' THEN s ELSE Null)
  /\ UNCHANGED <<owner, cookie, tab>>

----------------------------------------------------------------------------
Answered(k) == flight[k] # Null /\ flight[k].at = "answered"
Done(k) == flight' = [flight EXCEPT ![k] = Null]

Refused(k) ==
  /\ k \in {"start", "stop"}
  /\ Answered(k)
  /\ flight[k].session = Null
  /\ Done(k)
  /\ UNCHANGED <<Server, cookie, tab>>

\* A logout that follows from the answer to k, with the cookie it has set.
LogsOut(k, rt) ==
  flight' = [flight EXCEPT ![k] = Null, !["logout"] = [Request(Null) EXCEPT !.rt = rt]]

LoggedIn ==
  /\ Answered("login")
  /\ LET s == flight["login"].session IN
     /\ owner[s] \in Internal
     /\ cookie' = [cookie EXCEPT !.rt = s]
     /\ tab' = [tab EXCEPT !.token = s, !.profile = owner[s]]
  /\ Done("login")
  /\ UNCHANGED Server

\* INTERNAL_ONLY: the session that was opened is revoked.
TurnedAway ==
  /\ Answered("login")
  /\ LET s == flight["login"].session IN
     /\ owner[s] \notin Internal
     /\ cookie' = [cookie EXCEPT !.rt = s]
     /\ LogsOut("login", s)
  /\ UNCHANGED <<Server, tab>>

\* Mutant of Refreshed: the page that boots does not ask for the profile.
RefreshedOnly ==
  /\ Answered("refresh")
  /\ flight["refresh"].session # Null
  /\ LET s == flight["refresh"].session IN
     /\ cookie' = [cookie EXCEPT !.rt = s]
     /\ tab' = [tab EXCEPT !.token = s, !.booting = FALSE]
  /\ Done("refresh")
  /\ UNCHANGED Server

\* A refresh sets the token; the profile only while the page boots.
Refreshed ==
  /\ Answered("refresh")
  /\ flight["refresh"].session # Null
  /\ LET s == flight["refresh"].session IN
     /\ tab.booting => owner[s] \in Internal
     /\ cookie' = [cookie EXCEPT !.rt = s]
     /\ tab' = [tab EXCEPT !.token = s, !.booting = FALSE,
                           !.profile = IF tab.booting THEN owner[s] ELSE tab.profile]
  /\ Done("refresh")
  /\ UNCHANGED Server

\* The page that boots cannot find the profile, or not of the scope TARHIB.
BootRefused ==
  /\ tab.booting
  /\ Answered("refresh")
  /\ flight["refresh"].session # Null
  /\ LET s == flight["refresh"].session IN
     /\ owner[s] \notin Internal \/ "me" \in Faults
     /\ cookie' = [cookie EXCEPT !.rt = s]
     /\ LogsOut("refresh", s)
  /\ tab' = [EmptyState(tab) EXCEPT !.booting = FALSE]
  /\ UNCHANGED Server

\* Without a token: the timer lets it pass, a request that had a 401 logs out.
NotRefreshed ==
  /\ Answered("refresh")
  /\ flight["refresh"].session = Null
  /\ \/ tab' = [tab EXCEPT !.booting = FALSE] /\ Done("refresh")
     \/ /\ ~tab.booting
        /\ tab' = EmptyState(tab)
        /\ LogsOut("refresh", cookie.rt)
  /\ UNCHANGED <<Server, cookie>>

Started ==
  /\ Answered("start")
  /\ flight["start"].session # Null
  /\ LET s == flight["start"].session IN
     /\ cookie' = [rt |-> s, imp |-> flight["start"].rt]
     /\ tab' = [tab EXCEPT !.token = s, !.profile = owner[s], !.banner = owner[s]]
  /\ Done("start")
  /\ UNCHANGED Server

\* The profile is that of GET /auth/me with the new token; when that fails, the
\* one the page had.
Stopped ==
  /\ Answered("stop")
  /\ flight["stop"].session # Null
  /\ LET s == flight["stop"].session IN
     /\ cookie' = [rt |-> s, imp |-> Null]
     /\ \E u \in {owner[s]} \union (IF "me" \in Faults THEN {tab.profile} ELSE {}) :
          tab' = [tab EXCEPT !.token = s, !.profile = u, !.banner = Null]
  /\ Done("stop")
  /\ UNCHANGED Server

LoggedOut ==
  /\ Answered("logout")
  /\ cookie' = [cookie EXCEPT !.rt = Null]
  /\ Done("logout")
  /\ UNCHANGED <<Server, tab>>

----------------------------------------------------------------------------
Init ==
  /\ owner = [s \in Sessions |-> Null]
  /\ live = {}
  /\ cookie = [rt |-> Null, imp |-> Null]
  /\ tab = [token |-> Null, profile |-> Null, banner |-> Null, booting |-> FALSE]
  /\ flight = [k \in Kinds |-> Null]

Next ==
  \/ \E u \in Users : Login(u) \/ StartImpersonation(u)
  \/ SilentRefresh \/ Reload \/ Logout \/ StopImpersonation
  \/ \E s \in Sessions : ServeLogin(s) \/ ServeStart(s) \/ Expire(s)
  \/ ServeRefresh \/ ServeLogout \/ ServeStop
  \/ \E k \in Kinds : Refused(k) \/ Lose(k)
  \/ LoggedIn \/ TurnedAway \/ Refreshed \/ BootRefused \/ NotRefreshed
  \/ Started \/ Stopped \/ LoggedOut

Spec == Init /\ [][Next]_vars

----------------------------------------------------------------------------
\* When no request is under way, whatever fails, expires or is loaded again: a
\* page without a token shows nobody, and it never acts as another than it
\* shows: a profile that is not of its token was left by a return to the own
\* account, of which neither the banner nor the second cookie is left.
NeverActsAsAnother ==
  Quiet =>
    /\ tab.profile = Null <=> tab.token = Null
    /\ tab.token # Null /\ tab.profile # owner[tab.token] =>
         tab.banner = Null /\ cookie.imp = Null

\* When no request is under way, the page shows the user on whose behalf its
\* requests are made (login, start and stop set the token and the profile).
ShowsWhoseToken ==
  Quiet => tab.profile = IF tab.token = Null THEN Null ELSE owner[tab.token]

\* When no request is under way, the page, the refresh cookie and Keycloak
\* agree on the session: a logged-out page leaves no cookie, and a page that
\* is logged in can go on.
CookieIsSession ==
  Quiet => cookie.rt = tab.token /\ (tab.token # Null => tab.token \in live)

\* Whoever works as another has the banner, from which to return to the
\* own account without a new login.
CanReturn ==
  Quiet /\ tab.profile # Null =>
    (tab.banner # Null <=> cookie.imp # Null) /\ cookie.imp \in live \union {Null}

\* Between requests at most two sessions are left to the browser: its own, and
\* that of the real actor (logout and stop revoke the one they leave).
NothingLeftLive == Quiet => live \subseteq {cookie.rt, cookie.imp}

=============================================================================
