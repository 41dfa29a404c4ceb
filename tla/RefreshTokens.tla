----------------------------- MODULE RefreshTokens -----------------------------
(***************************************************************************)
(* How a user stays signed in: the refresh_tokens rows of one user, the    *)
(* devices that hold them, and the requests that rotate and revoke them:   *)
(* sign-in, POST /auth/refresh, POST /auth/logout and /auth/logout-all,    *)
(* and the nightly deletion of rows.  A device is a browser, whose tabs    *)
(* share its cookie, or a client of the device flow or of OAuth, which     *)
(* keeps its token itself.  Every tab keeps one request under way at most  *)
(* (refreshPromise); tabs and devices know nothing of each other, and the  *)
(* server revokes "all tokens" whatever device they were issued to.  A     *)
(* step is one statement of the server or one answer.                      *)
(***************************************************************************)
EXTENDS Naturals, FiniteSets

CONSTANTS
    NULL,       \* no cookie, no tab, no device
    Devices,
    Browsers,   \* the devices that send their token as a cookie
    Tabs,       \* tabs of the browsers; another client is one tab
    DeviceOf,   \* the device of each tab
    MaxOps      \* sign-ins and requests, a bound

ASSUME SessionAssumption ==
    /\ MaxOps \in Nat
    /\ NULL \notin Nat /\ NULL \notin Tabs /\ NULL \notin Devices
    /\ Browsers \subseteq Devices
    /\ DeviceOf \in [Tabs -> Devices]

VARIABLES
    token,      \* the row of each refresh token; o's is the one request o issues
    cookie,     \* the refresh token that each device keeps
    access,     \* tabs that hold a valid access token
    active,     \* the account is active
    at,         \* how far each request is
    device,     \* the device it came from
    sender,     \* the tab that waits for its answer, if one does
    sent,       \* the token its device had when it was sent
    smooth,     \* devices none of whose requests overlapped, failed or got an
                \* answer that was not heard (history)
    strays,     \* tokens a device never got or dropped out of turn (history)
    swept       \* tokens that another device revoked with all others (history)

request == <<at, device, sender, sent>>
history == <<smooth, strays, swept>>
vars == <<token, cookie, access, active, request, history>>

Ops == 1..MaxOps
Issued == {o \in Ops : token[o] # "none"}
Live == {o \in Ops : token[o] = "live"}
InFlight == {o \in Ops : at[o] \notin {"unused", "done"}}
InFlightOf(d) == {o \in InFlight : device[o] = d}
Waiting(tab) == \E o \in InFlight : sender[o] = tab

\* The request number that is used next.
Fresh(o) ==
    /\ at[o] = "unused"
    /\ \A p \in Ops : at[p] = "unused" => o <= p

Init ==
    /\ token = [o \in Ops |-> "none"]
    /\ cookie = [d \in Devices |-> NULL]
    /\ access = {}
    /\ active = TRUE
    /\ at = [o \in Ops |-> "unused"]
    /\ device = [o \in Ops |-> NULL]
    /\ sender = [o \in Ops |-> NULL]
    /\ sent = [o \in Ops |-> NULL]
    /\ smooth = Devices
    /\ strays = {} /\ swept = {}

\* A device takes a new token, or none; the one it had was expected to be old.
SetCookie(d, new, old) ==
    /\ cookie' = [cookie EXCEPT ![d] = new]
    /\ strays' = IF cookie[d] \in {NULL, old} THEN strays ELSE strays \cup {cookie[d]}

Revoked(o) == [token EXCEPT ![o] = IF @ = "gone" THEN @ ELSE "revoked"]

\* revokeAllUserTokens: whatever is not yet revoked, expired or not, and of
\* whichever device.
RevokeEverything(o) ==
    LET valid == {p \in Ops : token[p] \in {"live", "expired"}} IN
    /\ token' = [p \in Ops |-> IF p \in valid THEN "revoked" ELSE token[p]]
    /\ swept' = swept \cup {p \in valid : device[p] # device[o]}

-----------------------------------------------------------------------------
(* The devices *)

\* A new request of the device, which is not smooth if it has one under way.
Opens(d, o) ==
    /\ Fresh(o)
    /\ device' = [device EXCEPT ![o] = d]
    /\ smooth' = IF InFlightOf(d) = {} THEN smooth ELSE smooth \ {d}

\* The provider sends the user back: a token in the cookie, an access token in
\* the URL.  Other clients get both as an answer, and the device flow does not
\* look whether the account is active.  An earlier token is left alone.  If the
\* answer does not arrive nobody has the token.
SignIn(tab) ==
    LET d == DeviceOf[tab] IN
    \E o \in Ops :
        /\ Opens(d, o)
        /\ active \/ d \notin Browsers
        /\ ~Waiting(tab)
        /\ at' = [at EXCEPT ![o] = "done"]
        /\ token' = [token EXCEPT ![o] = "live"]
        /\ \/ SetCookie(d, o, NULL) /\ access' = access \cup {tab}
           \/ strays' = strays \cup {o} /\ UNCHANGED <<cookie, access>>
        /\ UNCHANGED <<active, sender, sent, swept>>

Send(tab, first) ==
    \E o \in Ops :
        /\ Opens(DeviceOf[tab], o)
        /\ ~Waiting(tab)
        /\ at' = [at EXCEPT ![o] = first]
        /\ sender' = [sender EXCEPT ![o] = tab]
        /\ sent' = [sent EXCEPT ![o] = cookie[DeviceOf[tab]]]
        /\ UNCHANGED <<token, cookie, access, active, strays, swept>>

\* Fault: a request without a cookie is taken for a refresh.
RefreshAnyway(tab) == Send(tab, "find")

\* A page is loaded, or a request was answered 401; without a cookie the server
\* refuses at once.
Refresh(tab) ==
    /\ cookie[DeviceOf[tab]] # NULL
    /\ Send(tab, "find")

\* The logout of a client without cookies revokes all tokens, as logout-all does.
Logout(tab) ==
    /\ tab \in access
    /\ active
    /\ \/ DeviceOf[tab] \in Browsers /\ Send(tab, "logout")
       \/ Send(tab, "logoutAll")

\* The access token runs out, or the page is loaded anew.
LoseAccess(tab) ==
    /\ tab \in access
    /\ access' = access \ {tab}
    /\ UNCHANGED <<token, cookie, active, request, history>>

\* The cookies are deleted, or the tool's "auth logout" deletes its file; the
\* server is not told.
Forget(d) ==
    /\ cookie[d] # NULL
    /\ InFlightOf(d) = {}
    /\ SetCookie(d, NULL, NULL)
    /\ UNCHANGED <<token, access, active, request, smooth, swept>>

\* The tab is reloaded or the connection breaks; the server goes on.
GiveUp(o) ==
    /\ o \in InFlight
    /\ sender[o] # NULL
    /\ sender' = [sender EXCEPT ![o] = NULL]
    /\ access' = access \ {sender[o]}
    /\ smooth' = smooth \ {device[o]}
    /\ UNCHANGED <<token, cookie, active, at, device, sent, strays, swept>>

-----------------------------------------------------------------------------
(* The server *)

Goto(o, where) ==
    /\ at' = [at EXCEPT ![o] = where]
    /\ UNCHANGED <<cookie, access, active, device, sender, sent, strays>>

\* refreshAccessToken reads the row and checks revokedAt, expiresAt and
\* isActive, in this order.
Find(o) ==
    /\ at[o] = "find"
    /\ Goto(o, CASE token[sent[o]] = "gone"    -> "refused"
                 [] token[sent[o]] = "revoked" -> "reuse"
                 [] token[sent[o]] = "expired" -> "refused"
                 [] token[sent[o]] = "live"    -> IF active THEN "revoke" ELSE "refused")
    /\ UNCHANGED <<token, smooth, swept>>

\* A revoked token is taken for a stolen one.
RevokeAll(o) ==
    /\ at[o] \in {"reuse", "logoutAll"}
    /\ RevokeEverything(o)
    /\ Goto(o, IF at[o] = "reuse" THEN "refused" ELSE "clear")
    /\ UNCHANGED smooth

\* Fault: the old token stays valid.
KeepOld(o) ==
    /\ at[o] = "revoke"
    /\ Goto(o, "create")
    /\ UNCHANGED <<token, smooth, swept>>

\* By id, whatever happened since the row was read; it throws if it is gone.
Revoke(o) ==
    /\ at[o] = "revoke"
    /\ token[sent[o]] # "gone"
    /\ token' = Revoked(sent[o])
    /\ Goto(o, "create")
    /\ UNCHANGED <<smooth, swept>>

Create(o) ==
    /\ at[o] = "create"
    /\ token' = [token EXCEPT ![o] = "live"]
    /\ Goto(o, "granted")
    /\ UNCHANGED <<smooth, swept>>

\* logout: the cookie's token, or all of them if the request had no cookie.
LogoutOne(o) ==
    /\ at[o] = "logout"
    /\ \/ sent[o] = NULL /\ RevokeEverything(o)
       \/ sent[o] # NULL /\ token' = Revoked(sent[o]) /\ UNCHANGED swept
    /\ Goto(o, "clear")
    /\ UNCHANGED smooth

\* A statement throws: the answer is an error.
Fail(o) ==
    /\ at[o] \in {"find", "reuse", "revoke", "create", "logout", "logoutAll"}
    /\ Goto(o, "refused")
    /\ smooth' = smooth \ {device[o]}
    /\ UNCHANGED <<token, swept>>

\* cleanupExpiredTokens, every night.
CleanUp ==
    /\ \E o \in Ops : token[o] \in {"expired", "revoked"}
    /\ token' = [o \in Ops |-> IF token[o] \in {"expired", "revoked"} THEN "gone"
                               ELSE token[o]]
    /\ UNCHANGED <<cookie, access, active, request, history>>

Expire(o) ==
    /\ token[o] = "live"
    /\ token' = [token EXCEPT ![o] = "expired"]
    /\ UNCHANGED <<cookie, access, active, request, history>>

\* An administrator deactivates the account or activates it again.
SetActive ==
    /\ active' = ~active
    /\ UNCHANGED <<token, cookie, access, request, history>>

-----------------------------------------------------------------------------
(* The answers *)

Close(o) ==
    /\ at' = [at EXCEPT ![o] = "done"]
    /\ sender' = [sender EXCEPT ![o] = NULL]
    /\ sent' = [sent EXCEPT ![o] = NULL]
    /\ UNCHANGED <<token, active, device, smooth, swept>>

\* Fault: the answer carries the access token only.
GrantedWithoutCookie(o) ==
    /\ at[o] = "granted"
    /\ sender[o] # NULL
    /\ access' = access \cup {sender[o]}
    /\ Close(o)
    /\ UNCHANGED <<cookie, strays>>

\* The new refresh token and the access token.
Granted(o) ==
    /\ at[o] = "granted"
    /\ sender[o] # NULL
    /\ SetCookie(device[o], o, sent[o])
    /\ access' = access \cup {sender[o]}
    /\ Close(o)

\* clearCookie; the tab forgets its access token, another client its tokens.
LoggedOut(o) ==
    /\ at[o] = "clear"
    /\ sender[o] # NULL
    /\ SetCookie(device[o], NULL, sent[o])
    /\ access' = access \ {sender[o]}
    /\ Close(o)

\* An error, which leaves the cookie alone; the tab forgets its access token.
Refused(o) ==
    /\ at[o] = "refused"
    /\ sender[o] # NULL
    /\ access' = access \ {sender[o]}
    /\ Close(o)
    /\ UNCHANGED <<cookie, strays>>

\* Nobody waits for the answer any more.
Unheard(o) ==
    /\ at[o] \in {"granted", "clear", "refused"}
    /\ sender[o] = NULL
    /\ strays' = IF at[o] = "granted" THEN strays \cup {o} ELSE strays
    /\ Close(o)
    /\ UNCHANGED <<cookie, access>>

Next ==
    \/ \E tab \in Tabs : SignIn(tab) \/ Refresh(tab) \/ Logout(tab) \/ LoseAccess(tab)
    \/ \E d \in Devices : Forget(d)
    \/ \E o \in Ops : GiveUp(o)
    \/ \E o \in Ops : Find(o) \/ RevokeAll(o) \/ Revoke(o) \/ Create(o)
                      \/ LogoutOne(o) \/ Fail(o) \/ Expire(o)
    \/ CleanUp
    \/ SetActive
    \/ \E o \in Ops : Granted(o) \/ LoggedOut(o) \/ Refused(o) \/ Unheard(o)

Spec == Init /\ [][Next]_vars

-----------------------------------------------------------------------------
(* Properties *)

\* A device holds tokens that were issued to it, and a request that works on a
\* token was sent with one of its device.
TypeOK ==
    /\ token \in [Ops -> {"none", "live", "revoked", "expired", "gone"}]
    /\ cookie \in [Devices -> Issued \cup {NULL}]
    /\ \A d \in Devices : cookie[d] # NULL => device[cookie[d]] = d
    /\ access \subseteq Tabs
    /\ active \in BOOLEAN
    /\ at \in [Ops -> {"unused", "find", "reuse", "revoke", "create", "granted",
                       "logout", "logoutAll", "clear", "refused", "done"}]
    /\ device \in [Ops -> Devices \cup {NULL}]
    /\ \A o \in Ops : at[o] # "unused" => device[o] # NULL
    /\ sender \in [Ops -> Tabs \cup {NULL}]
    /\ \A o \in Ops : sender[o] # NULL => device[o] = DeviceOf[sender[o]]
    /\ sent \in [Ops -> Issued \cup {NULL}]
    /\ \A o \in Ops : sent[o] # NULL => device[sent[o]] = device[o]
    /\ \A o \in Ops : at[o] \in {"find", "reuse", "revoke", "create", "granted"}
                        => sent[o] \in Issued
    /\ smooth \subseteq Devices
    /\ strays \subseteq Issued
    /\ swept \subseteq Issued

\* A device whose requests take turns, succeed and are answered is not taken for
\* a thief on its own account: a refresh of it finds its token revoked, or the
\* token it is left with is revoked, only if another device of the user revoked
\* all tokens since, by logging out everywhere, by logging out without a cookie
\* or by an alarm of its own.  Two tabs that refresh at once, an answer nobody
\* heard or a creation that fails after the revocation each break this.
NoFalseAlarm ==
    \A d \in smooth :
        /\ \A o \in InFlightOf(d) : at[o] = "reuse" => sent[o] \in swept
        /\ (InFlightOf(d) = {} /\ cookie[d] # NULL)
              => (token[cookie[d]] = "revoked" => cookie[d] \in swept)

\* Whatever overlaps, fails or is lost, on whichever devices, a token that can
\* still be used is the one some device holds or on its way there, except for
\* those a device never received, forgot or overwrote out of turn: rotation,
\* logout and reuse leave no other behind.
OnlyTheCookieIsLive ==
    Live \subseteq {cookie[d] : d \in Devices} \cup {o \in Ops : at[o] = "granted"}
                   \cup strays
=============================================================================
