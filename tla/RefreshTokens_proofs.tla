------------------------- MODULE RefreshTokens_proofs -------------------------
(***************************************************************************)
(* For any devices, tabs and requests: the types hold, no token that can   *)
(* still be used is left behind by rotation, logout or reuse, and a device *)
(* whose requests take turns, succeed and are answered finds its token     *)
(* revoked only if another device revoked all of them.                     *)
(***************************************************************************)
EXTENDS RefreshTokens, TLAPS

\* A request issues its token last of all, and then answers.
IssuedLast ==
    \A o \in Ops :
        /\ token[o] # "none" => at[o] \in {"granted", "done"}
        /\ at[o] = "granted" => token[o] # "none"

\* The token that a request came with is spent before the answer is on its way.
SpentFirst ==
    \A o \in Ops :
        at[o] \in {"create", "granted", "clear"} /\ sent[o] # NULL
            => token[sent[o]] # "live"

\* Nobody waits for a request that was not made.
Unmade == \A o \in Ops : at[o] = "unused" => sender[o] = NULL /\ sent[o] = NULL

IInv == TypeOK /\ IssuedLast /\ Unmade /\ SpentFirst /\ OnlyTheCookieIsLive

\* Nothing has been issued at first.
LEMMA InitIInv == Init => IInv
BY SessionAssumption
DEF Init, IInv, TypeOK, IssuedLast, Unmade, SpentFirst, OnlyTheCookieIsLive, Ops, Issued, Live

\* A step of any kind keeps the invariant.
LEMMA StepIInv == IInv /\ [Next]_vars => IInv'
<1> USE SessionAssumption
<1> SUFFICES ASSUME IInv, [Next]_vars PROVE IInv'
  OBVIOUS
<1>0. NULL \notin Ops
  BY DEF Ops
<1> USE <1>0 DEF IInv, TypeOK, IssuedLast, Unmade, SpentFirst, OnlyTheCookieIsLive, Issued, Live
<1>1. ASSUME NEW tab \in Tabs, SignIn(tab) PROVE IInv'
  <2>1. DeviceOf[tab] \in Devices
    OBVIOUS
  <2>2. PICK o \in Ops :
          /\ Opens(DeviceOf[tab], o)
          /\ at' = [at EXCEPT ![o] = "done"]
          /\ token' = [token EXCEPT ![o] = "live"]
          /\ \/ SetCookie(DeviceOf[tab], o, NULL) /\ access' = access \cup {tab}
             \/ strays' = strays \cup {o} /\ UNCHANGED <<cookie, access>>
          /\ UNCHANGED <<active, sender, sent, swept>>
    BY <1>1 DEF SignIn
  <2>3. at[o] = "unused" /\ token[o] = "none"
    BY <2>2 DEF Opens, Fresh
  <2>4. CASE SetCookie(DeviceOf[tab], o, NULL) /\ access' = access \cup {tab}
    BY <2>1, <2>2, <2>3, <2>4 DEF SetCookie, Opens
  <2>5. CASE strays' = strays \cup {o} /\ UNCHANGED <<cookie, access>>
    BY <2>1, <2>2, <2>3, <2>5 DEF Opens
  <2> QED
    BY <2>2, <2>4, <2>5
<1>2. ASSUME NEW tab \in Tabs, Refresh(tab) PROVE IInv'
  BY <1>2 DEF Refresh, Send, Opens, Fresh
<1>3. ASSUME NEW tab \in Tabs, Logout(tab) PROVE IInv'
  <2>1. CASE Send(tab, "logout")
    BY <2>1 DEF Send, Opens, Fresh
  <2>2. CASE Send(tab, "logoutAll")
    BY <2>2 DEF Send, Opens, Fresh
  <2> QED
    BY <1>3, <2>1, <2>2 DEF Logout
<1>4. ASSUME NEW tab \in Tabs, LoseAccess(tab) PROVE IInv'
  BY <1>4 DEF LoseAccess, request, history
<1>5. ASSUME NEW o \in Ops, GiveUp(o) PROVE IInv'
  BY <1>5 DEF GiveUp
<1>6. ASSUME NEW o \in Ops, Find(o) PROVE IInv'
  BY <1>6 DEF Find, Goto
<1>7. ASSUME NEW o \in Ops, RevokeAll(o) PROVE IInv'
  BY <1>7 DEF RevokeAll, RevokeEverything, Goto
<1>8. ASSUME NEW o \in Ops, Revoke(o) PROVE IInv'
  BY <1>8 DEF Revoke, Revoked, Goto
<1>9. ASSUME NEW o \in Ops, Create(o) PROVE IInv'
  BY <1>9 DEF Create, Goto
<1>10. ASSUME NEW o \in Ops, LogoutOne(o) PROVE IInv'
  BY <1>10 DEF LogoutOne, RevokeEverything, Revoked, Goto
<1>11. ASSUME NEW o \in Ops, Fail(o) PROVE IInv'
  BY <1>11 DEF Fail, Goto
<1>12. CASE CleanUp
  BY <1>12 DEF CleanUp, request, history
<1>13. ASSUME NEW o \in Ops, Expire(o) PROVE IInv'
  BY <1>13 DEF Expire, request, history
<1>14. CASE SetActive
  BY <1>14 DEF SetActive, request, history
<1>15. ASSUME NEW o \in Ops, Granted(o) PROVE IInv'
  BY <1>15 DEF Granted, SetCookie, Close
<1>16. ASSUME NEW o \in Ops, LoggedOut(o) PROVE IInv'
  BY <1>16 DEF LoggedOut, SetCookie, Close
<1>17. ASSUME NEW o \in Ops, Refused(o) PROVE IInv'
  BY <1>17 DEF Refused, Close
<1>18. ASSUME NEW o \in Ops, Unheard(o) PROVE IInv'
  BY <1>18 DEF Unheard, Close
<1>19. ASSUME NEW d \in Devices, Forget(d) PROVE IInv'
  BY <1>19 DEF Forget, SetCookie, request
<1>20. CASE UNCHANGED vars
  BY <1>20 DEF vars, request, history
<1> QED
  BY <1>1, <1>2, <1>3, <1>4, <1>5, <1>6, <1>7, <1>8, <1>9, <1>10, <1>11, <1>12,
     <1>13, <1>14, <1>15, <1>16, <1>17, <1>18, <1>19, <1>20 DEF Next

\* The rows, the devices' tokens and the requests fit, for any number of each.
THEOREM Typing == Spec => []TypeOK
BY InitIInv, StepIInv, PTL DEF Spec, IInv

\* Every usable token is held by a device or on its way there, or was lost by
\* one, however many devices and tabs there are.
THEOREM NoTokenLeftBehind == Spec => []OnlyTheCookieIsLive
BY InitIInv, StepIInv, PTL DEF Spec, IInv

-----------------------------------------------------------------------------
(* No false alarm *)

\* While all goes smoothly on a device, one request of it at most is under way,
\* its tab waits and it came with the device's token; and apart from that
\* request only another device may have revoked this token or its successor.
AllIsWell(d) ==
    /\ \A o \in InFlightOf(d) : sender[o] # NULL /\ sent[o] = cookie[d]
    /\ \A o, p \in InFlightOf(d) : o = p
    /\ \A o \in InFlightOf(d) : at[o] = "reuse" => sent[o] \in swept
    /\ \A o \in InFlightOf(d) : at[o] = "granted" /\ token[o] = "revoked" => o \in swept
    /\ (/\ \A o \in InFlightOf(d) : at[o] \notin {"create", "granted", "clear"}
        /\ cookie[d] # NULL /\ token[cookie[d]] = "revoked")
         => cookie[d] \in swept

\* A step after which a device is still smooth keeps it so, whichever device
\* takes it.
LEMMA StepAllIsWell ==
    ASSUME IInv, [Next]_vars, NEW d \in Devices, d \in smooth', d \in smooth => AllIsWell(d)
    PROVE  d \in smooth /\ AllIsWell(d)'
<1> USE SessionAssumption
<1>0. NULL \notin Ops
  BY DEF Ops
<1> USE <1>0 DEF IInv, TypeOK, AllIsWell, InFlight, InFlightOf, Issued
<1> DEFINE Goal == d \in smooth /\ AllIsWell(d)'
<1>1. ASSUME NEW tab \in Tabs, SignIn(tab) PROVE Goal
  <2>1. PICK o \in Ops :
          /\ at[o] = "unused" /\ at' = [at EXCEPT ![o] = "done"]
          /\ token' = [token EXCEPT ![o] = "live"]
          /\ device' = [device EXCEPT ![o] = DeviceOf[tab]]
          /\ smooth' = IF InFlightOf(DeviceOf[tab]) = {} THEN smooth
                       ELSE smooth \ {DeviceOf[tab]}
          /\ \/ cookie' = [cookie EXCEPT ![DeviceOf[tab]] = o]
             \/ cookie' = cookie
    BY <1>1 DEF SignIn, SetCookie, Opens, Fresh
  <2>2. UNCHANGED <<sender, sent, swept>>
    BY <1>1 DEF SignIn
  <2>3. DeviceOf[tab] = d => InFlightOf(d) = {}
    BY <2>1
  <2> QED
    BY <2>1, <2>2, <2>3
<1>2. ASSUME NEW tab \in Tabs, NEW first \in {"find", "logout", "logoutAll"},
             Send(tab, first)
      PROVE  Goal
  <2>1. PICK o \in Ops :
          /\ at[o] = "unused" /\ at' = [at EXCEPT ![o] = first]
          /\ device' = [device EXCEPT ![o] = DeviceOf[tab]]
          /\ sender' = [sender EXCEPT ![o] = tab]
          /\ sent' = [sent EXCEPT ![o] = cookie[DeviceOf[tab]]]
          /\ smooth' = IF InFlightOf(DeviceOf[tab]) = {} THEN smooth
                       ELSE smooth \ {DeviceOf[tab]}
    BY <1>2 DEF Send, Opens, Fresh
  <2>2. UNCHANGED <<token, cookie, swept>>
    BY <1>2 DEF Send
  <2>3. DeviceOf[tab] = d => InFlightOf(d) = {}
    BY <2>1
  <2> QED
    BY <2>1, <2>2, <2>3
<1>3. ASSUME NEW tab \in Tabs, Refresh(tab) \/ Logout(tab) PROVE Goal
  BY <1>2, <1>3 DEF Refresh, Logout
<1>4. ASSUME NEW tab \in Tabs, LoseAccess(tab) PROVE Goal
  BY <1>4 DEF LoseAccess, request, history
<1>5. ASSUME NEW o \in Ops, GiveUp(o) PROVE Goal
  BY <1>5 DEF GiveUp
<1>6. ASSUME NEW o \in Ops, Find(o) PROVE Goal
  BY <1>6 DEF Find, Goto
<1>7. ASSUME NEW o \in Ops, RevokeAll(o) PROVE Goal
  BY <1>7 DEF RevokeAll, RevokeEverything, Goto
<1>8. ASSUME NEW o \in Ops, Revoke(o) PROVE Goal
  BY <1>8 DEF Revoke, Revoked, Goto
<1>9. ASSUME NEW o \in Ops, Create(o) PROVE Goal
  BY <1>9 DEF Create, Goto, IssuedLast
<1>10. ASSUME NEW o \in Ops, LogoutOne(o) PROVE Goal
  BY <1>10 DEF LogoutOne, RevokeEverything, Revoked, Goto
<1>11. ASSUME NEW o \in Ops, Fail(o) PROVE Goal
  BY <1>11 DEF Fail, Goto
<1>12. CASE CleanUp
  BY <1>12 DEF CleanUp, request, history
<1>13. ASSUME NEW o \in Ops, Expire(o) PROVE Goal
  BY <1>13 DEF Expire, request, history
<1>14. CASE SetActive
  BY <1>14 DEF SetActive, request, history
<1>15. ASSUME NEW o \in Ops, Granted(o) PROVE Goal
  BY <1>15 DEF Granted, SetCookie, Close
<1>16. ASSUME NEW o \in Ops, LoggedOut(o) PROVE Goal
  BY <1>16 DEF LoggedOut, SetCookie, Close
<1>17. ASSUME NEW o \in Ops, Refused(o) PROVE Goal
  BY <1>17 DEF Refused, Close
<1>18. ASSUME NEW o \in Ops, Unheard(o) PROVE Goal
  BY <1>18 DEF Unheard, Close
<1>19. ASSUME NEW e \in Devices, Forget(e) PROVE Goal
  BY <1>19 DEF Forget, SetCookie, request
<1>20. CASE UNCHANGED vars
  BY <1>20 DEF vars, request, history
<1> QED
  BY <1>1, <1>3, <1>4, <1>5, <1>6, <1>7, <1>8, <1>9, <1>10, <1>11, <1>12,
     <1>13, <1>14, <1>15, <1>16, <1>17, <1>18, <1>19, <1>20 DEF Next

\* auth.service.ts refreshAccessToken: as long as the requests of a device take
\* turns, succeed and are answered, a refresh of it finds its token revoked only
\* if another device revoked all tokens, for any number of devices and tabs.
THEOREM NeverAFalseAlarm == Spec => []NoFalseAlarm
<1> DEFINE Well == \A d \in Devices : d \in smooth => AllIsWell(d)
<1>1. Init => Well
  BY SessionAssumption DEF Init, AllIsWell, InFlight, InFlightOf, Ops
<1>2. IInv /\ Well /\ [Next]_vars => Well'
  BY StepAllIsWell
<1>3. IInv /\ Well => NoFalseAlarm
  BY DEF IInv, TypeOK, AllIsWell, NoFalseAlarm
<1> QED
  BY <1>1, <1>2, <1>3, InitIInv, StepIInv, PTL DEF Spec
=============================================================================
