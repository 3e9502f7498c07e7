-------------------------- MODULE SessionManager --------------------------
(***************************************************************************)
(* The session manager of a proxy protocol (src/formats.go lines 85-105 and  *)
(* 165-194), used by authentication callbacks and channel managers of many   *)
(* connections at once.  Each operation on the flux.SecureMap holds its lock; *)
(* a DestroySession is three steps with the map free in between.  A proxied  *)
(* channel takes a session from the map and closes it when its copies end,   *)
(* without removing it (src/sshprotocol.go lines 128 and 278).               *)
(*                                                                           *)
(* The connections of SSHServer use it; what both modules would name alike   *)
(* has the prefix Manager here, so that one module can extend both.          *)
(***************************************************************************)
CONSTANTS Addrs, Sessions,
          Destroyers,  \* goroutines, each in one call of DestroySession
          Proxies,     \* proxied channels
          NoSession    \* no session

ASSUME ManagerAssumption == NoSession \notin Sessions

VARIABLES sessions,  \* sessions[a]: the session stored under address a
          added,     \* sessions AddSession was called with
          removed,   \* sessions that a DestroySession took out of the map
          late,      \* those stored between the steps of a DestroySession
          pc,        \* pc[g]: where destroyer g is
          addr,      \* addr[g]: the address g was called with
          sh,        \* sh[g]: the session g has found
          held,      \* held[p]: the session proxied channel p uses
          closedBy   \* closedBy[s]: who has called Close on s

managerVars == <<sessions, added, removed, late, pc, addr, sh, held, closedBy>>

ManagerInit ==
    /\ sessions = [a \in Addrs |-> NoSession]
    /\ added = {} /\ removed = {} /\ late = {}
    /\ pc = [g \in Destroyers |-> "idle"]
    /\ addr \in [Destroyers -> Addrs]
    /\ sh = [g \in Destroyers |-> NoSession]
    /\ held = [p \in Proxies |-> NoSession]
    /\ closedBy = [s \in Sessions |-> {}]

Closes(who, s) == closedBy' = [closedBy EXCEPT ![s] = @ \cup {who}]

\* A callback stores a new session, over the one the address has.
AddSession(a, s) ==
    /\ s \notin added
    /\ added' = added \cup {s}
    /\ sessions' = [sessions EXCEPT ![a] = s]
    /\ late' = IF \E g \in Destroyers : pc[g] = "remove" /\ addr[g] = a
               THEN late \cup {s} ELSE late
    /\ UNCHANGED <<removed, pc, addr, sh, held, closedBy>>

GetSession(a) == sessions[a]

\* Bug: the session is closed where it is found, before it leaves the map.
DestroyGetAndClose(g) ==
    /\ pc[g] = "idle"
    /\ sh' = [sh EXCEPT ![g] = GetSession(addr[g])]
    /\ pc' = [pc EXCEPT ![g] = IF sh'[g] = NoSession THEN "returned" ELSE "remove"]
    /\ Closes("destroyer", sh'[g])
    /\ UNCHANGED <<sessions, added, removed, late, addr, held>>

DestroyGet(g) ==
    /\ pc[g] = "idle"
    /\ sh' = [sh EXCEPT ![g] = GetSession(addr[g])]
    /\ pc' = [pc EXCEPT ![g] = IF sh'[g] = NoSession THEN "returned" ELSE "remove"]
    /\ UNCHANGED <<sessions, added, removed, late, addr, held, closedBy>>

\* Bug: a missing session is taken for one that was removed.
RemoveNothing(g) ==
    /\ pc[g] = "remove"
    /\ sessions' = [sessions EXCEPT ![addr[g]] = NoSession]
    /\ removed' = removed \cup {sessions[addr[g]]}
    /\ pc' = [pc EXCEPT ![g] = "close"]
    /\ UNCHANGED <<added, late, addr, sh, held, closedBy>>

\* Whatever the address has by now is taken out.
DestroyRemove(g) ==
    /\ pc[g] = "remove"
    /\ sessions' = [sessions EXCEPT ![addr[g]] = NoSession]
    /\ removed' = removed \cup ({sessions[addr[g]]} \ {NoSession})
    /\ pc' = [pc EXCEPT ![g] = "close"]
    /\ UNCHANGED <<added, late, addr, sh, held, closedBy>>

\* Bug: a session is closed only if its address has no new one.
CloseUnlessReplaced(g) ==
    /\ pc[g] = "close"
    /\ IF sessions[addr[g]] = NoSession THEN Closes("destroyer", sh[g])
                                         ELSE UNCHANGED closedBy
    /\ pc' = [pc EXCEPT ![g] = "returned"]
    /\ UNCHANGED <<sessions, added, removed, late, addr, sh, held>>

\* The deferred sh.Close().
DestroyClose(g) ==
    /\ pc[g] = "close"
    /\ Closes("destroyer", sh[g])
    /\ pc' = [pc EXCEPT ![g] = "returned"]
    /\ UNCHANGED <<sessions, added, removed, late, addr, sh, held>>

Destroy(g) == DestroyGet(g) \/ DestroyRemove(g) \/ DestroyClose(g)

\* NetworkOpen of a proxied channel: without a session it goes no further.
ProxyGet(p, a) ==
    /\ held[p] = NoSession
    /\ held' = [held EXCEPT ![p] = GetSession(a)]
    /\ UNCHANGED <<sessions, added, removed, late, pc, addr, sh, closedBy>>

\* Its copies have ended; the session stays where it is in the map.
ProxyClose(p) ==
    /\ held[p] # NoSession
    /\ Closes("proxy", held[p])
    /\ held' = [held EXCEPT ![p] = NoSession]
    /\ UNCHANGED <<sessions, added, removed, late, pc, addr, sh>>

ManagerNext ==
    \/ \E a \in Addrs, s \in Sessions : AddSession(a, s)
    \/ \E g \in Destroyers : Destroy(g)
    \/ \E p \in Proxies : (\E a \in Addrs : ProxyGet(p, a)) \/ ProxyClose(p)

ManagerSpec == ManagerInit /\ [][ManagerNext]_managerVars
----------------------------------------------------------------------------
ManagerTypeOK ==
    /\ sessions \in [Addrs -> Sessions \cup {NoSession}]
    /\ added \subseteq Sessions /\ removed \subseteq Sessions /\ late \subseteq added
    /\ pc \in [Destroyers -> {"idle", "remove", "close", "returned"}]
    /\ addr \in [Destroyers -> Addrs]
    /\ sh \in [Destroyers -> Sessions \cup {NoSession}]
    /\ held \in [Proxies -> Sessions \cup {NoSession}]
    /\ closedBy \in [Sessions -> SUBSET {"destroyer", "proxy"}]

\* GetSession never hands out a session that a DestroySession had closed before:
\* every destroyer removes before its deferred Close (lines 192-193).  Of one
\* that a proxied channel has closed this cannot be said.
MapHoldsNoDestroyed ==
    \A a \in Addrs : sessions[a] # NoSession => "destroyer" \notin closedBy[sessions[a]]

\* What a DestroySession takes out of the map a destroyer closes, or is about
\* to, except a session that was stored between its two reads of the map (lines
\* 188-193).
RemovedIsClosed ==
    \A s \in removed \ late :
        \/ "destroyer" \in closedBy[s]
        \/ \E g \in Destroyers : sh[g] = s /\ pc[g] \in {"remove", "close"}
============================================================================
