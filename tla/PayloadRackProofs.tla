------------------------- MODULE PayloadRackProofs -------------------------
(***************************************************************************)
(* PayloadRack settles once, for any number of goroutines in Load and in     *)
(* Release and any payloads.  SettledOnce alone is not inductive: a state    *)
(* with two receivers holding the payload satisfies it and leads to one that *)
(* does not.  RackInv adds that the payload is in one place: with the sender, *)
(* in the hands of one receiver, or in one of the two actions.               *)
(***************************************************************************)
EXTENDS PayloadRack, TLAPS

Unsent == sender \in {"off", "start", "send"}

Holds(r) == recv[r] = "holding"

\* Nothing has been fulfilled.
Pending == done = None /\ fail = None

RackInv ==
    /\ TypeOK
    /\ sender = "off" <=> boxed = None
    /\ Unsent => Pending /\ \A r \in Receivers : ~Holds(r)
    /\ \A r \in Receivers : Holds(r) => Pending /\ held[r] = boxed
    /\ \A r, s \in Receivers : Holds(r) /\ Holds(s) => r = s
    /\ SettledOnce
    /\ SettledWithBoxed
    /\ ImmediateNeverFails

LEMMA InitRackInv == Init => RackInv
BY RackAssumption
   DEF Init, RackInv, TypeOK, SenderPC, RecvPC, Receivers, Unsent, Holds,
       Pending, SettledOnce, SettledWithBoxed, ImmediateNeverFails

LEMMA NextRackInv == RackInv /\ [Next]_vars => RackInv'
<1> SUFFICES ASSUME RackInv, [Next]_vars
             PROVE  RackInv'
    OBVIOUS
<1> USE RackAssumption
    DEF RackInv, TypeOK, SenderPC, RecvPC, Receivers, Unsent, Holds, Pending,
        SettledOnce, SettledWithBoxed, ImmediateNeverFails
<1>1. ASSUME NEW l \in Loaders, NEW b \in Payloads, Load(l, b)
      PROVE  RackInv'
    <2>1. CASE boxed = None
        BY <1>1, <2>1 DEF Load, RunOnce
    <2>2. CASE boxed # None
        BY <1>1, <2>2 DEF Load, RunOnce
    <2>3. QED BY <2>1, <2>2
<1>2. CASE StartKeeper
    BY <1>2 DEF StartKeeper, KeeperStart
<1>3. CASE Expire
    BY <1>3 DEF Expire
<1>4. ASSUME NEW r \in Releasers, Release(r)
      PROVE  RackInv'
    BY <1>4 DEF Release
<1>5. ASSUME NEW r \in Receivers, Handover(r)
      PROVE  RackInv'
    BY <1>5 DEF Handover
<1>6. CASE CloseChannel
    BY <1>6 DEF CloseChannel
<1>7. ASSUME NEW r \in Receivers, Drain(r)
      PROVE  RackInv'
    BY <1>7 DEF Drain
<1>8. ASSUME NEW r \in Receivers, Settle(r)
      PROVE  RackInv'
    <2>1. CASE IsTimer(r)
        BY <1>8, <2>1 DEF Settle, IsTimer, Fullfilled
    <2>2. CASE ~IsTimer(r)
        BY <1>8, <2>2 DEF Settle, IsTimer, Fullfilled
    <2>3. QED BY <2>1, <2>2
<1>9. CASE UNCHANGED vars
    BY <1>9 DEF vars
<1>10. QED
    BY <1>1, <1>2, <1>3, <1>4, <1>5, <1>6, <1>7, <1>8, <1>9 DEF Next

\* The inductive invariant holds throughout every run of a rack.
THEOREM RackInvariant == Spec => []RackInv
<1>1. QED BY InitRackInv, NextRackInv, PTL DEF Spec

\* The variables of a rack keep their types (src/route.go lines 41-47).
THEOREM RackTypes == Spec => []TypeOK
<1>1. RackInv => TypeOK
    BY DEF RackInv
<1>2. QED BY <1>1, RackInvariant, PTL

\* A payload is released or reported as failed, never both (lines 56-79).
THEOREM RackSettlesOnce == Spec => []SettledOnce
<1>1. RackInv => SettledOnce
    BY DEF RackInv
<1>2. QED BY <1>1, RackInvariant, PTL

\* What settles is the payload of the Load that ran first (line 51).
THEOREM RackSettlesWithBoxed == Spec => []SettledWithBoxed
<1>1. RackInv => SettledWithBoxed
    BY DEF RackInv
<1>2. QED BY <1>1, RackInvariant, PTL

\* A rack with a negative timeout never fails (lines 39-40, 53-54).
THEOREM RackImmediateNeverFails == Spec => []ImmediateNeverFails
<1>1. RackInv => ImmediateNeverFails
    BY DEF RackInv
<1>2. QED BY <1>1, RackInvariant, PTL
----------------------------------------------------------------------------
(* The refinement of RackPromise.                                            *)

LEMMA InitPromise == Init => Promise!Init
BY DEF Init, Promise!Init

LEMMA StepPromise ==
    RackInv /\ [Next]_vars => [Promise!Next]_(Promise!promiseVars)
<1> SUFFICES ASSUME RackInv, [Next]_vars
             PROVE  [Promise!Next]_(Promise!promiseVars)
    OBVIOUS
<1> USE DEF Promise!promiseVars, RackInv, Holds, Pending
<1>1. ASSUME NEW l \in Loaders, NEW b \in Payloads, Load(l, b)
      PROVE  Promise!Next \/ UNCHANGED Promise!promiseVars
    BY <1>1 DEF Load, RunOnce, Promise!Next, Promise!Keep
<1>2. CASE StartKeeper
    BY <1>2 DEF StartKeeper
<1>3. CASE Expire
    BY <1>3 DEF Expire
<1>4. ASSUME NEW r \in Releasers, Release(r)
      PROVE  UNCHANGED Promise!promiseVars
    BY <1>4 DEF Release
<1>5. ASSUME NEW r \in Receivers, Handover(r)
      PROVE  UNCHANGED Promise!promiseVars
    BY <1>5 DEF Handover
<1>6. CASE CloseChannel
    BY <1>6 DEF CloseChannel
<1>7. ASSUME NEW r \in Receivers, Drain(r)
      PROVE  UNCHANGED Promise!promiseVars
    BY <1>7 DEF Drain
<1>8. ASSUME NEW r \in Receivers, Settle(r)
      PROVE  Promise!Next
    <2>1. Promise!Open /\ held[r] = boxed
        BY <1>8 DEF Settle, Promise!Open, Unsent, TypeOK, SenderPC
    <2>2. CASE IsTimer(r)
        <3>1. Promise!Reject
            BY <1>8, <2>1, <2>2 DEF Settle, Fullfilled, Promise!Reject, Promise!Open
        <3>2. QED BY <3>1 DEF Promise!Next
    <2>3. CASE ~IsTimer(r)
        <3>1. Promise!Resolve
            BY <1>8, <2>1, <2>3 DEF Settle, Fullfilled, Promise!Resolve, Promise!Open
        <3>2. QED BY <3>1 DEF Promise!Next
    <2>4. QED BY <2>2, <2>3
<1>9. CASE UNCHANGED vars
    BY <1>9 DEF vars
<1>10. QED
    BY <1>1, <1>2, <1>3, <1>4, <1>5, <1>6, <1>7, <1>8, <1>9 DEF Next

\* A rack implements the abstract promise: one payload kept, one settlement.
THEOREM RackKeepsPromise == Spec => KeepsPromise
<1>1. QED
    BY InitPromise, StepPromise, RackInvariant, PTL
    DEF Spec, KeepsPromise, Promise!Safety
============================================================================
