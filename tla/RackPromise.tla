---------------------------- MODULE RackPromise ----------------------------
(***************************************************************************)
(* What a PayloadRack promises to the two parties that use it (src/route.go *)
(* lines 36-46): it keeps one payload and hands that payload on once, either *)
(* to those that released it or to the failure handler, never to both.       *)
(***************************************************************************)
CONSTANTS Payloads,  \* the payloads a rack may be loaded with
          None       \* no payload

VARIABLES kept,      \* the payload the rack keeps, None before it is loaded
          done,      \* what the done action was fulfilled with
          fail       \* what the fail action was fulfilled with

promiseVars == <<kept, done, fail>>

Init == kept = None /\ done = None /\ fail = None

\* Only the first payload is kept.
Keep(b) ==
    /\ kept = None
    /\ kept' = b
    /\ UNCHANGED <<done, fail>>

Open == kept # None /\ done = None /\ fail = None

\* The payload was released in time.
Resolve ==
    /\ Open
    /\ done' = kept
    /\ UNCHANGED <<kept, fail>>

\* The payload was not released in time.
Reject ==
    /\ Open
    /\ fail' = kept
    /\ UNCHANGED <<kept, done>>

Next == (\E b \in Payloads : Keep(b)) \/ Resolve \/ Reject

Safety == Init /\ [][Next]_promiseVars

Spec == Safety /\ WF_promiseVars(Resolve \/ Reject)
============================================================================
