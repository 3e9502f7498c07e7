--------------------------- MODULE RouteDispatch ---------------------------
(***************************************************************************)
(* How a request travels through a finished tree of routes (src/route.go     *)
(* lines 130-162, 260-369 and 399-463).  A request emitted on the base       *)
(* socket of a route is wrapped in a PayloadRack, matched against the        *)
(* pattern of the route, and emitted on Valid or Invalid; the routes made    *)
(* with FromRoute listen to Valid, those made with InvertRoute to Invalid.   *)
(*                                                                           *)
(* The flux sockets are external.  The model does not fix the order in which *)
(* they run their listeners: what has been emitted and not yet handled is a  *)
(* set, from which any element may come next.                                *)
(***************************************************************************)
EXTENDS Naturals, Sequences, FiniteSets

CONSTANTS Routes, Root,
          From,      \* From[r]: the route that r # Root was made from
          Inverted,  \* the routes made with InvertRoute, not FromRoute
          Segments,  \* path segments
          Accepts,   \* Accepts[r]: the segments r.Pattern validates
          Requests,
          PathOf,    \* PathOf[q]: the segments of the path of request q
          MadeWith,  \* MadeWith[r]: the fail handler r was made with, or None
          Handlers,  \* handlers that PatchRoute may be called with
          None

ASSUME DispatchAssumption ==
    /\ Root \in Routes
    /\ From \in [Routes \ {Root} -> Routes]
    /\ Inverted \subseteq Routes \ {Root}
    /\ PathOf \in [Requests -> Seq(Segments) \ {<<>>}]
    /\ MadeWith \in [Routes -> Handlers \cup {None}]
    /\ None \notin Handlers

\* The routes from the root down to r.
Line[r \in Routes] == IF r = Root THEN <<Root>> ELSE Append(Line[From[r]], r)

\* The routes are a tree: each was made from one that existed by then, and so has
\* a line of finite length to the root.
ASSUME LineAssumption ==
    /\ Line \in [Routes -> Seq(Routes)]
    /\ Line[Root] = <<Root>>
    /\ \A r \in Routes \ {Root} : Line[r] = Append(Line[From[r]], r)

VARIABLES fail,      \* fail[r]: the field r.fail
          served,    \* the requests given to Serve
          guarded,   \* those of them given to Serve when fail[Root] was set
          emitted,   \* emissions on base sockets that are not handled yet
          racks,     \* racks[o]: {h} when the Payload of object o is a rack
                     \* with fail handler h, {} when it is the plain payload
          wraps,     \* wraps[q]: how many racks the payload of q was put in
          valid,     \* valid[q][r]: emissions of q on r.Valid
          invalid,   \* invalid[q][r]: emissions of q on r.Invalid
          bare       \* the <<q, r>> with q on r.Valid outside of a rack

vars == <<fail, served, guarded, emitted, racks, wraps, valid, invalid, bare>>

\* A Request object: request q as made by NewRequest (by = Root), or by
\* FromRequest in the base socket of route by.
Objects == [req : Requests, by : Routes]

\* An emission: the object, the rest of the path in it, and the route whose
\* base socket carries it.
Emission(o, path, r) == [obj |-> o, path |-> path, to |-> r]

Init ==
    /\ fail = MadeWith
    /\ served = {}
    /\ guarded = {}
    /\ emitted = {}
    /\ racks = [o \in Objects |-> {}]
    /\ wraps = [q \in Requests |-> 0]
    /\ valid = [q \in Requests |-> [r \in Routes |-> 0]]
    /\ invalid = [q \in Requests |-> [r \in Routes |-> 0]]
    /\ bare = {}

\* PatchRoute sets the handler of a route that has none.
PatchRoute(r, h) ==
    /\ fail[r] = None
    /\ fail' = [fail EXCEPT ![r] = h]
    /\ UNCHANGED <<served, guarded, emitted, racks, wraps, valid, invalid, bare>>

\* Serve makes the request and emits it on the base socket of the root.
Serve(q) ==
    /\ q \notin served
    /\ served' = served \cup {q}
    /\ guarded' = IF fail[Root] = None THEN guarded ELSE guarded \cup {q}
    /\ emitted' = emitted \cup {Emission([req |-> q, by |-> Root], PathOf[q], Root)}
    /\ UNCHANGED <<fail, racks, wraps, valid, invalid, bare>>

Children(r) == {c \in Routes \ ({Root} \cup Inverted) : From[c] = r}
Diverts(r)  == {c \in Inverted : From[c] = r}

\* Bug: the first segment is cut off even when it is the last one.
CutAlways(e, c) == {Emission([e.obj EXCEPT !.by = c], Tail(e.path), c)}

\* Bug: a request with one segment left is not handed to the child at all.
CutLast(e, c) ==
    IF Len(e.path) <= 1
    THEN {}
    ELSE {Emission([e.obj EXCEPT !.by = c], Tail(e.path), c)}

\* FromRequest, in the base socket of child c: an object with the first segment
\* cut off, or the object itself when that segment is its last.
FromRequest(e, c) ==
    IF Len(e.path) <= 1
    THEN {Emission(e.obj, e.path, c)}
    ELSE {Emission([e.obj EXCEPT !.by = c], Tail(e.path), c)}

Matches(e) == Head(e.path) \in Accepts[e.to]

\* Where the request goes from the route it was emitted to.
NextHops(e) ==
    IF Matches(e)
    THEN UNION {FromRequest(e, c) : c \in Children(e.to)}
    ELSE {Emission(e.obj, e.path, c) : c \in Diverts(e.to)}

\* The payload is put in a rack when r.fail is set and it is not in one yet.
NeedsRack(e) == fail[e.to] # None /\ racks[e.obj] = {}

\* Bug: the objects made for the children keep the plain payload.
RackedAlone(e) ==
    IF NeedsRack(e) THEN [racks EXCEPT ![e.obj] = {MadeWith[e.to]}] ELSE racks

\* The racks after the handler of e: the new rack has the fail handler RawRoute
\* was called with, not the one of PatchRoute, and the objects made for the
\* children share the Payload.
Racked(e) ==
    LET own == IF NeedsRack(e) THEN {MadeWith[e.to]} ELSE racks[e.obj]
    IN [o \in Objects |->
          IF o = e.obj \/ \E x \in NextHops(e) : x.obj = o THEN own ELSE racks[o]]

\* The handler of r.Valid runs for one emission on the base socket of r.
Validate(e) ==
    LET q == e.obj.req IN
    /\ e \in emitted
    /\ racks' = Racked(e)
    /\ wraps' = IF NeedsRack(e) THEN [wraps EXCEPT ![q] = @ + 1] ELSE wraps
    /\ IF Matches(e)
       THEN /\ valid' = [valid EXCEPT ![q][e.to] = @ + 1]
            /\ bare' = IF racks'[e.obj] = {} THEN bare \cup {<<q, e.to>>} ELSE bare
            /\ UNCHANGED invalid
       ELSE /\ invalid' = [invalid EXCEPT ![q][e.to] = @ + 1]
            /\ UNCHANGED <<valid, bare>>
    /\ emitted' = (emitted \ {e}) \cup NextHops(e)
    /\ UNCHANGED <<fail, served, guarded>>

Next ==
    \/ \E r \in Routes, h \in Handlers : PatchRoute(r, h)
    \/ \E q \in Requests : Serve(q)
    \/ \E e \in emitted : Validate(e)

Spec == Init /\ [][Next]_vars
----------------------------------------------------------------------------
TypeOK ==
    /\ fail \in [Routes -> Handlers \cup {None}]
    /\ guarded \subseteq served /\ served \subseteq Requests
    /\ \A e \in emitted :
         /\ e.obj \in Objects /\ e.to \in Routes
         /\ Len(e.path) \in 1 .. Len(PathOf[e.obj.req])
    /\ \A o \in Objects : racks[o] \subseteq Handlers \cup {None}
    /\ bare \subseteq Requests \X Routes

\* The level of r: a route made with InvertRoute stands beside its origin.
Level(r) == 1 + Cardinality({i \in 2 .. Len(Line[r]) : Line[r][i] \notin Inverted})

\* The place in the path of q of the segment that r judges.  FromRequest never cuts
\* off the last one: on a path shorter than the tree the routes below it all judge
\* that segment, also when the route above has matched it already.
Judged(q, r) == IF Level(r) <= Len(PathOf[q]) THEN Level(r) ELSE Len(PathOf[q])

SegmentFor(q, r) == PathOf[q][Judged(q, r)]

Accepted(q, r) == SegmentFor(q, r) \in Accepts[r]

\* Every route above r passes q on towards r.
Reaches(q, r) ==
    \A i \in 1 .. Len(Line[r]) - 1 :
        Accepted(q, Line[r][i]) <=> Line[r][i + 1] \notin Inverted

Settled(q) == q \in served /\ \A e \in emitted : e.obj.req # q

Once(b) == IF b THEN 1 ELSE 0

\* The recursive hand-over from socket to socket delivers a request to the
\* subscribers of exactly the routes whose line of patterns it matches, once each
\* and in any order of the listeners; a route made with InvertRoute gets what its
\* origin has rejected.  It does not say on which Invalid socket a rejection is
\* reported: each route has its own (line 411), against lines 306-307, by which a
\* child gets the one of its parent.
DeliveredWhereMatched ==
    \A q \in Requests : Settled(q) =>
        \A r \in Routes : valid[q][r] = Once(Reaches(q, r) /\ Accepted(q, r))

\* The payload of a request that enters a route with a fail handler is put in
\* one rack, however many routes below it handle the request, and reaches every
\* subscriber in it (lines 334-352): the SSH behaviours drop a request without a
\* rack silently, and its sender waits for a reply.  It does not say with which
\* handler: the rack has the one its route was made with.
OneRack ==
    /\ \A q \in guarded : wraps[q] <= 1
    /\ \A x \in bare : x[1] \notin guarded
============================================================================
