------------------------ MODULE RouteDispatchProofs ------------------------
(***************************************************************************)
(* A request gets to the handler of a route exactly when the routes above it *)
(* pass it on, and to the listeners of its routes in one rack, for any tree  *)
(* of routes, any requests and any order of the emissions.                   *)
(*                                                                           *)
(* What is delivered is known only when a request has settled.  DispatchInv  *)
(* says before that where a request is: a handler runs once for it and in    *)
(* the right verdict (VisitsOK), what an emission carries is what its path   *)
(* has left there (EmissionsOK), and a route that the one above has passed a *)
(* request on to has it or has it coming (NothingLost).  SettledVisits then  *)
(* takes the route nearest to the root that would go without: the one above  *)
(* has run its handler, and nothing is on its way.                           *)
(***************************************************************************)
EXTENDS RouteDispatch, SequenceTheorems, FiniteSetTheorems, WellFoundedInduction, TLAPS

\* How often the handler of r has run for q.
Visits(q, r) == valid[q][r] + invalid[q][r]

\* The base socket of r carries q.
Pending(q, r) == \E e \in emitted : e.obj.req = q /\ e.to = r

\* What the path of q has left in route r.
Rest(q, r) == SubSeq(PathOf[q], Judged(q, r), Len(PathOf[q]))

\* The verdict of the route that c was made from sends q to c.
PassedOn(q, c) == Accepted(q, From[c]) <=> c \notin Inverted

\* Each route above r has run its handler for q, or r is the root.
Came(q, r) == r # Root => Visits(q, From[r]) = 1

CountsOK ==
    /\ valid \in [Requests -> [Routes -> Nat]]
    /\ invalid \in [Requests -> [Routes -> Nat]]
    /\ wraps \in [Requests -> Nat]
    /\ racks \in [Objects -> SUBSET (Handlers \cup {None})]

\* An emission is of a request that was served, at a route it reaches and has not
\* been to, with the path that is left there; and there is but one of them.
EmissionsOK ==
    /\ \A e \in emitted :
         /\ e.obj.req \in served
         /\ Reaches(e.obj.req, e.to)
         /\ e.path = Rest(e.obj.req, e.to)
         /\ Visits(e.obj.req, e.to) = 0
         /\ Came(e.obj.req, e.to)
    /\ \A e, f \in emitted : e.obj.req = f.obj.req /\ e.to = f.to => e = f

\* A route runs its handler for a request once, with the right verdict.
VisitsOK ==
    \A q \in Requests, r \in Routes :
        /\ Visits(q, r) \in {0, 1}
        /\ Visits(q, r) = 1 =>
             /\ q \in served
             /\ Reaches(q, r)
             /\ valid[q][r] = Once(Accepted(q, r))
             /\ Came(q, r)

\* No request is lost between a route and those made from it.
NothingLost ==
    /\ \A q \in served : Visits(q, Root) = 1 \/ Pending(q, Root)
    /\ \A q \in Requests, c \in Routes \ {Root} :
         Visits(q, From[c]) = 1 /\ PassedOn(q, c) => Visits(q, c) = 1 \/ Pending(q, c)

\* A guarded request is still at the root, or all that is under way of it is in
\* a rack.
RacksOK ==
    /\ \A q \in Requests \ served : wraps[q] = 0
    /\ \A q \in guarded :
         /\ fail[Root] # None
         /\ \/ wraps[q] = 0 /\ \A e \in emitted : e.obj.req = q => e.to = Root
            \/ wraps[q] <= 1 /\ \A e \in emitted : e.obj.req = q => racks[e.obj] # {}
    /\ \A x \in bare : x[1] \in served \ guarded

DispatchInv == TypeOK /\ CountsOK /\ EmissionsOK /\ VisitsOK /\ NothingLost /\ RacksOK
----------------------------------------------------------------------------
\* The line of a route is the line of the one it was made from, and itself.
LEMMA LineStep ==
    ASSUME NEW c \in Routes \ {Root}
    PROVE  /\ From[c] \in Routes
           /\ Len(Line[c]) = Len(Line[From[c]]) + 1
           /\ \A i \in 1 .. Len(Line[From[c]]) : Line[c][i] = Line[From[c]][i]
           /\ Line[c][Len(Line[c])] = c
<1>1. From[c] \in Routes
    BY DispatchAssumption
<1>2. Line[From[c]] \in Seq(Routes) /\ Line[c] = Append(Line[From[c]], c)
    BY <1>1, LineAssumption
<1>3. QED BY <1>1, <1>2, AppendProperties

\* It ends in the route.
LEMMA LineEnds ==
    ASSUME NEW r \in Routes
    PROVE  Len(Line[r]) \in Nat \ {0} /\ Line[r][Len(Line[r])] = r
<1>1. CASE r = Root
    BY <1>1, LineAssumption
<1>2. CASE r # Root
  <2>1. Line[From[r]] \in Seq(Routes)
      BY <1>2, LineStep, LineAssumption
  <2>2. QED BY <1>2, <2>1, LineStep, LenProperties
<1>3. QED BY <1>1, <1>2

\* Every route made with FromRoute is a level below the one it was made from.
LEMMA LevelStep ==
    /\ Level(Root) = 1
    /\ \A r \in Routes : Level(r) \in Nat \ {0}
    /\ \A c \in Routes \ {Root} :
          Level(c) = IF c \in Inverted THEN Level(From[c]) ELSE Level(From[c]) + 1
<1> DEFINE Below(r) == {i \in 2 .. Len(Line[r]) : Line[r][i] \notin Inverted}
<1>1. ASSUME NEW r \in Routes
      PROVE  IsFiniteSet(Below(r)) /\ Cardinality(Below(r)) \in Nat
  <2>1. Len(Line[r]) \in Nat
      BY LineEnds
  <2>2. IsFiniteSet(2 .. Len(Line[r]))
      BY <2>1, FS_Interval
  <2>3. Below(r) \subseteq 2 .. Len(Line[r])
      OBVIOUS
  <2>4. QED BY <2>2, <2>3, FS_Subset, FS_CardinalityType
<1>2. Level(Root) = 1
  <2>1. Below(Root) = {}
      BY LineAssumption
  <2>2. QED BY <2>1, FS_EmptySet DEF Level
<1>3. ASSUME NEW c \in Routes \ {Root}
      PROVE  Level(c) = IF c \in Inverted THEN Level(From[c]) ELSE Level(From[c]) + 1
  <2> DEFINE n == Len(Line[c])
  <2>1. /\ From[c] \in Routes
        /\ n = Len(Line[From[c]]) + 1
        /\ Line[c][n] = c
        /\ \A i \in 1 .. Len(Line[From[c]]) : Line[c][i] = Line[From[c]][i]
      BY LineStep
  <2>2. Len(Line[From[c]]) \in Nat \ {0}
      BY <2>1, LineEnds
  <2>3. CASE c \in Inverted
    <3>1. Below(c) = Below(From[c])
        BY <2>1, <2>2, <2>3
    <3>2. QED BY <3>1, <2>3 DEF Level
  <2>4. CASE c \notin Inverted
    <3>1. Below(c) = Below(From[c]) \cup {n} /\ n \notin Below(From[c])
      <4>1. PICK k \in Nat \ {0} : k = Len(Line[From[c]]) /\ n = k + 1
          BY <2>1, <2>2
      <4>2. 2 .. n = (2 .. k) \cup {n} /\ n \notin 2 .. k
          BY ONLY <4>1
      <4>3. \A i \in 2 .. k : Line[c][i] = Line[From[c]][i]
          BY <2>1, <4>1
      <4>4. QED BY <2>1, <2>4, <4>1, <4>2, <4>3
    <3>2. IsFiniteSet(Below(From[c])) /\ Cardinality(Below(From[c])) \in Nat
        BY <2>1, <1>1
    <3>3. Cardinality(Below(c)) = Cardinality(Below(From[c])) + 1
        BY <3>1, <3>2, FS_AddElement
    <3>4. QED BY <3>2, <3>3, <2>4 DEF Level
  <2>5. QED BY <2>3, <2>4
<1>4. ASSUME NEW r \in Routes
      PROVE  Level(r) \in Nat \ {0}
  <2>1. Level(r) = 1 + Cardinality(Below(r))
      BY DEF Level
  <2>2. Cardinality(Below(r)) \in Nat
      BY <1>1
  <2>3. QED BY ONLY <2>1, <2>2
<1>5. QED BY <1>2, <1>3, <1>4

\* A request reaches a route if it reaches the one above and is passed on there.
LEMMA ReachesStep ==
    ASSUME NEW q \in Requests
    PROVE  /\ Reaches(q, Root)
           /\ \A c \in Routes \ {Root} :
                Reaches(q, c) <=> Reaches(q, From[c]) /\ PassedOn(q, c)
<1>1. Reaches(q, Root)
    BY LineAssumption DEF Reaches
<1>2. ASSUME NEW c \in Routes \ {Root}
      PROVE  Reaches(q, c) <=> Reaches(q, From[c]) /\ PassedOn(q, c)
  <2> DEFINE p == From[c]
             n == Len(Line[p])
             Goes(r, i) == Accepted(q, Line[r][i]) <=> Line[r][i + 1] \notin Inverted
  <2>1. /\ p \in Routes
        /\ Len(Line[c]) = n + 1
        /\ \A i \in 1 .. n : Line[c][i] = Line[p][i]
        /\ Line[c][n + 1] = c
      BY LineStep
  <2>2. n \in Nat \ {0} /\ Line[p][n] = p
      BY <2>1, LineEnds
  <2>3. Reaches(q, c) <=> \A i \in 1 .. n : Goes(c, i)
    <3>1. Len(Line[c]) - 1 = n
        BY <2>1, <2>2
    <3>2. QED BY <3>1 DEF Reaches
  <2>4. Reaches(q, p) <=> \A i \in 1 .. n - 1 : Goes(p, i)
      BY DEF Reaches
  <2>5. \A i \in 1 .. n - 1 : Line[c][i] = Line[p][i] /\ Line[c][i + 1] = Line[p][i + 1]
      BY <2>1, <2>2
  <2>6. \A i \in 1 .. n - 1 : Goes(c, i) <=> Goes(p, i)
      BY <2>5
  <2>7. Line[c][n] = p
      BY <2>1, <2>2
  <2>8. Goes(c, n) <=> PassedOn(q, c)
      BY <2>1, <2>7 DEF PassedOn
  <2>9. (\A i \in 1 .. n : Goes(c, i)) <=> (\A i \in 1 .. n - 1 : Goes(c, i)) /\ Goes(c, n)
    <3> HIDE DEF Goes
    <3>1. 1 .. n = (1 .. n - 1) \cup {n}
        BY <2>2
    <3>2. QED BY <3>1
  <2>10. QED BY <2>3, <2>4, <2>6, <2>8, <2>9
<1>3. QED BY <1>1, <1>2

\* What is left of the path in a route, and in those made from it.
LEMMA RestOK ==
    ASSUME NEW q \in Requests
    PROVE  /\ Rest(q, Root) = PathOf[q]
           /\ \A r \in Routes :
                /\ Rest(q, r) \in Seq(Segments)
                /\ Len(Rest(q, r)) \in 1 .. Len(PathOf[q])
                /\ Head(Rest(q, r)) = SegmentFor(q, r)
           /\ \A c \in Routes \ {Root} :
                Rest(q, c) = IF c \in Inverted \/ Len(Rest(q, From[c])) <= 1
                             THEN Rest(q, From[c]) ELSE Tail(Rest(q, From[c]))
<1> DEFINE n == Len(PathOf[q])
<1>1. PathOf[q] \in Seq(Segments) /\ n \in Nat \ {0}
    BY DispatchAssumption, LenProperties, EmptySeq
<1>2. ASSUME NEW r \in Routes
      PROVE  /\ Judged(q, r) \in 1 .. n
             /\ Rest(q, r) \in Seq(Segments)
             /\ Len(Rest(q, r)) = n - Judged(q, r) + 1
             /\ Head(Rest(q, r)) = SegmentFor(q, r)
  <2>1. Judged(q, r) \in 1 .. n
      BY <1>1, LevelStep DEF Judged
  <2>2. QED
      BY <1>1, <2>1, SubSeqProperties, HeadTailOfSubSeq DEF Rest, SegmentFor
<1>3. Rest(q, Root) = PathOf[q]
  <2>1. Judged(q, Root) = 1
      BY <1>1, LevelStep DEF Judged
  <2>2. QED BY <1>1, <2>1, SubSeqFull DEF Rest
<1>4. ASSUME NEW c \in Routes \ {Root}
      PROVE  Rest(q, c) = IF c \in Inverted \/ Len(Rest(q, From[c])) <= 1
                          THEN Rest(q, From[c]) ELSE Tail(Rest(q, From[c]))
  <2> DEFINE p == From[c]
  <2>1. p \in Routes
      BY LineStep
  <2>2. Level(p) \in Nat \ {0} /\ Level(c) = IF c \in Inverted THEN Level(p) ELSE Level(p) + 1
      BY <2>1, LevelStep
  <2>3. CASE c \in Inverted \/ Len(Rest(q, p)) <= 1
    <3>1. Judged(q, c) = Judged(q, p)
        BY <1>1, <1>2, <2>1, <2>2, <2>3 DEF Judged
    <3>2. QED BY <2>3, <3>1 DEF Rest
  <2>4. CASE ~ (c \in Inverted \/ Len(Rest(q, p)) <= 1)
    <3>1. Judged(q, p) \in 1 .. n - 1 /\ Judged(q, c) = Judged(q, p) + 1
        BY <1>1, <1>2, <2>1, <2>2, <2>4 DEF Judged
    <3>2. Tail(Rest(q, p)) = SubSeq(PathOf[q], Judged(q, p) + 1, n)
      <4>1. Judged(q, p) \in 1 .. n /\ n \in Judged(q, p) .. n
          BY <1>1, <3>1
      <4>2. QED BY <1>1, <4>1, HeadTailOfSubSeq DEF Rest
    <3>3. QED BY <2>4, <3>1, <3>2 DEF Rest
  <2>5. QED BY <2>3, <2>4
<1>5. QED BY <1>1, <1>2, <1>3, <1>4
----------------------------------------------------------------------------
\* Where a route sends an emission: to each route made from it, in the direction
\* of its verdict, once, with the rest of the path that is left there.
LEMMA HopsOK ==
    ASSUME NEW e,
           e.obj \in Objects, e.to \in Routes,
           e.path = Rest(e.obj.req, e.to)
    PROVE  /\ Matches(e) <=> Accepted(e.obj.req, e.to)
           /\ \A x \in NextHops(e) :
                /\ x.obj \in Objects /\ x.obj.req = e.obj.req
                /\ x.to \in Routes \ {Root} /\ From[x.to] = e.to
                /\ PassedOn(e.obj.req, x.to)
                /\ x.path = Rest(e.obj.req, x.to)
           /\ \A x, y \in NextHops(e) : x.to = y.to => x = y
           /\ \A c \in Routes \ {Root} :
                From[c] = e.to /\ PassedOn(e.obj.req, c)
                  => \E x \in NextHops(e) : x.to = c
<1> DEFINE q == e.obj.req
<1>1. q \in Requests
    BY DEF Objects
<1>2. Matches(e) <=> Accepted(q, e.to)
    BY <1>1, RestOK DEF Matches, Accepted
<1> DEFINE cut(c) == IF c \in Inverted \/ Len(e.path) <= 1
                     THEN Emission(e.obj, e.path, c)
                     ELSE Emission([e.obj EXCEPT !.by = c], Tail(e.path), c)
<1>3. \A x : x \in NextHops(e) <=>
        \E c \in Routes \ {Root} :
           From[c] = e.to /\ (Accepted(q, e.to) <=> c \notin Inverted) /\ x = cut(c)
  <2>1. CASE Matches(e)
      BY <1>2, <2>1, DispatchAssumption DEF NextHops, Children, FromRequest
  <2>2. CASE ~Matches(e)
      BY <1>2, <2>2, DispatchAssumption DEF NextHops, Diverts
  <2>3. QED BY <2>1, <2>2
<1>4. ASSUME NEW c \in Routes \ {Root}, From[c] = e.to
      PROVE  /\ cut(c).to = c
             /\ cut(c).obj \in Objects /\ cut(c).obj.req = q
             /\ cut(c).path = Rest(q, c)
  <2>1. Rest(q, c) = IF c \in Inverted \/ Len(e.path) <= 1 THEN e.path ELSE Tail(e.path)
    <3>1. Rest(q, c) = IF c \in Inverted \/ Len(Rest(q, From[c])) <= 1
                       THEN Rest(q, From[c]) ELSE Tail(Rest(q, From[c]))
        BY <1>1, RestOK
    <3>2. Rest(q, From[c]) = e.path
        BY <1>4
    <3>3. QED BY ONLY <3>1, <3>2
  <2>2. QED BY <2>1 DEF Emission, Objects
<1> HIDE DEF cut
<1>5. QED BY <1>2, <1>3, <1>4 DEF PassedOn

LEMMA InitDispatchInv == Init => DispatchInv
<1> SUFFICES ASSUME Init
             PROVE  DispatchInv
    OBVIOUS
<1> USE DEF Init
<1>1. TypeOK
    BY DispatchAssumption DEF TypeOK, Objects
<1>2. CountsOK
    BY DEF CountsOK
<1>3. \A q \in Requests, r \in Routes : Visits(q, r) = 0
    BY DEF Visits
<1>4. EmissionsOK
    BY DEF EmissionsOK
<1>5. VisitsOK
    BY <1>3 DEF VisitsOK
<1>6. NothingLost
    BY <1>3, LineStep DEF NothingLost
<1>7. RacksOK
    BY DEF RacksOK
<1>8. QED BY <1>1, <1>2, <1>4, <1>5, <1>6, <1>7 DEF DispatchInv

LEMMA PatchOK ==
    ASSUME DispatchInv, NEW p \in Routes, NEW h \in Handlers, PatchRoute(p, h)
    PROVE  DispatchInv'
<1> USE DEF DispatchInv, PatchRoute
<1>1. TypeOK'
    BY DEF TypeOK
<1>2. CountsOK'
    BY DEF CountsOK
<1>3. EmissionsOK'
    BY DEF EmissionsOK, Visits, Came
<1>4. VisitsOK'
    BY DEF VisitsOK, Visits, Came
<1>5. NothingLost'
    BY DEF NothingLost, Visits, Pending
<1>6. RacksOK'
  <2>1. fail' \in [Routes -> Handlers \cup {None}] /\ (fail[Root] # None => fail'[Root] # None)
      BY DispatchAssumption DEF TypeOK
  <2>2. QED BY <2>1 DEF RacksOK
<1>7. QED BY <1>1, <1>2, <1>3, <1>4, <1>5, <1>6

LEMMA ServeOK ==
    ASSUME DispatchInv, NEW s \in Requests, Serve(s)
    PROVE  DispatchInv'
<1> DEFINE o == [req |-> s, by |-> Root]
           n == Emission(o, PathOf[s], Root)
<1>1. /\ n.obj = o /\ o \in Objects /\ n.to = Root
      /\ n.obj.req = s /\ n.path = PathOf[s]
    BY DispatchAssumption DEF Emission, Objects
<1> HIDE DEF n, o
<1>2. /\ s \notin served /\ served' = served \cup {s}
      /\ guarded' = IF fail[Root] = None THEN guarded ELSE guarded \cup {s}
      /\ emitted' = emitted \cup {n}
      /\ UNCHANGED <<fail, racks, wraps, valid, invalid, bare>>
    BY DEF Serve, n, o
<1>3. \A q \in Requests, r \in Routes : Visits(q, r)' = Visits(q, r)
    BY <1>2 DEF Visits
<1>4. \A q \in Requests, r \in Routes : Pending(q, r) => Pending(q, r)'
    BY <1>2 DEF Pending
<1>5. \A e \in emitted : e.obj.req # s
    BY <1>2 DEF DispatchInv, EmissionsOK
<1>6. \A r \in Routes : Visits(s, r) = 0
    BY <1>2 DEF DispatchInv, VisitsOK
<1>7. TypeOK'
  <2>1. Len(n.path) \in 1 .. Len(PathOf[n.obj.req])
      BY <1>1, RestOK, DispatchAssumption
  <2>2. QED BY <1>1, <1>2, <2>1, DispatchAssumption DEF DispatchInv, TypeOK
<1>8. CountsOK'
    BY <1>2 DEF DispatchInv, CountsOK
<1>9. EmissionsOK'
  <2>1. n.path = Rest(s, Root) /\ Reaches(s, Root)
      BY <1>1, RestOK, ReachesStep
  <2>2. \A e \in emitted : e.obj.req \in Requests /\ e.to \in Routes
      BY DEF DispatchInv, TypeOK, Objects
  <2>3. \A e \in emitted : Came(e.obj.req, e.to)'
      BY <1>3, <2>2, LineStep DEF DispatchInv, EmissionsOK, Came
  <2>4. Came(s, Root)'
      BY DEF Came
  <2>5. QED
      BY <1>1, <1>2, <1>3, <1>5, <1>6, <2>1, <2>2, <2>3, <2>4, DispatchAssumption
      DEF DispatchInv, EmissionsOK
<1>10. VisitsOK'
    BY <1>2, <1>3, LineStep DEF DispatchInv, VisitsOK, Came
<1>11. NothingLost'
  <2>1. Pending(s, Root)'
      BY <1>1, <1>2 DEF Pending
  <2>2. served \subseteq Requests
      BY DEF DispatchInv, TypeOK
  <2>3. QED
      BY <1>2, <1>3, <1>4, <2>1, <2>2, DispatchAssumption, LineStep DEF DispatchInv, NothingLost
<1>12. RacksOK'
  <2>1. \A q \in guarded : q # s /\ q \in served
      BY <1>2 DEF DispatchInv, TypeOK
  <2>2. QED BY <1>1, <1>2, <1>5, <2>1 DEF DispatchInv, RacksOK
<1>13. QED BY <1>7, <1>8, <1>9, <1>10, <1>11, <1>12 DEF DispatchInv

\* The handler of an emission.
LEMMA ValidateOK ==
    ASSUME DispatchInv, NEW e \in emitted, Validate(e)
    PROVE  DispatchInv'
<1> DEFINE q == e.obj.req
           own == IF NeedsRack(e) THEN {MadeWith[e.to]} ELSE racks[e.obj]
<1>1. /\ q \in Requests /\ q \in served /\ e.to \in Routes /\ e.obj \in Objects
      /\ e.path = Rest(q, e.to) /\ Reaches(q, e.to)
      /\ Visits(q, e.to) = 0 /\ Came(q, e.to)
    BY DEF DispatchInv, TypeOK, EmissionsOK, Objects
<1>2. /\ Matches(e) <=> Accepted(q, e.to)
      /\ \A x \in NextHops(e) :
           /\ x.obj \in Objects /\ x.obj.req = q
           /\ x.to \in Routes \ {Root} /\ From[x.to] = e.to
           /\ PassedOn(q, x.to)
           /\ x.path = Rest(q, x.to)
      /\ \A x, y \in NextHops(e) : x.to = y.to => x = y
      /\ \A c \in Routes \ {Root} :
           From[c] = e.to /\ PassedOn(q, c) => \E x \in NextHops(e) : x.to = c
    BY <1>1, HopsOK
<1>3. /\ valid' = [valid EXCEPT ![q][e.to] = @ + Once(Accepted(q, e.to))]
      /\ invalid' = [invalid EXCEPT ![q][e.to] = @ + Once(~Accepted(q, e.to))]
  <2>1. CASE Matches(e)
    <3>1. invalid[q][e.to] + 0 = invalid[q][e.to] /\ invalid \in [Requests -> [Routes -> Nat]]
        BY <1>1 DEF DispatchInv, CountsOK
    <3>2. QED BY <1>1, <1>2, <2>1, <3>1 DEF Validate, Once
  <2>2. CASE ~Matches(e)
    <3>1. valid[q][e.to] + 0 = valid[q][e.to] /\ valid \in [Requests -> [Routes -> Nat]]
        BY <1>1 DEF DispatchInv, CountsOK
    <3>2. QED BY <1>1, <1>2, <2>2, <3>1 DEF Validate, Once
  <2>3. QED BY <2>1, <2>2
<1>4. /\ emitted' = (emitted \ {e}) \cup NextHops(e)
      /\ UNCHANGED <<fail, served, guarded>>
    BY DEF Validate
<1>5. valid[q][e.to] = 0 /\ invalid[q][e.to] = 0
    BY <1>1 DEF DispatchInv, CountsOK, Visits
<1>6. \A p \in Requests, r \in Routes :
         Visits(p, r)' = IF p = q /\ r = e.to THEN 1 ELSE Visits(p, r)
  <2>1. SUFFICES ASSUME NEW p \in Requests, NEW r \in Routes
                 PROVE  Visits(p, r)' = IF p = q /\ r = e.to THEN 1 ELSE Visits(p, r)
      OBVIOUS
  <2>2. CASE p = q /\ r = e.to
      BY <1>1, <1>3, <1>5, <2>2 DEF DispatchInv, CountsOK, Visits, Once
  <2>3. CASE ~(p = q /\ r = e.to)
      BY <1>1, <1>3, <2>3 DEF DispatchInv, CountsOK, Visits
  <2>4. QED BY <2>2, <2>3
\* Nothing of q has been to a route made from this one, or is on its way there.
<1>7. \A c \in Routes \ {Root} : From[c] = e.to => Visits(q, c) = 0 /\ ~Pending(q, c)
  <2>1. SUFFICES ASSUME NEW c \in Routes \ {Root}, From[c] = e.to
                 PROVE  Visits(q, c) = 0 /\ ~Pending(q, c)
      OBVIOUS
  <2>2. ~Came(q, c)
      BY <1>1, <2>1 DEF Came
  <2>3. QED
      BY <1>1, <2>2 DEF DispatchInv, VisitsOK, EmissionsOK, Pending
<1>8. \A x \in NextHops(e) : \A f \in emitted : ~(f.obj.req = q /\ f.to = x.to)
    BY <1>2, <1>7 DEF Pending
<1>9. \A c \in Routes \ {Root} : c # From[c]
  <2>1. \A c \in Routes \ {Root} :
          From[c] \in Routes /\ Len(Line[c]) = Len(Line[From[c]]) + 1
      BY LineStep
  <2>2. \A r \in Routes : Len(Line[r]) \in Nat
      BY LineEnds
  <2>3. QED BY <2>1, <2>2
<1>10. CountsOK'
  <2>1. Once(TRUE) = 1 /\ Once(FALSE) = 0
      BY DEF Once
  <2>2. valid' \in [Requests -> [Routes -> Nat]] /\ invalid' \in [Requests -> [Routes -> Nat]]
      BY <1>1, <1>3 DEF DispatchInv, CountsOK, Once
  <2>3. wraps' \in [Requests -> Nat]
      BY <1>1 DEF DispatchInv, CountsOK, Validate
  <2>4. own \in SUBSET (Handlers \cup {None})
      BY <1>1, DispatchAssumption DEF DispatchInv, CountsOK
  <2>5. racks' \in [Objects -> SUBSET (Handlers \cup {None})]
      BY <2>4 DEF DispatchInv, CountsOK, Validate, Racked
  <2>6. QED BY <2>2, <2>3, <2>5 DEF CountsOK
<1>11. TypeOK'
  <2>1. \A x \in NextHops(e) : Len(x.path) \in 1 .. Len(PathOf[x.obj.req])
      BY <1>1, <1>2, RestOK
  <2>2. bare' \subseteq Requests \X Routes
      BY <1>1 DEF DispatchInv, TypeOK, Validate
  <2>3. \A o \in Objects : racks'[o] \subseteq Handlers \cup {None}
      BY <1>10 DEF CountsOK
  <2>4. \A x \in emitted' : /\ x.obj \in Objects /\ x.to \in Routes
                           /\ Len(x.path) \in 1 .. Len(PathOf[x.obj.req])
      BY <1>2, <1>4, <2>1 DEF DispatchInv, TypeOK
  <2>5. QED BY <1>4, <2>2, <2>3, <2>4 DEF DispatchInv, TypeOK
<1>12. EmissionsOK'
  <2>1. ASSUME NEW f \in emitted'
        PROVE  /\ f.obj.req \in served'
               /\ Reaches(f.obj.req, f.to)
               /\ f.path = Rest(f.obj.req, f.to)
               /\ Visits(f.obj.req, f.to)' = 0
               /\ Came(f.obj.req, f.to)'
    <3>1. CASE f \in emitted /\ f # e
      <4>1. f.obj.req \in Requests /\ f.to \in Routes
          BY <3>1 DEF DispatchInv, TypeOK, Objects
      <4>2. ~(f.obj.req = q /\ f.to = e.to)
          BY <3>1 DEF DispatchInv, EmissionsOK
      <4>3. QED
          BY <1>4, <1>6, <3>1, <4>1, <4>2, LineStep DEF DispatchInv, EmissionsOK, Came
    <3>2. CASE f \in NextHops(e)
      <4>1. Reaches(q, f.to)
          BY <1>1, <1>2, <3>2, ReachesStep
      <4>2. Visits(q, f.to)' = 0
          BY <1>1, <1>2, <1>6, <1>7, <1>9, <3>2
      <4>3. Came(q, f.to)'
          BY <1>1, <1>2, <1>6, <3>2 DEF Came
      <4>4. QED BY <1>1, <1>2, <1>4, <3>2, <4>1, <4>2, <4>3
    <3>3. QED BY <1>4, <3>1, <3>2
  <2>2. ASSUME NEW f \in emitted', NEW g \in emitted', f.obj.req = g.obj.req, f.to = g.to
        PROVE  f = g
    <3>1. CASE f \in emitted /\ g \in emitted
        BY <2>2, <3>1 DEF DispatchInv, EmissionsOK
    <3>2. CASE f \in NextHops(e) /\ g \in NextHops(e)
        BY <1>2, <2>2, <3>2
    <3>3. CASE f \in NextHops(e) /\ g \in emitted
        BY <1>2, <1>8, <2>2, <3>3
    <3>4. CASE g \in NextHops(e) /\ f \in emitted
        BY <1>2, <1>8, <2>2, <3>4
    <3>5. QED BY <1>4, <3>1, <3>2, <3>3, <3>4
  <2>3. QED BY <2>1, <2>2 DEF EmissionsOK
<1>13. VisitsOK'
  <2>1. SUFFICES ASSUME NEW p \in Requests, NEW r \in Routes
                 PROVE  /\ Visits(p, r)' \in {0, 1}
                        /\ Visits(p, r)' = 1 =>
                             /\ p \in served
                             /\ Reaches(p, r)
                             /\ valid'[p][r] = Once(Accepted(p, r))
                             /\ Came(p, r)'
      BY <1>4 DEF VisitsOK
  <2>2. Came(p, r) => Came(p, r)'
      BY <1>6, LineStep DEF Came
  <2>3. CASE p = q /\ r = e.to
    <3>1. valid'[q][e.to] = Once(Accepted(q, e.to))
        BY <1>1, <1>3, <1>5 DEF DispatchInv, CountsOK, Once
    <3>2. QED BY <1>1, <1>6, <2>2, <2>3, <3>1
  <2>4. CASE ~(p = q /\ r = e.to)
    <3>1. valid'[p][r] = valid[p][r]
        BY <1>1, <1>3, <2>4 DEF DispatchInv, CountsOK
    <3>2. QED BY <1>6, <2>2, <2>4, <3>1 DEF DispatchInv, VisitsOK
  <2>5. QED BY <2>3, <2>4
<1>14. NothingLost'
  <2>1. \A p \in Requests, r \in Routes :
          Pending(p, r) => Pending(p, r)' \/ (p = q /\ r = e.to)
      BY <1>4 DEF Pending
  <2>2. ASSUME NEW p \in served
        PROVE  Visits(p, Root)' = 1 \/ Pending(p, Root)'
    <3>1. p \in Requests /\ Root \in Routes
        BY DispatchAssumption DEF DispatchInv, TypeOK
    <3>2. QED BY <1>6, <2>1, <3>1 DEF DispatchInv, NothingLost
  <2>3. ASSUME NEW p \in Requests, NEW c \in Routes \ {Root},
               Visits(p, From[c])' = 1, PassedOn(p, c)
        PROVE  Visits(p, c)' = 1 \/ Pending(p, c)'
    <3>1. From[c] \in Routes
        BY LineStep
    <3>2. CASE p = q /\ From[c] = e.to
      <4>1. PICK x \in NextHops(e) : x.to = c
          BY <1>2, <2>3, <3>2
      <4>2. x \in emitted' /\ x.obj.req = p
          BY <1>2, <1>4, <3>2
      <4>3. QED BY <4>1, <4>2 DEF Pending
    <3>3. CASE ~(p = q /\ From[c] = e.to)
      <4>1. Visits(p, From[c]) = 1
          BY <1>6, <2>3, <3>1, <3>3
      <4>2. Visits(p, c) = 1 \/ Pending(p, c)
          BY <2>3, <4>1 DEF DispatchInv, NothingLost
      <4>3. QED BY <1>6, <2>1, <4>2
    <3>4. QED BY <3>2, <3>3
  <2>4. QED BY <1>4, <2>2, <2>3 DEF NothingLost, PassedOn
<1>15. RacksOK'
  <2>1. \A o \in Objects : racks'[o] = own \/ racks'[o] = racks[o]
      BY DEF Validate, Racked
  <2>2. racks'[e.obj] = own /\ \A x \in NextHops(e) : racks'[x.obj] = own
      BY <1>1, <1>2 DEF Validate, Racked
  <2>3. \A p \in Requests : p # q => wraps'[p] = wraps[p]
      BY <1>1 DEF DispatchInv, CountsOK, Validate
  <2>4. wraps'[q] = IF NeedsRack(e) THEN wraps[q] + 1 ELSE wraps[q]
      BY <1>1 DEF DispatchInv, CountsOK, Validate
  <2>5. q \in guarded => own # {} /\ wraps'[q] <= 1
    <3>1. SUFFICES ASSUME q \in guarded
                   PROVE  own # {} /\ wraps'[q] <= 1
        OBVIOUS
    <3>2. wraps[q] \in Nat
        BY <1>1 DEF DispatchInv, CountsOK
    <3>3. CASE wraps[q] = 0 /\ e.to = Root
        BY <2>4, <3>1, <3>3 DEF DispatchInv, RacksOK, NeedsRack
    <3>4. CASE wraps[q] <= 1 /\ racks[e.obj] # {}
        BY <2>4, <3>4 DEF NeedsRack
    <3>5. QED BY <3>1, <3>3, <3>4 DEF DispatchInv, RacksOK
  <2>6. ASSUME NEW p \in guarded
        PROVE  \/ wraps'[p] = 0 /\ \A f \in emitted' : f.obj.req = p => f.to = Root
               \/ wraps'[p] <= 1 /\ \A f \in emitted' : f.obj.req = p => racks'[f.obj] # {}
    <3>1. p \in Requests
        BY DEF DispatchInv, TypeOK
    <3>2. CASE p = q
      <4>1. own # {} /\ wraps'[q] <= 1
          BY <2>5, <3>2
      <4>2. ASSUME NEW f \in emitted', f.obj.req = q
            PROVE  racks'[f.obj] # {}
        <5>1. CASE f \in NextHops(e)
            BY <2>2, <4>1, <5>1
        <5>2. CASE f \in emitted /\ f # e
          <6>1. f.to # e.to /\ f.obj \in Objects
              BY <4>2, <5>2 DEF DispatchInv, EmissionsOK, TypeOK
          <6>2. racks[f.obj] # {}
              BY <3>2, <4>2, <5>2, <6>1 DEF DispatchInv, RacksOK
          <6>3. QED BY <2>1, <4>1, <6>1, <6>2
        <5>3. QED BY <1>4, <5>1, <5>2
      <4>3. QED BY <3>2, <4>1, <4>2
    <3>3. CASE p # q
      <4>1. wraps'[p] = wraps[p]
          BY <2>3, <3>1, <3>3
      <4>2. \A f \in emitted' : f.obj.req = p => f \in emitted
          BY <1>2, <1>4, <3>3
      <4>3. \A f \in emitted : f.obj.req = p => racks'[f.obj] = racks[f.obj]
        <5>1. \A o \in Objects : o.req = p => racks'[o] = racks[o]
            BY <1>2, <3>3 DEF Validate, Racked
        <5>2. QED BY <5>1 DEF DispatchInv, TypeOK
      <4>4. CASE wraps[p] = 0 /\ \A f \in emitted : f.obj.req = p => f.to = Root
          BY <4>1, <4>2, <4>4
      <4>5. CASE wraps[p] <= 1 /\ \A f \in emitted : f.obj.req = p => racks[f.obj] # {}
          BY <4>1, <4>2, <4>3, <4>5
      <4>6. QED BY <4>4, <4>5 DEF DispatchInv, RacksOK
    <3>4. QED BY <3>2, <3>3
  <2>7. \A p \in Requests \ served' : wraps'[p] = 0
      BY <1>1, <1>4, <2>3 DEF DispatchInv, RacksOK
  <2>8. \A x \in bare' : x[1] \in served' \ guarded'
    <3>1. bare' \subseteq bare \cup (IF own = {} THEN {<<q, e.to>>} ELSE {})
        BY <2>2 DEF Validate
    <3>2. QED BY <1>1, <1>4, <2>5, <3>1 DEF DispatchInv, RacksOK
  <2>9. QED BY <1>4, <2>6, <2>7, <2>8 DEF DispatchInv, RacksOK
<1>16. QED
    BY <1>10, <1>11, <1>12, <1>13, <1>14, <1>15 DEF DispatchInv

LEMMA NextDispatchInv == DispatchInv /\ [Next]_vars => DispatchInv'
<1> SUFFICES ASSUME DispatchInv, [Next]_vars
             PROVE  DispatchInv'
    OBVIOUS
<1>1. CASE UNCHANGED vars
  <2>1. /\ \A q, r : Visits(q, r)' = Visits(q, r)
        /\ \A q, r : Pending(q, r)' = Pending(q, r)
        /\ \A q, r : Came(q, r)' = Came(q, r)
      BY <1>1 DEF vars, Visits, Pending, Came
  <2>2. TypeOK' /\ CountsOK'
      BY <1>1 DEF vars, DispatchInv, TypeOK, CountsOK
  <2>3. EmissionsOK'
      BY <1>1, <2>1 DEF vars, DispatchInv, EmissionsOK
  <2>4. VisitsOK' /\ NothingLost'
      BY <1>1, <2>1 DEF vars, DispatchInv, VisitsOK, NothingLost
  <2>5. RacksOK'
      BY <1>1 DEF vars, DispatchInv, RacksOK
  <2>6. QED BY <2>2, <2>3, <2>4, <2>5 DEF DispatchInv
<1>2. QED
    BY <1>1, PatchOK, ServeOK, ValidateOK DEF Next

\* The inductive invariant holds throughout every run of a tree of routes.
THEOREM DispatchInvariant == Spec => []DispatchInv
<1>1. QED BY InitDispatchInv, NextDispatchInv, PTL DEF Spec

\* What is under way in a tree of any shape is a request object of a request that
\* was served, with some of its path left: Paths[0] (src/route.go line 354) exists
\* in every route.
THEOREM DispatchTypes == Spec => []TypeOK
<1>1. DispatchInv => TypeOK
    BY DEF DispatchInv
<1>2. QED BY <1>1, DispatchInvariant, PTL

\* A request that enters a tree of any shape with a fail handler at the root is put
\* in one rack and reaches every subscriber in it (src/route.go lines 334-352).
THEOREM DispatchInOneRack == Spec => []OneRack
<1>1. DispatchInv => OneRack
  <2>1. SUFFICES ASSUME DispatchInv
                 PROVE  OneRack
      OBVIOUS
  <2>2. \A q \in guarded : wraps[q] <= 1
      BY <2>1 DEF DispatchInv, RacksOK
  <2>3. QED BY <2>1, <2>2 DEF DispatchInv, RacksOK, OneRack
<1>2. QED BY <1>1, DispatchInvariant, PTL

\* What is settled has been to every route it reaches.  Of the routes it has missed
\* take one with the shortest line: it is not the root, the one above it was
\* visited, and so it is visited or the request is not settled.
LEMMA SettledVisits ==
    ASSUME DispatchInv, NEW q \in Requests, Settled(q), NEW r \in Routes, Reaches(q, r)
    PROVE  Visits(q, r) = 1
<1> DEFINE Missed == {x \in Routes : Reaches(q, x) /\ Visits(q, x) # 1}
           Depths == {Len(Line[x]) : x \in Missed}
<1>1. SUFFICES ASSUME Missed # {}
               PROVE  FALSE
    OBVIOUS
<1>2. q \in served /\ \A x \in Routes : ~Pending(q, x)
    BY DEF Settled, Pending
<1>3. \A x \in Routes : Len(Line[x]) \in Nat
    BY LineEnds
<1>4. Depths \subseteq Nat /\ Depths # {}
    BY <1>1, <1>3
<1>5. PICK n \in Depths : \A k \in Depths : ~(<<k, n>> \in OpToRel(<, Nat))
  <2> HIDE DEF Depths
  <2>1. QED BY <1>4, NatLessThanWellFounded, WFMin
<1>6. PICK x \in Missed : n = Len(Line[x])
    BY <1>5
<1>7. \A k \in Depths : ~(k < n)
    BY <1>4, <1>5 DEF OpToRel
<1>8. x # Root
    BY <1>2, <1>6 DEF DispatchInv, NothingLost
<1>9. /\ From[x] \in Routes /\ Len(Line[x]) = Len(Line[From[x]]) + 1
      /\ Reaches(q, From[x]) /\ PassedOn(q, x)
    BY <1>6, <1>8, LineStep, ReachesStep
<1>10. Len(Line[From[x]]) < n
    BY <1>3, <1>6, <1>9
<1>11. Visits(q, From[x]) = 1
    BY <1>7, <1>9, <1>10
<1>12. Visits(q, x) = 1
    BY <1>2, <1>6, <1>8, <1>9, <1>11 DEF DispatchInv, NothingLost
<1>13. QED BY <1>6, <1>12

\* In a tree of any shape, a request is delivered to exactly the routes that its
\* path matches, once, for any order of the listeners (src/route.go lines 354-366,
\* 399-412 and 431-447).
THEOREM DispatchDelivers == Spec => []DeliveredWhereMatched
<1>1. DispatchInv => DeliveredWhereMatched
  <2>1. SUFFICES ASSUME DispatchInv, NEW q \in Requests, Settled(q), NEW r \in Routes
                 PROVE  valid[q][r] = Once(Reaches(q, r) /\ Accepted(q, r))
      BY DEF DeliveredWhereMatched
  <2>2. /\ Visits(q, r) \in {0, 1}
        /\ Visits(q, r) = 1 => Reaches(q, r) /\ valid[q][r] = Once(Accepted(q, r))
      BY <2>1 DEF DispatchInv, VisitsOK
  <2>3. valid[q][r] \in Nat /\ invalid[q][r] \in Nat
      BY <2>1 DEF DispatchInv, CountsOK
  <2>4. CASE Reaches(q, r)
    <3>1. Visits(q, r) = 1
        BY <2>1, <2>4, SettledVisits
    <3>2. QED BY <2>2, <2>3, <2>4, <3>1 DEF Visits, Once
  <2>5. CASE ~Reaches(q, r)
      BY <2>2, <2>3, <2>5 DEF Visits, Once
  <2>6. QED BY <2>4, <2>5
<1>2. QED BY <1>1, DispatchInvariant, PTL
============================================================================
