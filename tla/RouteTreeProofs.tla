-------------------------- MODULE RouteTreeProofs --------------------------
(***************************************************************************)
(* A route has no two children of one name unless two makers have met on it, *)
(* and a path that New has returned for is in the tree unless makers have    *)
(* met on one of its segments, for any segments, makers and paths.           *)
(*                                                                           *)
(* NoTwins alone says nothing about the time between the creation of a route *)
(* and its store.  TreeInv says whose a route is: its parent's child, or a   *)
(* maker's that is about to store it, or one of a raced place; and that two  *)
(* makers at one place have raced.  FindsWhatWasMade says nothing about New  *)
(* and Child while they walk.  FindInv says that a maker is where the        *)
(* segments it has passed lead to, and that what is left of the path of a    *)
(* search is in the tree.  The way along a path is a function, the witness   *)
(* of Leads; a step of another maker changes none of its links (WayKept).    *)
(***************************************************************************)
EXTENDS RouteTree, SequenceTheorems, TLAPS

Making(m) == pc[m] \in {"make", "store"}

Seg(m) == Head(rest[m])

\* Every route but the root has a parent and a name, and is what it is called.
PlacesOK ==
    /\ routes[Root].up = Nil
    /\ \A i \in Ids \ {Root} : routes[i].up \in Ids /\ routes[i].path \in Segments

\* A maker about to store has a route of the place it stores it at; a place
\* where somebody makes a route is empty, unless it has raced.
MakersOK ==
    \A m \in Makers :
        /\ Making(m) =>
             routes[at[m]].childRoutes[Seg(m)] = Nil \/ <<at[m], Seg(m)>> \in raced
        /\ pc[m] = "store" =>
             /\ fresh[m] \in Ids \ {Root}
             /\ routes[fresh[m]].up = at[m] /\ routes[fresh[m]].path = Seg(m)

\* Two makers at one place have raced.
MeetingsOK ==
    \A m, n \in Makers :
        m # n /\ Making(m) /\ Making(n) /\ at[m] = at[n] /\ Seg(m) = Seg(n)
          => <<at[m], Seg(m)>> \in raced

\* m is about to store route i.
Holds(m, i) == pc[m] = "store" /\ fresh[m] = i

\* Whose route i is.
Owned(i) ==
    \/ routes[routes[i].up].childRoutes[routes[i].path] = i
    \/ <<routes[i].up, routes[i].path>> \in raced
    \/ \E m \in Makers : Holds(m, i)

TreeInv ==
    /\ TypeOK
    /\ PlacesOK
    /\ MakersOK
    /\ MeetingsOK
    /\ \A i \in Ids \ {Root} : Owned(i)
    /\ NoTwins

\* What is known of the routes.
Tree ==
    PlacesOK /\ MakersOK /\ MeetingsOK /\ (\A i \in Ids \ {Root} : Owned(i)) /\ NoTwins

LEMMA InitTreeInv == Init => TreeInv
<1> SUFFICES ASSUME Init
             PROVE  TreeInv
    OBVIOUS
<1> USE TreeAssumption DEF TreeAssumption, Init
<1> DEFINE r == RawRoute(Nil, Nil)
<1>1. r \in Route
    BY DEF RawRoute, Route
<1>2. routes \in Seq(Route) /\ Len(routes) = 1 /\ routes[1] = r
    BY <1>1
<1>3. r.up = Nil /\ r.path = Nil /\ \A s \in Segments : r.childRoutes[s] = Nil
    BY DEF RawRoute
<1>4. Ids = {1} /\ Root \in Ids
    BY <1>2 DEF Ids, Root
<1>5. \A m \in Makers : Jobs[m] \in Seq(Seq(Segments) \ {<<>>})
    OBVIOUS
<1>6. \A m \in Makers : turn[m] = 1 /\ Len(Jobs[m]) \in Nat
    BY <1>5
<1>7. find \in [Finders -> [pc : {"idle", "walk", "found", "missing"}, at : Ids,
                            rest : Seq(Segments), sure : BOOLEAN]]
    BY <1>4
<1>8. TypeOK
    BY <1>2, <1>3, <1>4, <1>6, <1>7 DEF TypeOK
<1>9. Tree
    BY <1>2, <1>3, <1>4
       DEF Tree, PlacesOK, MakersOK, MeetingsOK, NoTwins, Making, Root
<1>10. QED BY <1>8, <1>9 DEF Tree, TreeInv

\* The segment a maker is at, and what is left of its path.
LEMMA PathOfMaker ==
    ASSUME TypeOK, NEW m \in Makers, rest[m] # <<>>
    PROVE  Seg(m) \in Segments /\ Tail(rest[m]) \in Seq(Segments)
BY HeadTailProperties DEF TypeOK, Seg

\* A step of a maker that is not making a route leaves the tree as it is.
LEMMA QuietStep ==
    ASSUME TypeOK, Tree, NEW m \in Makers, ~Making(m), pc'[m] \notin {"make", "store"},
           \A n \in Makers \ {m} : pc'[n] = pc[n] /\ at'[n] = at[n] /\ rest'[n] = rest[n],
           UNCHANGED <<routes, fresh, raced>>
    PROVE  Tree'
<1> USE DEF Tree, Making, Seg
<1>1. PlacesOK' /\ NoTwins'
    BY DEF PlacesOK, NoTwins, Ids
<1>2. MakersOK'
    BY DEF MakersOK, Ids
<1>3. MeetingsOK'
    BY DEF MeetingsOK
<1>4. \A i \in Ids \ {Root} : Owned(i)'
    BY DEF Owned, Holds, Ids
<1>5. QED BY <1>1, <1>2, <1>3, <1>4 DEF Ids

LEMMA BeginOK ==
    ASSUME TreeInv, NEW m \in Makers, Begin(m)
    PROVE  TreeInv'
<1> USE DEF TreeInv
<1>1. Tree
    BY DEF Tree
<1>2. Jobs[m][turn[m]] \in Seq(Segments)
    <2>1. Jobs[m] \in Seq(Seq(Segments) \ {<<>>})
        BY TreeAssumption DEF TreeAssumption
    <2>2. turn[m] \in 1 .. Len(Jobs[m])
        BY <2>1 DEF Begin, TypeOK
    <2>3. QED BY <2>1, <2>2, ElementOfSeq
<1>3. TypeOK'
    BY <1>2 DEF Begin, TypeOK, Ids
<1>4. Tree'
    BY <1>1, QuietStep DEF Begin, TypeOK, Making
<1>5. QED BY <1>3, <1>4 DEF Tree

LEMMA ReturnOK ==
    ASSUME TreeInv, NEW m \in Makers, Return(m)
    PROVE  TreeInv'
<1> USE DEF TreeInv
<1>1. Tree
    BY DEF Tree
<1>2. Len(Jobs[m]) \in Nat
    BY TreeAssumption DEF TreeAssumption
<1>3. TypeOK'
    <2>1. /\ turn' \in [Makers -> Nat] /\ pc' \in [Makers -> {"idle", "look", "make", "store"}]
          /\ turn[m] <= Len(Jobs[m]) /\ turn[m] >= 1 /\ turn[m] \in Nat
          /\ turn'[m] = turn[m] + 1 /\ pc'[m] = "idle"
        BY <1>2 DEF Return, TypeOK
    <2>2. turn'[m] \in 1 .. Len(Jobs[m]) + 1
        BY ONLY <1>2, <2>1
    <2>3. \A n \in Makers \ {m} : turn'[n] = turn[n] /\ pc'[n] = pc[n]
        BY DEF Return, TypeOK
    <2>4. UNCHANGED <<routes, at, rest, fresh, find, raced>>
        BY DEF Return
    <2>5. QED BY <2>1, <2>2, <2>3, <2>4 DEF TypeOK, Ids
<1>4. Tree'
    BY <1>1, QuietStep DEF Return, TypeOK, Making
<1>5. QED BY <1>3, <1>4 DEF Tree

LEMMA FindOK ==
    ASSUME TreeInv, NEW f \in Finders,
           (\E p \in Wanted : FindBegin(f, p)) \/ FindStep(f)
    PROVE  TreeInv'
<1> USE DEF TreeInv
<1>1. UNCHANGED <<routes, pc, turn, at, rest, fresh, raced>>
    BY DEF FindBegin, FindStep, makerVars
<1>2. Tree'
    <2>1. PlacesOK' /\ NoTwins' /\ MakersOK' /\ MeetingsOK'
        BY <1>1 DEF PlacesOK, NoTwins, MakersOK, MeetingsOK, Making, Seg, Ids
    <2>2. (\A i \in Ids \ {Root} : Owned(i))'
        BY <1>1 DEF Owned, Holds, Ids
    <2>3. QED BY <2>1, <2>2 DEF Tree
<1> DEFINE Walk == [pc : {"idle", "walk", "found", "missing"}, at : Ids,
                    rest : Seq(Segments), sure : BOOLEAN]
<1>3. find \in [Finders -> Walk]
    BY DEF TypeOK
<1>4. \E w \in Walk : find' = [find EXCEPT ![f] = w]
    <2>1. ASSUME NEW p \in Wanted, FindBegin(f, p)
          PROVE  \E w \in Walk : find' = [find EXCEPT ![f] = w]
        <3>1. p \in Seq(Segments) /\ Root \in Ids /\ (p \in Finished) \in BOOLEAN
            BY TreeAssumption DEF TreeAssumption, TypeOK
        <3>2. [pc |-> "walk", at |-> Root, rest |-> p, sure |-> p \in Finished] \in Walk
            BY <3>1
        <3>3. QED BY <2>1, <3>2 DEF FindBegin
    <2>2. CASE FindStep(f)
        <3> DEFINE w == find[f]
                   d == routes[w.at].childRoutes[Head(w.rest)]
        <3>1. w \in Walk
            BY <1>3
        <3>2. find' = [find EXCEPT ![f] =
                         IF w.rest = <<>> THEN [w EXCEPT !.pc = "found"]
                         ELSE IF d = Nil THEN [w EXCEPT !.pc = "missing"]
                         ELSE [w EXCEPT !.at = d, !.rest = Tail(@)]]
            BY <2>2 DEF FindStep
        <3>3. [w EXCEPT !.pc = "found"] \in Walk /\ [w EXCEPT !.pc = "missing"] \in Walk
            BY <3>1
        <3>4. CASE w.rest # <<>> /\ d # Nil
            <4>1. Head(w.rest) \in Segments /\ Tail(w.rest) \in Seq(Segments)
                BY <3>1, <3>4, HeadTailProperties
            <4>2. w.at \in Ids
                BY <3>1
            <4>3. d \in Ids
                BY <3>4, <4>1, <4>2 DEF TypeOK
            <4>4. [w EXCEPT !.at = d, !.rest = Tail(@)] \in Walk
                BY <3>1, <4>1, <4>3
            <4>5. QED BY <3>2, <3>4, <4>4
        <3>5. QED BY <3>2, <3>3, <3>4
    <2>3. QED BY <2>1, <2>2
<1>5. find' \in [Finders -> Walk]
    BY <1>3, <1>4
<1>6. TypeOK'
    BY <1>1, <1>5 DEF TypeOK, Ids
<1>7. QED BY <1>2, <1>6 DEF Tree

LEMMA LookOK ==
    ASSUME TreeInv, NEW m \in Makers, Look(m)
    PROVE  TreeInv'
<1> USE DEF TreeInv
<1> DEFINE d == routes[at[m]].childRoutes[Seg(m)]
<1>1. Tree /\ TypeOK
    BY DEF Tree
<1>2. /\ pc[m] = "look" /\ rest[m] # <<>> /\ at[m] \in Ids
      /\ Seg(m) \in Segments /\ Tail(rest[m]) \in Seq(Segments)
    BY <1>1, PathOfMaker DEF Look, TypeOK
<1>3. d \in {Nil} \cup Ids
    BY <1>1, <1>2 DEF TypeOK
<1>4. ASSUME d # Nil
      PROVE  TreeInv'
    <2>1. /\ at' = [at EXCEPT ![m] = d] /\ rest' = [rest EXCEPT ![m] = Tail(@)]
          /\ UNCHANGED <<routes, pc, turn, fresh, find, raced>>
        BY <1>4 DEF Look, Seg
    <2>2. TypeOK'
        BY <1>1, <1>2, <1>3, <1>4, <2>1 DEF TypeOK, Ids
    <2>3. Tree'
        BY <1>1, <1>2, <2>1, QuietStep DEF TypeOK, Making
    <2>4. QED BY <2>2, <2>3 DEF Tree
<1>5. ASSUME d = Nil
      PROVE  TreeInv'
    <2>1. /\ pc' = [pc EXCEPT ![m] = "make"]
          /\ raced' = IF Meets(m) THEN raced \cup {<<at[m], Seg(m)>>} ELSE raced
          /\ UNCHANGED <<routes, at, rest, turn, fresh, find>>
        BY <1>5 DEF Look, Seg
    <2>2. raced \subseteq raced' /\ raced' \subseteq Ids \X Segments
        BY <1>1, <1>2, <2>1 DEF TypeOK
    <2>3. TypeOK'
        BY <1>1, <1>2, <2>1, <2>2 DEF TypeOK, Ids
    <2>4. PlacesOK' /\ NoTwins'
        BY <1>1, <2>1, <2>2 DEF Tree, PlacesOK, NoTwins, Ids
    <2>5. MakersOK'
        BY <1>1, <1>2, <1>5, <2>1, <2>2 DEF Tree, TypeOK, MakersOK, Making, Seg, Ids
    <2>6. MeetingsOK'
        <3>1. \A n \in Makers \ {m} :
                Making(n) /\ at[n] = at[m] /\ Seg(n) = Seg(m) => <<at[m], Seg(m)>> \in raced'
            BY <2>1 DEF Meets, Making, Seg
        <3>2. \A n \in Makers \ {m} : Making(n)' = Making(n)
            BY <1>1, <2>1 DEF TypeOK, Making
        <3>3. QED
            BY <1>1, <2>1, <2>2, <3>1, <3>2 DEF Tree, MeetingsOK, Seg
    <2>7. (\A i \in Ids \ {Root} : Owned(i))'
        <3>1. \A n \in Makers, i \in Ids : Holds(n, i) => Holds(n, i)'
            BY <1>1, <1>2, <2>1 DEF TypeOK, Holds
        <3>2. QED BY <1>1, <2>1, <2>2, <3>1 DEF Tree, Owned, Ids
    <2>8. QED BY <2>3, <2>4, <2>5, <2>6, <2>7
<1>6. QED BY <1>4, <1>5

LEMMA MakeOK ==
    ASSUME TreeInv, NEW m \in Makers, Make(m)
    PROVE  TreeInv'
<1> USE DEF TreeInv
<1> DEFINE r == RawRoute(at[m], Seg(m))
           k == Len(routes) + 1
<1>1. /\ pc[m] = "make" /\ at[m] \in Ids /\ rest[m] # <<>> /\ Seg(m) \in Segments
      /\ at[m] \in Nat /\ TypeOK
    <2>1. pc[m] = "make" /\ TypeOK
        BY DEF Make
    <2>2. at[m] \in Ids /\ rest[m] # <<>>
        BY <2>1 DEF TypeOK
    <2>3. at[m] \in Nat
        BY ONLY <2>2 DEF Ids
    <2>4. Seg(m) \in Segments
        BY <2>1, <2>2, PathOfMaker
    <2>5. QED BY <2>1, <2>2, <2>3, <2>4
<1>2. r \in Route /\ r.up = at[m] /\ r.path = Seg(m)
      /\ \A s \in Segments : r.childRoutes[s] = Nil
    BY <1>1 DEF RawRoute, Route
<1>3. /\ routes' = Append(routes, r) /\ fresh' = [fresh EXCEPT ![m] = k]
      /\ pc' = [pc EXCEPT ![m] = "store"]
      /\ UNCHANGED <<turn, at, rest, find, raced>>
    BY DEF Make, Seg
<1>4. /\ routes' \in Seq(Route) /\ Len(routes') = k
      /\ \A i \in Ids : routes'[i] = routes[i]
      /\ routes'[k] = r
    BY <1>1, <1>2, <1>3, AppendProperties DEF TypeOK, Ids
<1>5. Ids' = Ids \cup {k} /\ k \notin Ids /\ k # Root /\ k \in Nat
    BY <1>1, <1>4 DEF TypeOK, Ids, Root
<1> HIDE DEF r, k
<1>6. TypeOK'
    <2>1. \A i \in Ids' :
            /\ routes'[i].up \in {Nil} \cup Ids'
            /\ \A s \in Segments : routes'[i].childRoutes[s] \in {Nil} \cup Ids'
        BY <1>1, <1>2, <1>4, <1>5 DEF TypeOK
    <2>2. find' \in [Finders -> [pc : {"idle", "walk", "found", "missing"}, at : Ids',
                                 rest : Seq(Segments), sure : BOOLEAN]]
        <3>1. find \in [Finders -> [pc : {"idle", "walk", "found", "missing"}, at : Ids,
                                    rest : Seq(Segments), sure : BOOLEAN]]
            BY <1>1 DEF TypeOK
        <3>2. Ids \subseteq Ids'
            BY <1>5
        <3>3. QED BY <1>3, <3>1, <3>2
    <2>3. at' \in [Makers -> Ids'] /\ fresh' \in [Makers -> {Nil} \cup Ids']
          /\ raced' \subseteq Ids' \X Segments /\ Root \in Ids'
        BY <1>1, <1>3, <1>5 DEF TypeOK
    <2>4. QED BY <1>1, <1>3, <1>4, <2>1, <2>2, <2>3 DEF TypeOK
<1>7. PlacesOK'
    BY <1>1, <1>2, <1>4, <1>5 DEF PlacesOK, TypeOK
<1>8. \A n \in Makers : (Making(n)' <=> Making(n)) /\ Seg(n)' = Seg(n)
    BY <1>1, <1>3 DEF Making, Seg, TypeOK
<1>9. MakersOK'
    <2>1. \A n \in Makers : at[n] \in Ids /\ routes'[at[n]] = routes[at[n]]
        BY <1>1, <1>4 DEF TypeOK
    <2>2. \A n \in Makers : Making(n)' =>
            routes'[at'[n]].childRoutes[Seg(n)'] = Nil \/ <<at'[n], Seg(n)'>> \in raced'
        BY <1>3, <1>8, <2>1 DEF MakersOK
    <2>3. fresh'[m] = k /\ at'[m] = at[m] /\ Seg(m)' = Seg(m)
        BY <1>1, <1>3, <1>8 DEF TypeOK
    <2>4. ASSUME NEW n \in Makers \ {m}, pc'[n] = "store"
          PROVE  /\ fresh'[n] \in Ids' \ {Root}
                 /\ routes'[fresh'[n]].up = at'[n] /\ routes'[fresh'[n]].path = Seg(n)'
        <3>1. pc[n] = "store" /\ fresh'[n] = fresh[n] /\ at'[n] = at[n]
            BY <1>1, <1>3, <2>4 DEF TypeOK
        <3>2. QED BY <1>4, <1>5, <1>8, <3>1 DEF MakersOK
    <2>5. QED BY <1>2, <1>4, <1>5, <2>2, <2>3, <2>4 DEF MakersOK
<1>10. MeetingsOK'
    BY <1>3, <1>8 DEF MeetingsOK
<1>11. (\A i \in Ids \ {Root} : Owned(i))'
    <2>1. pc'[m] = "store" /\ fresh'[m] = k
        BY <1>1, <1>3 DEF TypeOK
    <2>2. \A n \in Makers, i \in Ids : Holds(n, i) => Holds(n, i)'
        BY <1>1, <1>3 DEF Holds, TypeOK
    <2>3. ASSUME NEW i \in Ids \ {Root}
          PROVE  Owned(i)'
        <3>1. routes'[i] = routes[i] /\ routes'[routes[i].up] = routes[routes[i].up]
            BY <1>4 DEF PlacesOK
        <3>2. QED BY <1>3, <2>2, <3>1 DEF Owned
    <2>4. ASSUME NEW i \in Ids' \ {Root}, i = k
          PROVE  Owned(i)'
        BY <2>1, <2>4 DEF Owned, Holds
    <2>5. QED BY <1>5, <2>3, <2>4
<1>12. NoTwins'
    <2>1. ASSUME NEW j \in Ids, routes[j].up = at[m], routes[j].path = Seg(m)
          PROVE  <<at[m], Seg(m)>> \in raced
        <3>1. j # Root /\ j # Nil
            BY <1>1, <2>1, TreeAssumption DEF TreeAssumption, PlacesOK, Ids
        <3>2. CASE routes[at[m]].childRoutes[Seg(m)] = j
            BY <1>1, <3>1, <3>2 DEF MakersOK, Making
        <3>3. ASSUME NEW n \in Makers, Holds(n, j)
              PROVE  <<at[m], Seg(m)>> \in raced
            BY <1>1, <2>1, <3>3 DEF Holds, MakersOK, MeetingsOK, Making
        <3>4. Owned(j)
            BY <3>1
        <3>5. QED BY <2>1, <3>2, <3>3, <3>4 DEF Owned
    <2>2. ASSUME NEW i \in Ids', NEW j \in Ids', i # j, routes'[i].up = routes'[j].up,
                 routes'[i].path = routes'[j].path
          PROVE  <<routes'[i].up, routes'[i].path>> \in raced
        <3>1. CASE i \in Ids /\ j \in Ids
            BY <1>4, <2>2, <3>1 DEF NoTwins
        <3>2. CASE i = k /\ j \in Ids
            BY <1>2, <1>4, <2>1, <2>2, <3>2
        <3>3. CASE j = k /\ i \in Ids
            BY <1>2, <1>4, <2>1, <2>2, <3>3
        <3>4. QED BY <1>5, <2>2, <3>1, <3>2, <3>3
    <2>3. QED BY <1>3, <2>2 DEF NoTwins
<1>13. QED BY <1>6, <1>7, <1>9, <1>10, <1>11, <1>12

\* Store sets one entry, and that one was empty or has raced.
LEMMA StoreSets ==
    ASSUME TreeInv, NEW m \in Makers, Store(m)
    PROVE  /\ at[m] \in Ids /\ Seg(m) \in Segments /\ fresh[m] \in Ids
           /\ routes[at[m]].childRoutes[Seg(m)] = Nil \/ <<at[m], Seg(m)>> \in raced
           /\ routes' \in Seq(Route) /\ Ids' = Ids /\ raced' = raced
           /\ \A i \in Ids :
                /\ routes'[i].up = routes[i].up /\ routes'[i].path = routes[i].path
                /\ \A t \in Segments : routes'[i].childRoutes[t] =
                     IF i = at[m] /\ t = Seg(m) THEN fresh[m] ELSE routes[i].childRoutes[t]
<1>1. /\ at[m] \in Ids /\ Seg(m) \in Segments /\ fresh[m] \in Ids
      /\ routes[at[m]].childRoutes[Seg(m)] = Nil \/ <<at[m], Seg(m)>> \in raced
      /\ routes \in Seq(Route) /\ raced' = raced
    BY PathOfMaker DEF TreeInv, TypeOK, MakersOK, Making, Store
<1>2. PICK p \in Ids, s \in Segments, c \in Ids : p = at[m] /\ s = Seg(m) /\ c = fresh[m]
    BY <1>1
<1> DEFINE e == [routes[p] EXCEPT !.childRoutes = [@ EXCEPT ![s] = c]]
<1>3. routes' = [routes EXCEPT ![p] = e]
    BY <1>2 DEF Store, Seg
<1>4. \A i \in Ids : routes[i] \in Route
    BY <1>1, ElementOfSeq DEF Ids
<1>5. c \in Nat
    BY DEF Ids
<1>6. /\ e \in Route /\ e.up = routes[p].up /\ e.path = routes[p].path
      /\ \A t \in Segments :
           e.childRoutes[t] = IF t = s THEN c ELSE routes[p].childRoutes[t]
    BY <1>4, <1>5 DEF Route
<1> HIDE DEF e
<1>7. /\ routes' \in Seq(Route) /\ Len(routes') = Len(routes)
      /\ \A i \in 1 .. Len(routes) : routes'[i] = IF i = p THEN e ELSE routes[i]
    BY <1>1, <1>3, <1>6, ExceptSeq DEF Ids
<1>8. /\ Ids' = Ids
      /\ \A i \in Ids :
           /\ routes'[i].up = routes[i].up /\ routes'[i].path = routes[i].path
           /\ \A t \in Segments : routes'[i].childRoutes[t] =
                IF i = p /\ t = s THEN c ELSE routes[i].childRoutes[t]
    BY ONLY <1>6, <1>7 DEF Ids
<1>9. QED BY <1>1, <1>2, <1>7, <1>8

LEMMA StoreOK ==
    ASSUME TreeInv, NEW m \in Makers, Store(m)
    PROVE  TreeInv'
<1>0. /\ routes' \in Seq(Route) /\ Ids' = Ids
      /\ \A i \in Ids :
           /\ routes'[i].up = routes[i].up /\ routes'[i].path = routes[i].path
           /\ \A t \in Segments : routes'[i].childRoutes[t] =
                IF i = at[m] /\ t = Seg(m) THEN fresh[m] ELSE routes[i].childRoutes[t]
    BY StoreSets
<1> USE DEF TreeInv
<1>1. /\ pc[m] = "store" /\ at[m] \in Ids /\ rest[m] # <<>> /\ Seg(m) \in Segments
      /\ Tail(rest[m]) \in Seq(Segments) /\ TypeOK
      /\ fresh[m] \in Ids \ {Root}
      /\ routes[fresh[m]].up = at[m] /\ routes[fresh[m]].path = Seg(m)
    BY PathOfMaker DEF Store, TypeOK, MakersOK
<1>2. PICK p \in Ids, s \in Segments, c \in Ids : p = at[m] /\ s = Seg(m) /\ c = fresh[m]
    BY <1>1
<1>3. /\ routes' = [routes EXCEPT ![p].childRoutes[s] = c]
      /\ at' = [at EXCEPT ![m] = c] /\ rest' = [rest EXCEPT ![m] = Tail(@)]
      /\ pc' = [pc EXCEPT ![m] = "look"]
      /\ UNCHANGED <<turn, fresh, find, raced>>
    BY <1>2 DEF Store, Seg
<1>4. /\ routes' \in Seq(Route) /\ Ids' = Ids
      /\ \A i \in Ids :
           /\ routes'[i].up = routes[i].up /\ routes'[i].path = routes[i].path
           /\ \A t \in Segments : routes'[i].childRoutes[t] =
                IF i = p /\ t = s THEN c ELSE routes[i].childRoutes[t]
    BY ONLY <1>0, <1>2
<1>5. TypeOK'
    <2>1. \A i \in Ids' :
            /\ routes'[i].up \in {Nil} \cup Ids'
            /\ \A t \in Segments : routes'[i].childRoutes[t] \in {Nil} \cup Ids'
        <3>1. ASSUME NEW i \in Ids, NEW t \in Segments
              PROVE  routes'[i].childRoutes[t] \in {Nil} \cup Ids
            <4>1. routes[i].childRoutes[t] \in {Nil} \cup Ids
                BY <1>1 DEF TypeOK
            <4>2. routes'[i].childRoutes[t] = IF i = p /\ t = s THEN c
                                                ELSE routes[i].childRoutes[t]
                BY <1>4
            <4>3. QED BY <4>1, <4>2
        <3>2. \A i \in Ids : routes'[i].up = routes[i].up /\ routes[i].up \in {Nil} \cup Ids
            BY <1>1, <1>4 DEF TypeOK
        <3>3. QED BY <1>4, <3>1, <3>2
    <2>2. at' \in [Makers -> Ids] /\ rest' \in [Makers -> Seq(Segments)]
          /\ pc' \in [Makers -> {"idle", "look", "make", "store"}]
        BY <1>1, <1>3 DEF TypeOK
    <2>3. QED BY <1>1, <1>3, <1>4, <2>1, <2>2 DEF TypeOK
<1>6. PlacesOK'
    BY <1>1, <1>4 DEF PlacesOK, TypeOK
<1>7. /\ ~Making(m)'
      /\ \A n \in Makers \ {m} :
           (Making(n)' <=> Making(n)) /\ pc'[n] = pc[n] /\ at'[n] = at[n]
           /\ Seg(n)' = Seg(n) /\ fresh'[n] = fresh[n]
    BY <1>1, <1>3 DEF Making, Seg, TypeOK
<1>8. MakersOK'
    <2>1. ASSUME NEW n \in Makers \ {m}, Making(n)
          PROVE  routes'[at[n]].childRoutes[Seg(n)] = Nil \/ <<at[n], Seg(n)>> \in raced
        <3>1. at[n] \in Ids /\ Seg(n) \in Segments
            BY <1>1, <2>1, PathOfMaker DEF TypeOK, Making
        <3>2. CASE at[n] = p /\ Seg(n) = s
            BY <1>1, <1>2, <2>1, <3>2 DEF MeetingsOK, Making
        <3>3. CASE ~(at[n] = p /\ Seg(n) = s)
            BY <1>4, <2>1, <3>1, <3>3 DEF MakersOK
        <3>4. QED BY <3>2, <3>3
    <2>2. ASSUME NEW n \in Makers \ {m}, pc[n] = "store"
          PROVE  /\ fresh[n] \in Ids \ {Root}
                 /\ routes'[fresh[n]].up = at[n] /\ routes'[fresh[n]].path = Seg(n)
        BY <1>4, <2>2 DEF MakersOK
    <2>3. pc'[m] = "look"
        BY <1>1, <1>3 DEF TypeOK
    <2>4. QED BY <1>3, <1>4, <1>7, <2>1, <2>2, <2>3 DEF MakersOK
<1>9. MeetingsOK'
    BY <1>3, <1>7 DEF MeetingsOK
<1>10. ASSUME NEW i \in Ids \ {Root}
       PROVE  Owned(i)'
    <2>1. routes[i].up \in Ids /\ routes[i].path \in Segments
        BY DEF PlacesOK
    <2>2. /\ routes'[i].up = routes[i].up /\ routes'[i].path = routes[i].path
          /\ raced' = raced
        BY <1>3, <1>4
    <2>3. CASE routes[i].up = p /\ routes[i].path = s
        <3>1. CASE routes[p].childRoutes[s] = i
            <4>1. i # Nil
                BY TreeAssumption DEF TreeAssumption, Ids
            <4>2. <<p, s>> \in raced
                BY <1>1, <1>2, <3>1, <4>1 DEF MakersOK, Making
            <4>3. QED BY <2>3, <2>2, <4>2 DEF Owned
        <3>2. CASE <<p, s>> \in raced
            BY <2>3, <2>2, <3>2 DEF Owned
        <3>3. ASSUME NEW n \in Makers, Holds(n, i)
              PROVE  Owned(i)'
            <4>1. CASE n = m
                BY <1>2, <1>4, <2>3, <3>3, <4>1 DEF Owned, Holds
            <4>2. CASE n # m
                BY <1>7, <3>3, <4>2 DEF Owned, Holds
            <4>3. QED BY <4>1, <4>2
        <3>4. Owned(i)
            OBVIOUS
        <3>5. QED BY <2>3, <3>1, <3>2, <3>3, <3>4 DEF Owned
    <2>4. CASE ~(routes[i].up = p /\ routes[i].path = s)
        <3>1. ~Holds(m, i)
            BY <1>1, <1>2, <2>4 DEF Holds
        <3>2. \A n \in Makers : Holds(n, i) => Holds(n, i)'
            BY <1>7, <3>1 DEF Holds
        <3>3. routes'[routes'[i].up].childRoutes[routes'[i].path]
                = routes[routes[i].up].childRoutes[routes[i].path]
            BY <1>4, <2>1, <2>4
        <3>4. Owned(i)
            OBVIOUS
        <3>5. QED BY <2>2, <3>2, <3>3, <3>4 DEF Owned
    <2>5. QED BY <2>3, <2>4
<1>11. NoTwins'
    <2>1. \A i \in Ids : routes'[i].up = routes[i].up /\ routes'[i].path = routes[i].path
        BY <1>4
    <2>2. Ids' = Ids /\ raced' = raced
        BY <1>3, <1>4
    <2>3. QED BY <2>1, <2>2 DEF NoTwins
<1>12. QED BY <1>4, <1>5, <1>6, <1>8, <1>9, <1>10, <1>11

LEMMA NextTreeInv == TreeInv /\ [Next]_vars => TreeInv'
<1> SUFFICES ASSUME TreeInv, [Next]_vars
             PROVE  TreeInv'
    OBVIOUS
<1>1. CASE UNCHANGED vars
    BY <1>1
       DEF vars, makerVars, TreeInv, TypeOK, PlacesOK, MakersOK, MeetingsOK, Owned, Holds,
           NoTwins, Making, Seg, Ids
<1>2. QED
    BY <1>1, BeginOK, ReturnOK, LookOK, MakeOK, StoreOK, FindOK DEF Next

\* The inductive invariant holds throughout every run.
THEOREM TreeInvariant == Spec => []TreeInv
<1>1. QED BY InitTreeInv, NextTreeInv, PTL DEF Spec

\* The variables keep their types: what is stored in the tree are its routes.
THEOREM TreeTypes == Spec => []TypeOK
<1>1. TreeInv => TypeOK
    BY DEF TreeInv
<1>2. QED BY <1>1, TreeInvariant, PTL

\* src/route.go lines 203-212: no twins but where two calls of New overlapped
\* between the lookup and the store.
THEOREM TreeHasNoTwins == Spec => []NoTwins
<1>1. TreeInv => NoTwins
    BY DEF TreeInv
<1>2. QED BY <1>1, TreeInvariant, PTL
----------------------------------------------------------------------------
\* The segments that maker m has passed on the path it works on.
Passed(m) == Len(Jobs[m][turn[m]]) - Len(rest[m])

\* A maker is where the segments it has passed lead to, unless another has met a
\* call of New on one of them, and has the others left.
OnPath(m) ==
    pc[m] # "idle" =>
        LET p == Jobs[m][turn[m]] IN
        /\ Passed(m) \in 0 .. Len(p)
        /\ \A i \in 1 .. Len(rest[m]) : rest[m][i] = p[Passed(m) + i]
        /\ Calm(p) => \E way \in [0 .. Passed(m) -> Ids] :
                         Leads(Root, p, Passed(m), way) /\ way[Passed(m)] = at[m]

\* What is left of the path of a sure search is in the tree, if no two calls of New
\* have met; so it does not end before.
Searches(f) ==
    raced = {} /\ find[f].sure =>
        /\ find[f].pc # "missing"
        /\ find[f].pc = "walk" =>
             \E way \in [0 .. Len(find[f].rest) -> Ids] :
                Leads(find[f].at, find[f].rest, Len(find[f].rest), way)

FindInv ==
    /\ \A p \in Finished : Calm(p) => InTree(p)
    /\ \A m \in Makers : OnPath(m)
    /\ \A f \in Finders : Searches(f)

\* The paths of the makers.
LEMMA JobOK ==
    ASSUME TypeOK, NEW m \in Makers, NEW i \in 1 .. Len(Jobs[m])
    PROVE  Jobs[m][i] \in Seq(Segments) /\ Len(Jobs[m][i]) \in Nat
<1>1. Jobs[m] \in Seq(Seq(Segments) \ {<<>>})
    BY TreeAssumption
<1>2. Jobs[m][i] \in Seq(Segments)
    BY <1>1, ElementOfSeq
<1>3. QED BY <1>2, LenProperties

LEMMA PathOK ==
    ASSUME TypeOK, NEW m \in Makers, pc[m] # "idle"
    PROVE  /\ Jobs[m][turn[m]] \in Seq(Segments) /\ Len(Jobs[m][turn[m]]) \in Nat
           /\ rest[m] \in Seq(Segments) /\ Len(rest[m]) \in Nat
<1>1. Len(Jobs[m]) \in Nat
    BY TreeAssumption, LenProperties
<1>2. turn[m] \in 1 .. Len(Jobs[m]) /\ rest[m] \in Seq(Segments)
    BY <1>1 DEF TypeOK
<1>3. QED BY <1>2, JobOK, LenProperties

\* A step changes an entry of the tree only if there was none or makers have met at
\* it; no route and no meeting is forgotten.
LEMMA LinksKept ==
    ASSUME TreeInv, [Next]_vars
    PROVE  /\ Ids \subseteq Ids' /\ raced \subseteq raced'
           /\ \A i \in Ids, s \in Segments :
                routes[i].childRoutes[s] # Nil /\ <<i, s>> \notin raced
                  => routes'[i].childRoutes[s] = routes[i].childRoutes[s]
<1>1. CASE routes' = routes /\ raced \subseteq raced'
    BY <1>1 DEF Ids
<1>2. ASSUME NEW m \in Makers, Begin(m) \/ Return(m) \/ Look(m)
      PROVE  routes' = routes /\ raced \subseteq raced'
    BY <1>2 DEF Begin, Return, Look
<1>3. ASSUME NEW f \in Finders, (\E p \in Wanted : FindBegin(f, p)) \/ FindStep(f)
      PROVE  routes' = routes /\ raced \subseteq raced'
    BY <1>3 DEF FindBegin, FindStep
<1>4. CASE UNCHANGED vars
    BY <1>1, <1>4 DEF vars
<1>5. ASSUME NEW m \in Makers, Make(m)
      PROVE  /\ Ids \subseteq Ids' /\ raced' = raced
             /\ \A i \in Ids : routes'[i] = routes[i]
  <2> DEFINE r == RawRoute(at[m], Head(rest[m]))
  <2>1. /\ at[m] \in Nat /\ Head(rest[m]) \in Segments /\ routes \in Seq(Route)
      BY <1>5, PathOfMaker DEF TreeInv, TypeOK, Make, Seg, Ids
  <2>2. r \in Route
      BY <2>1 DEF RawRoute, Route
  <2>3. routes' = Append(routes, r) /\ raced' = raced
      BY <1>5 DEF Make
  <2> HIDE DEF r
  <2>4. /\ Len(routes') = Len(routes) + 1
        /\ \A i \in 1 .. Len(routes) : routes'[i] = routes[i]
      BY <2>1, <2>2, <2>3, AppendProperties
  <2>5. Len(routes) \in Nat
      BY <2>1, LenProperties
  <2>6. QED BY <2>3, <2>4, <2>5 DEF Ids
<1>6. ASSUME NEW m \in Makers, Store(m)
      PROVE  /\ Ids' = Ids /\ raced' = raced
             /\ \A i \in Ids, s \in Segments :
                  routes[i].childRoutes[s] # Nil /\ <<i, s>> \notin raced
                    => routes'[i].childRoutes[s] = routes[i].childRoutes[s]
  <2>1. /\ Ids' = Ids /\ raced' = raced
        /\ routes[at[m]].childRoutes[Seg(m)] = Nil \/ <<at[m], Seg(m)>> \in raced
        /\ \A i \in Ids, s \in Segments : routes'[i].childRoutes[s] =
             IF i = at[m] /\ s = Seg(m) THEN fresh[m] ELSE routes[i].childRoutes[s]
      BY <1>6, StoreSets
  <2>2. QED BY ONLY <2>1
<1>7. QED BY <1>1, <1>2, <1>3, <1>4, <1>5, <1>6 DEF Next

\* A step keeps the way along a path that no makers have met on.
LEMMA WayKept ==
    ASSUME TreeInv, [Next]_vars, NEW p \in Seq(Segments), NEW n \in 0 .. Len(p),
           Calm(p)', NEW a, NEW way \in [0 .. n -> Ids], Leads(a, p, n, way)
    PROVE  way \in [0 .. n -> Ids'] /\ Leads(a, p, n, way)'
<1>1. Ids \subseteq Ids' /\ raced \subseteq raced'
    BY LinksKept
<1>2. ASSUME NEW i \in 1 .. n
      PROVE  routes'[way[i - 1]].childRoutes[p[i]] = way[i]
  <2>1. i \in 1 .. Len(p) /\ i - 1 \in 0 .. n /\ i \in 0 .. n
      OBVIOUS
  <2>2. way[i - 1] \in Ids /\ way[i] \in Ids /\ p[i] \in Segments
      BY <2>1, ElementOfSeq
  <2>3. routes[way[i - 1]].childRoutes[p[i]] = way[i] /\ way[i] # Nil
    <3>1. way[i] # Nil
        BY ONLY <2>2, TreeAssumption DEF Ids
    <3>2. QED BY <3>1 DEF Leads
  <2>4. <<way[i - 1], p[i]>> \notin raced
      BY <1>1, <2>1 DEF Calm
  <2>5. QED BY <2>2, <2>3, <2>4, LinksKept
<1>3. QED BY <1>1, <1>2 DEF Leads

\* A maker whose own place does not change stays on its path.
LEMMA StaysOnPath ==
    ASSUME TreeInv, [Next]_vars, NEW m \in Makers, OnPath(m),
           pc'[m] = "idle" <=> pc[m] = "idle",
           turn'[m] = turn[m], at'[m] = at[m], rest'[m] = rest[m]
    PROVE  OnPath(m)'
<1> DEFINE p == Jobs[m][turn[m]]
<1>1. SUFFICES ASSUME pc[m] # "idle"
               PROVE  OnPath(m)'
    BY DEF OnPath
<1>2. p \in Seq(Segments) /\ Passed(m)' = Passed(m) /\ Passed(m) \in 0 .. Len(p)
  <2>1. p \in Seq(Segments)
      BY <1>1, PathOK DEF TreeInv
  <2>2. QED BY <1>1, <2>1 DEF OnPath, Passed
<1>3. ASSUME Calm(p)'
      PROVE  \E way \in [0 .. Passed(m) -> Ids'] :
               Leads(Root, p, Passed(m), way)' /\ way[Passed(m)] = at[m]
  <2>1. Calm(p)
      BY <1>3, LinksKept DEF Calm
  <2>2. PICK way \in [0 .. Passed(m) -> Ids] :
               Leads(Root, p, Passed(m), way) /\ way[Passed(m)] = at[m]
      BY <1>1, <2>1 DEF OnPath
  <2>3. QED BY <1>2, <1>3, <2>2, WayKept
<1>4. QED BY <1>1, <1>2, <1>3 DEF OnPath, Leads

\* A maker that goes on in the child it finds, or has made, is still on its path.
LEMMA StepsDown ==
    ASSUME TreeInv, [Next]_vars, NEW m \in Makers, OnPath(m),
           pc[m] # "idle", rest[m] # <<>>,
           turn'[m] = turn[m], rest'[m] = Tail(rest[m]), at'[m] \in Ids',
           routes'[at[m]].childRoutes[Head(rest[m])] = at'[m]
    PROVE  OnPath(m)'
<1>1. PICK p \in Seq(Segments), n \in Nat :
         /\ p = Jobs[m][turn[m]] /\ n = Passed(m)
         /\ n <= Len(p) /\ Len(rest[m]) = Len(p) - n
         /\ \A i \in 1 .. Len(rest[m]) : rest[m][i] = p[n + i]
         /\ Calm(p) => \E way \in [0 .. n -> Ids] :
                         Leads(Root, p, n, way) /\ way[n] = at[m]
  <2> DEFINE p == Jobs[m][turn[m]]
  <2>1. /\ p \in Seq(Segments) /\ Len(p) \in Nat /\ Len(rest[m]) \in Nat
      BY PathOK DEF TreeInv
  <2>2. /\ Passed(m) \in 0 .. Len(p)
        /\ \A i \in 1 .. Len(rest[m]) : rest[m][i] = p[Passed(m) + i]
        /\ Calm(p) => \E way \in [0 .. Passed(m) -> Ids] :
                        Leads(Root, p, Passed(m), way) /\ way[Passed(m)] = at[m]
      BY DEF OnPath
  <2>3. Passed(m) = Len(p) - Len(rest[m])
      BY DEF Passed
  <2> HIDE DEF p
  <2>4. Passed(m) \in Nat /\ Passed(m) <= Len(p) /\ Len(rest[m]) = Len(p) - Passed(m)
      BY ONLY <2>1, <2>2, <2>3
  <2>5. QED BY ONLY <2>1, <2>2, <2>4 DEF p
<1>2. Len(p) \in Nat /\ rest[m] \in Seq(Segments) /\ Len(rest[m]) \in Nat \ {0}
  <2>1. rest[m] \in Seq(Segments) /\ Len(rest[m]) \in Nat
      BY PathOK DEF TreeInv
  <2>2. Len(rest[m]) # 0
      BY <2>1, EmptySeq
  <2>3. QED BY <2>1, <2>2, LenProperties
<1>3. /\ Head(rest[m]) = rest[m][1]
      /\ rest'[m] \in Seq(Segments)
      /\ Len(rest'[m]) = Len(rest[m]) - 1
      /\ \A i \in 1 .. Len(rest'[m]) : rest'[m][i] = rest[m][i + 1]
    BY <1>2, HeadTailProperties
<1>4. /\ Head(rest[m]) = p[n + 1] /\ n + 1 <= Len(p)
      /\ Len(rest'[m]) = Len(p) - (n + 1)
  <2>1. n \in Nat /\ Len(rest[m]) = Len(p) - n
      BY <1>1
  <2>2. n + 1 <= Len(p) /\ Len(rest'[m]) = Len(p) - (n + 1) /\ 1 \in 1 .. Len(rest[m])
      BY ONLY <1>2, <1>3, <2>1
  <2>3. QED BY <1>1, <1>3, <2>2
<1>5. Passed(m)' = n + 1
  <2>1. Passed(m)' = Len(p) - Len(rest'[m])
      BY <1>1 DEF Passed
  <2>2. QED BY ONLY <1>1, <1>2, <1>4, <2>1
<1>6. ASSUME NEW i \in 1 .. Len(rest'[m])
      PROVE  rest'[m][i] = p[n + 1 + i]
  <2>1. i + 1 \in 1 .. Len(rest[m]) /\ n + (i + 1) = n + 1 + i
    <3>1. i \in 1 .. Len(rest[m]) - 1
        BY <1>3
    <3>2. QED BY ONLY <1>2, <3>1, n \in Nat
  <2>2. rest[m][i + 1] = p[n + (i + 1)] /\ rest'[m][i] = rest[m][i + 1]
      BY <1>1, <1>3, <2>1
  <2>3. QED BY ONLY <2>1, <2>2
<1>7. ASSUME Calm(p)'
      PROVE  \E way \in [0 .. n + 1 -> Ids'] :
               Leads(Root, p, n + 1, way)' /\ way[n + 1] = at'[m]
  <2>1. Calm(p)
      BY <1>7, LinksKept DEF Calm
  <2>2. PICK w \in [0 .. n -> Ids] : Leads(Root, p, n, w) /\ w[n] = at[m]
      BY <1>1, <2>1
  <2>3. n \in 0 .. Len(p)
      BY ONLY <1>1, <1>2
  <2>4. w \in [0 .. n -> Ids'] /\ Leads(Root, p, n, w)'
      BY <1>7, <2>2, <2>3, WayKept
  <2>5. /\ w[0] = Root
        /\ \A i \in 1 .. n : routes'[w[i - 1]].childRoutes[p[i]] = w[i]
      BY <2>4 DEF Leads
  <2>6. PICK d \in Ids' : d = at'[m] /\ routes'[w[n]].childRoutes[p[n + 1]] = d
      BY <1>4, <2>2
  <2>7. \E way \in [0 .. n + 1 -> Ids'] :
           /\ way[n + 1] = d /\ way[0] = Root
           /\ \A i \in 1 .. n + 1 : routes'[way[i - 1]].childRoutes[p[i]] = way[i]
    <3> DEFINE way == [i \in 0 .. n + 1 |-> IF i = n + 1 THEN d ELSE w[i]]
    <3>1. /\ way \in [0 .. n + 1 -> Ids'] /\ way[n + 1] = d
          /\ \A i \in 0 .. n : way[i] = w[i]
        BY ONLY n \in Nat, <2>4, <2>6
    <3> HIDE DEF way
    <3>2. way[0] = Root /\ way[n] = w[n]
        BY ONLY n \in Nat, <2>5, <3>1
    <3>3. ASSUME NEW i \in 1 .. n + 1
          PROVE  routes'[way[i - 1]].childRoutes[p[i]] = way[i]
      <4>1. CASE i = n + 1
        <5>1. way[i - 1] = w[n] /\ way[i] = d
            BY ONLY <1>1, <3>1, <3>2, <4>1
        <5>2. QED BY ONLY <2>6, <4>1, <5>1
      <4>2. CASE i \in 1 .. n
        <5>1. way[i - 1] = w[i - 1] /\ way[i] = w[i]
            BY ONLY <1>1, <3>1, <4>2
        <5>2. QED BY ONLY <2>5, <4>2, <5>1
      <4>3. QED BY ONLY <1>1, <4>1, <4>2, i \in 1 .. n + 1
    <3>4. QED BY <3>1, <3>2, <3>3
  <2>8. QED BY <2>6, <2>7 DEF Leads
<1>8. Jobs[m][turn'[m]] = p /\ n + 1 \in 0 .. Len(p)
    BY <1>1, <1>2, <1>4
<1>9. QED BY <1>5, <1>6, <1>7, <1>8 DEF OnPath

LEMMA SearchKept ==
    ASSUME TreeInv, [Next]_vars, NEW f \in Finders, Searches(f), find'[f] = find[f]
    PROVE  Searches(f)'
<1> DEFINE p == find[f].rest
           a == find[f].at
<1>1. SUFFICES ASSUME raced' = {}, find[f].sure
               PROVE  Searches(f)'
    BY DEF Searches
<1>2. raced = {}
    BY <1>1, LinksKept
<1>3. find[f].pc # "missing"
    BY <1>1, <1>2 DEF Searches
<1>4. ASSUME find[f].pc = "walk"
      PROVE  \E way \in [0 .. Len(p) -> Ids'] : Leads(a, p, Len(p), way)'
  <2>1. PICK q \in Seq(Segments) : q = p
      BY DEF TreeInv, TypeOK
  <2>2. PICK way \in [0 .. Len(q) -> Ids] : Leads(a, q, Len(q), way)
      BY <1>1, <1>2, <1>4, <2>1 DEF Searches
  <2>3. Calm(q)' /\ Len(q) \in 0 .. Len(q)
      BY <1>1, LenProperties DEF Calm
  <2>4. PICK b : b = a
      OBVIOUS
  <2>5. way \in [0 .. Len(q) -> Ids'] /\ Leads(b, q, Len(q), way)'
      BY <2>2, <2>3, <2>4, WayKept
  <2>6. Leads(a, p, Len(p), way)'
      BY <2>1, <2>4, <2>5 DEF Leads
  <2>7. QED BY <2>1, <2>5, <2>6
<1>5. QED BY <1>3, <1>4 DEF Searches

LEMMA InTreeKept ==
    ASSUME TreeInv, [Next]_vars, NEW p \in Seq(Segments), Calm(p) => InTree(p), Calm(p)'
    PROVE  InTree(p)'
<1>1. Calm(p)
    BY LinksKept DEF Calm
<1>2. PICK way \in [0 .. Len(p) -> Ids] : Leads(Root, p, Len(p), way)
    BY <1>1 DEF InTree
<1>3. Len(p) \in 0 .. Len(p)
    BY LenProperties
<1>4. way \in [0 .. Len(p) -> Ids'] /\ Leads(Root, p, Len(p), way)'
    BY <1>2, <1>3, WayKept
<1>5. QED BY <1>4 DEF InTree

LEMMA FinishedTypes ==
    ASSUME TypeOK
    PROVE  Finished \subseteq Seq(Segments)
<1>1. ASSUME NEW m \in Makers, NEW i \in 1 .. turn[m] - 1
      PROVE  Jobs[m][i] \in Seq(Segments)
  <2>1. Len(Jobs[m]) \in Nat
      BY TreeAssumption, LenProperties
  <2>2. turn[m] \in 1 .. Len(Jobs[m]) + 1
      BY DEF TypeOK
  <2>3. i \in 1 .. Len(Jobs[m])
      BY ONLY <2>1, <2>2, i \in 1 .. turn[m] - 1
  <2>4. QED BY <2>3, JobOK
<1>2. QED BY <1>1 DEF Finished

\* A step of maker m after which it is on its path.
LEMMA MakerStep ==
    ASSUME TreeInv, [Next]_vars, FindInv, NEW m \in Makers, OnPath(m)',
           \A n \in Makers \ {m} : pc'[n] = pc[n] /\ at'[n] = at[n] /\ rest'[n] = rest[n],
           UNCHANGED <<turn, find>>
    PROVE  FindInv'
<1>1. \A n \in Makers \ {m} : OnPath(n)'
    BY StaysOnPath DEF FindInv
<1>2. \A f \in Finders : Searches(f)'
    BY SearchKept DEF FindInv
<1>3. ASSUME NEW p \in Finished', Calm(p)'
      PROVE  InTree(p)'
  <2>1. p \in Finished /\ p \in Seq(Segments)
      BY FinishedTypes DEF Finished, TreeInv
  <2>2. PICK q \in Seq(Segments) : q = p
      BY <2>1
  <2>3. Calm(q)' /\ (Calm(q) => InTree(q))
      BY <1>3, <2>1, <2>2 DEF FindInv, Calm
  <2>4. InTree(q)'
      BY <2>3, InTreeKept
  <2>5. QED BY <2>2, <2>4 DEF InTree, Leads
<1>4. QED BY <1>1, <1>2, <1>3 DEF FindInv

LEMMA BeginFinds ==
    ASSUME TreeInv, FindInv, NEW m \in Makers, Begin(m)
    PROVE  FindInv'
<1>1. /\ pc' = [pc EXCEPT ![m] = "look"] /\ at' = [at EXCEPT ![m] = Root]
      /\ rest' = [rest EXCEPT ![m] = Jobs[m][turn[m]]]
      /\ UNCHANGED <<routes, turn, fresh, find, raced>>
      /\ turn[m] <= Len(Jobs[m])
    BY DEF Begin
<1>2. /\ pc'[m] = "look" /\ at'[m] = Root /\ rest'[m] = Jobs[m][turn[m]]
      /\ \A n \in Makers \ {m} : pc'[n] = pc[n] /\ at'[n] = at[n] /\ rest'[n] = rest[n]
    BY <1>1 DEF TreeInv, TypeOK
<1>3. PICK p \in Seq(Segments) : p = Jobs[m][turn[m]]
  <2>1. Len(Jobs[m]) \in Nat
      BY TreeAssumption, LenProperties
  <2>2. turn[m] \in 1 .. Len(Jobs[m]) + 1
      BY DEF TreeInv, TypeOK
  <2>3. turn[m] \in 1 .. Len(Jobs[m])
      BY ONLY <1>1, <2>1, <2>2
  <2>4. QED BY <2>3, JobOK DEF TreeInv
<1>4. Passed(m)' = 0 /\ Len(p) \in Nat
  <2>1. Passed(m)' = Len(p) - Len(p) /\ Len(p) \in Nat
      BY <1>1, <1>2, <1>3, LenProperties DEF Passed
  <2>2. QED BY ONLY <2>1
<1>5. \E way \in [0 .. 0 -> Ids'] : Leads(Root, p, 0, way)' /\ way[0] = Root
  <2> DEFINE way == [i \in 0 .. 0 |-> Root]
  <2>1. way \in [0 .. 0 -> Ids'] /\ way[0] = Root
      BY <1>1 DEF TreeInv, TypeOK, Ids
  <2> HIDE DEF way
  <2>2. QED BY <2>1 DEF Leads
<1>6. OnPath(m)'
  <2>1. 0 \in 0 .. Len(p) /\ \A i \in 1 .. Len(p) : p[0 + i] = p[i]
      BY <1>4
  <2>2. QED BY <1>1, <1>2, <1>3, <1>4, <1>5, <2>1 DEF OnPath
<1>7. [Next]_vars
    BY DEF Next
<1>8. QED BY <1>1, <1>2, <1>6, <1>7, MakerStep

LEMMA LookFinds ==
    ASSUME TreeInv, FindInv, NEW m \in Makers, Look(m)
    PROVE  FindInv'
<1>1. [Next]_vars /\ OnPath(m) /\ TreeInv' /\ UNCHANGED <<routes, turn, find>>
    BY LookOK DEF Next, FindInv, Look
<1>2. at' \in [Makers -> Ids'] /\ pc[m] = "look" /\ rest[m] # <<>>
    BY <1>1 DEF TreeInv, TypeOK, Look
<1> DEFINE d == routes[at[m]].childRoutes[Head(rest[m])]
<1>3. CASE d # Nil
  <2>1. /\ at' = [at EXCEPT ![m] = d] /\ rest' = [rest EXCEPT ![m] = Tail(@)]
        /\ pc' = pc
      BY <1>3 DEF Look
  <2>2. /\ pc'[m] = pc[m] /\ at'[m] = d /\ rest'[m] = Tail(rest[m])
        /\ \A n \in Makers \ {m} : pc'[n] = pc[n] /\ at'[n] = at[n] /\ rest'[n] = rest[n]
      BY <2>1 DEF TreeInv, TypeOK
  <2>3. OnPath(m)'
      BY <1>1, <1>2, <2>2, StepsDown
  <2>4. QED BY <1>1, <2>2, <2>3, MakerStep
<1>4. CASE d = Nil
  <2>1. pc' = [pc EXCEPT ![m] = "make"] /\ UNCHANGED <<at, rest>>
      BY <1>4 DEF Look
  <2>2. pc'[m] = "make" /\ \A n \in Makers \ {m} : pc'[n] = pc[n]
      BY <2>1 DEF TreeInv, TypeOK
  <2>3. OnPath(m)'
      BY <1>1, <1>2, <2>1, <2>2, StaysOnPath
  <2>4. QED BY <1>1, <2>1, <2>2, <2>3, MakerStep
<1>5. QED BY <1>3, <1>4

LEMMA MakeFinds ==
    ASSUME TreeInv, FindInv, NEW m \in Makers, Make(m)
    PROVE  FindInv'
<1>1. /\ [Next]_vars /\ OnPath(m) /\ pc[m] = "make" /\ pc' = [pc EXCEPT ![m] = "store"]
      /\ UNCHANGED <<turn, at, rest, find>>
    BY DEF Next, FindInv, Make
<1>2. pc'[m] = "store" /\ \A n \in Makers \ {m} : pc'[n] = pc[n]
    BY <1>1 DEF TreeInv, TypeOK
<1>3. OnPath(m)'
    BY <1>1, <1>2, StaysOnPath
<1>4. QED BY <1>1, <1>2, <1>3, MakerStep

LEMMA StoreFinds ==
    ASSUME TreeInv, FindInv, NEW m \in Makers, Store(m)
    PROVE  FindInv'
<1>1. /\ [Next]_vars /\ OnPath(m) /\ pc[m] = "store" /\ rest[m] # <<>>
      /\ at' = [at EXCEPT ![m] = fresh[m]] /\ rest' = [rest EXCEPT ![m] = Tail(@)]
      /\ pc' = [pc EXCEPT ![m] = "look"] /\ UNCHANGED <<turn, find>>
    BY DEF Next, FindInv, Store, TreeInv, TypeOK
<1>2. /\ pc'[m] = "look" /\ at'[m] = fresh[m] /\ rest'[m] = Tail(rest[m])
      /\ \A n \in Makers \ {m} : pc'[n] = pc[n] /\ at'[n] = at[n] /\ rest'[n] = rest[n]
    BY <1>1 DEF TreeInv, TypeOK
<1>3. fresh[m] \in Ids' /\ routes'[at[m]].childRoutes[Head(rest[m])] = fresh[m]
    BY StoreSets DEF Seg
<1>4. OnPath(m)'
    BY <1>1, <1>2, <1>3, StepsDown
<1>5. QED BY <1>1, <1>2, <1>4, MakerStep

\* When New returns, all segments are passed: the path is in the tree.
LEMMA ReturnFinds ==
    ASSUME TreeInv, FindInv, NEW m \in Makers, Return(m)
    PROVE  FindInv'
<1>1. /\ [Next]_vars /\ pc[m] = "look" /\ rest[m] = <<>>
      /\ pc' = [pc EXCEPT ![m] = "idle"] /\ turn' = [turn EXCEPT ![m] = @ + 1]
      /\ UNCHANGED <<routes, at, rest, fresh, find, raced>>
    BY DEF Next, Return
<1>2. /\ pc'[m] = "idle" /\ turn'[m] = turn[m] + 1 /\ turn[m] \in Nat
      /\ \A n \in Makers \ {m} : pc'[n] = pc[n] /\ turn'[n] = turn[n]
    BY <1>1 DEF TreeInv, TypeOK
<1>3. PICK p \in Seq(Segments) : p = Jobs[m][turn[m]]
    BY <1>1, PathOK DEF TreeInv
<1>4. Finished' \subseteq Finished \cup {p}
  <2>1. ASSUME NEW n \in Makers, NEW i \in 1 .. turn'[n] - 1
        PROVE  Jobs[n][i] \in Finished \cup {p}
    <3>1. CASE i \in 1 .. turn[n] - 1
        BY <3>1 DEF Finished
    <3>2. CASE n = m /\ i = turn[m]
        BY <1>3, <3>2
    <3>3. i \in 1 .. turn[n] - 1 \/ (n = m /\ i = turn[m])
        BY <1>2
    <3>4. QED BY <3>1, <3>2, <3>3
  <2>2. QED BY <2>1 DEF Finished
<1>5. Calm(p) => InTree(p)
  <2>1. Passed(m) = Len(p) /\ Len(p) \in Nat
    <3>1. Passed(m) = Len(p) - Len(<<>>) /\ Len(p) \in Nat
        BY <1>1, <1>3, LenProperties DEF Passed
    <3>2. QED BY <3>1
  <2>2. Calm(p) => \E way \in [0 .. Len(p) -> Ids] : Leads(Root, p, Len(p), way)
      BY <1>1, <1>3, <2>1 DEF FindInv, OnPath
  <2>3. QED BY <2>2 DEF InTree
<1>6. ASSUME NEW q \in Finished', Calm(q)'
      PROVE  InTree(q)'
  <2>1. PICK r \in Seq(Segments) : r = q /\ (Calm(r) => InTree(r))
      BY <1>4, <1>5, FinishedTypes DEF FindInv, TreeInv
  <2>2. Calm(r)'
      BY <1>6, <2>1 DEF Calm
  <2>3. InTree(r)'
      BY <1>1, <2>1, <2>2, InTreeKept
  <2>4. QED BY <2>1, <2>3 DEF InTree, Leads
<1>7. \A n \in Makers \ {m} : OnPath(n)'
    BY <1>1, <1>2, StaysOnPath DEF FindInv
<1>8. OnPath(m)'
    BY <1>2 DEF OnPath
<1>9. \A f \in Finders : Searches(f)'
    BY <1>1, SearchKept DEF FindInv
<1>10. QED BY <1>6, <1>7, <1>8, <1>9 DEF FindInv

\* A step that leaves the makers and the tree alone.
LEMMA MakersRest ==
    ASSUME TreeInv, [Next]_vars, FindInv, UNCHANGED <<routes, makerVars, raced>>,
           \A f \in Finders : Searches(f)'
    PROVE  FindInv'
<1>1. /\ routes' = routes /\ pc' = pc /\ turn' = turn /\ at' = at
      /\ rest' = rest /\ raced' = raced
    BY DEF makerVars
<1>2. \A m \in Makers : OnPath(m)'
    BY <1>1, StaysOnPath DEF FindInv
<1>3. Finished' = Finished
    BY <1>1 DEF Finished
<1>4. \A p : (Calm(p)' <=> Calm(p)) /\ (InTree(p)' <=> InTree(p))
  <2>1. Ids' = Ids
      BY <1>1 DEF Ids
  <2>2. \A p : Calm(p)' <=> Calm(p)
      BY <1>1 DEF Calm
  <2>3. \A p, way : Leads(Root, p, Len(p), way)' <=> Leads(Root, p, Len(p), way)
      BY <1>1 DEF Leads
  <2>4. QED BY <2>1, <2>2, <2>3 DEF InTree
<1>5. \A p \in Finished' : Calm(p)' => InTree(p)'
    BY <1>3, <1>4 DEF FindInv
<1>6. QED BY <1>2, <1>5 DEF FindInv

LEMMA FindBeginFinds ==
    ASSUME TreeInv, FindInv, NEW f \in Finders, NEW p \in Wanted, FindBegin(f, p)
    PROVE  FindInv'
<1> DEFINE w == [pc |-> "walk", at |-> Root, rest |-> p, sure |-> p \in Finished]
<1>1. /\ [Next]_vars /\ find' = [find EXCEPT ![f] = w]
      /\ routes' = routes /\ raced' = raced /\ UNCHANGED <<routes, makerVars, raced>>
    BY DEF Next, FindBegin
<1>2. find'[f] = w /\ \A g \in Finders \ {f} : find'[g] = find[g]
    BY <1>1 DEF TreeInv, TypeOK
<1>3. /\ find'[f].pc = "walk" /\ find'[f].at = Root /\ find'[f].rest = p
      /\ find'[f].sure = (p \in Finished)
    BY <1>2
<1>4. raced = {} /\ p \in Finished
        => \E way \in [0 .. Len(p) -> Ids] : Leads(Root, p, Len(p), way)
    BY DEF FindInv, Calm, InTree
<1>5. \A way : Leads(Root, p, Len(p), way)' <=> Leads(Root, p, Len(p), way)
    BY <1>1 DEF Leads
<1>6. Ids' = Ids
    BY <1>1 DEF Ids
<1>7. raced' = {} /\ p \in Finished
        => \E way \in [0 .. Len(p) -> Ids'] : Leads(Root, p, Len(p), way)'
    BY <1>1, <1>4, <1>5, <1>6
<1>8. Searches(f)'
    BY ONLY <1>3, <1>7 DEF Searches, Leads
<1>9. \A g \in Finders \ {f} : Searches(g)'
    BY <1>1, <1>2, SearchKept DEF FindInv
<1>10. QED BY <1>1, <1>8, <1>9, MakersRest

LEMMA FindStepFinds ==
    ASSUME TreeInv, FindInv, NEW f \in Finders, FindStep(f)
    PROVE  FindInv'
<1> DEFINE Walk == [pc : {"idle", "walk", "found", "missing"}, at : Ids,
                    rest : Seq(Segments), sure : BOOLEAN]
<1>1. PICK w \in Walk : w = find[f]
    BY DEF TreeInv, TypeOK
<1>2. PICK d : d = routes[w.at].childRoutes[Head(w.rest)]
    OBVIOUS
<1>3. /\ [Next]_vars /\ w.pc = "walk"
      /\ find' = [find EXCEPT ![f] =
                     IF w.rest = <<>> THEN [w EXCEPT !.pc = "found"]
                     ELSE IF d = Nil THEN [w EXCEPT !.pc = "missing"]
                     ELSE [w EXCEPT !.at = d, !.rest = Tail(@)]]
      /\ routes' = routes /\ raced' = raced /\ UNCHANGED <<routes, makerVars, raced>>
    BY <1>1, <1>2 DEF Next, FindStep
<1>4. /\ find'[f] = IF w.rest = <<>> THEN [w EXCEPT !.pc = "found"]
                     ELSE IF d = Nil THEN [w EXCEPT !.pc = "missing"]
                     ELSE [w EXCEPT !.at = d, !.rest = Tail(@)]
      /\ \A g \in Finders \ {f} : find'[g] = find[g]
    BY <1>3 DEF TreeInv, TypeOK
<1>5. ASSUME w.rest = <<>> \/ ~w.sure \/ raced # {}
      PROVE  Searches(f)'
  <2>1. find'[f].sure = w.sure
      BY <1>1, <1>4
  <2>2. w.rest = <<>> => find'[f].pc = "found"
      BY <1>1, <1>4
  <2>3. raced' = raced
      BY <1>3
  <2>4. CASE w.rest = <<>>
      BY ONLY <2>2, <2>4 DEF Searches
  <2>5. CASE ~w.sure \/ raced # {}
      BY ONLY <2>1, <2>3, <2>5 DEF Searches
  <2>6. QED BY <1>5, <2>4, <2>5
<1>6. ASSUME w.rest # <<>> /\ w.sure /\ raced = {}
      PROVE  Searches(f)'
  <2>1. PICK way \in [0 .. Len(w.rest) -> Ids] : Leads(w.at, w.rest, Len(w.rest), way)
      BY <1>1, <1>3, <1>6 DEF FindInv, Searches
  <2>2. PICK p \in Seq(Segments), q \in Seq(Segments), n \in Nat :
           /\ p = w.rest /\ q = Tail(p) /\ Len(p) = n + 1 /\ Len(q) = n
           /\ Head(p) = p[1] /\ \A i \in 1 .. n : q[i] = p[i + 1]
    <3>1. w.rest \in Seq(Segments) /\ Len(w.rest) \in Nat /\ Len(w.rest) # 0
        BY <1>6, LenProperties, EmptySeq
    <3>2. Len(w.rest) - 1 \in Nat /\ Len(w.rest) = (Len(w.rest) - 1) + 1
        BY ONLY <3>1
    <3>3. QED BY <1>6, <3>1, <3>2, HeadTailProperties
  <2>3. /\ way[0] = w.at
        /\ \A i \in 1 .. n + 1 : routes[way[i - 1]].childRoutes[p[i]] = way[i]
      BY <2>1, <2>2 DEF Leads
  <2>4. d = way[1] /\ way[1] \in Ids /\ d # Nil
    <3>1. 1 \in 1 .. n + 1 /\ 1 \in 0 .. Len(w.rest)
        BY <2>2
    <3>2. routes[way[1 - 1]].childRoutes[p[1]] = way[1]
        BY <2>3, <3>1
    <3>3. QED BY <1>2, <2>1, <2>2, <2>3, <3>1, <3>2, TreeAssumption DEF Ids
  <2>5. find'[f].at = d /\ find'[f].rest = q /\ find'[f].pc = "walk"
      BY <1>3, <1>4, <1>6, <2>2, <2>4
  <2> DEFINE on == [i \in 0 .. n |-> way[i + 1]]
  <2>6. on \in [0 .. n -> Ids] /\ \A i \in 0 .. n : on[i] = way[i + 1]
      BY <2>1, <2>2
  <2> HIDE DEF on
  <2>7. on[0] = d
      BY <2>4, <2>6
  <2>8. ASSUME NEW i \in 1 .. n
        PROVE  routes[on[i - 1]].childRoutes[q[i]] = on[i]
    <3>1. i + 1 \in 1 .. n + 1 /\ (i + 1) - 1 = i /\ i - 1 \in 0 .. n /\ i \in 0 .. n
        OBVIOUS
    <3>2. on[i - 1] = way[i] /\ on[i] = way[i + 1] /\ q[i] = p[i + 1]
        BY <2>2, <2>6, <3>1
    <3>3. routes[way[(i + 1) - 1]].childRoutes[p[i + 1]] = way[i + 1]
        BY <2>3, <3>1
    <3>4. QED BY <3>1, <3>2, <3>3
  <2>9. Ids' = Ids
      BY <1>3 DEF Ids
  <2>10. routes' = routes /\ Len(q) = n
      BY <1>3, <2>2
  <2>11. on \in [0 .. Len(q) -> Ids']
      BY ONLY <2>6, <2>9, <2>10
  <2>12. \A i \in 1 .. Len(q) : routes'[on[i - 1]].childRoutes[q[i]] = on[i]
      BY ONLY <2>8, <2>10
  <2>13. Leads(d, q, Len(q), on)'
      BY ONLY <2>7, <2>12 DEF Leads
  <2>14. Leads(find[f].at, find[f].rest, Len(find[f].rest), on)'
      BY ONLY <2>5, <2>13 DEF Leads
  <2>15. QED BY ONLY <2>5, <2>11, <2>14 DEF Searches
<1>7. Searches(f)'
  <2>1. w.sure \in BOOLEAN
      OBVIOUS
  <2>2. QED BY <1>5, <1>6, <2>1
<1>8. \A g \in Finders \ {f} : Searches(g)'
    BY <1>3, <1>4, SearchKept DEF FindInv
<1>9. QED BY <1>3, <1>7, <1>8, MakersRest

LEMMA InitFindInv == Init => FindInv
BY DEF Init, FindInv, Finished, OnPath, Searches

LEMMA NextFindInv == TreeInv /\ FindInv /\ [Next]_vars => FindInv'
<1> SUFFICES ASSUME TreeInv, FindInv, [Next]_vars
             PROVE  FindInv'
    OBVIOUS
<1>1. CASE UNCHANGED vars
  <2>1. find' = find /\ UNCHANGED <<routes, makerVars, raced>>
      BY <1>1 DEF vars, makerVars
  <2>2. QED BY <2>1, SearchKept, MakersRest DEF FindInv
<1>2. QED
    BY <1>1, BeginFinds, ReturnFinds, LookFinds, MakeFinds, StoreFinds, FindBeginFinds,
       FindStepFinds DEF Next

\* A path that New has returned for is in the tree, whatever its length and whoever
\* else grows the tree, if no two calls of New have met on one of its segments; and
\* if none have met at all, a search that begins then succeeds (src/route.go lines
\* 178-258).
THEOREM TreeFindsWhatWasMade == Spec => []FindsWhatWasMade
<1>1. FindInv => FindsWhatWasMade
    BY DEF FindInv, FindsWhatWasMade, Searches
<1>2. QED BY <1>1, InitFindInv, NextFindInv, TreeInvariant, PTL DEF Spec
============================================================================
