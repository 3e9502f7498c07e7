----------------------------- MODULE RouteTree -----------------------------
(***************************************************************************)
(* The tree of routes (src/route.go lines 164-258 and 399-412) as goroutines *)
(* grow it with Route.New and search it with Route.Child.  New and Child     *)
(* walk down the tree one path segment at a time and hold the lock of a      *)
(* route only to read or to write its childRoutes, so a step here is one     *)
(* such critical section, or the creation of a route outside of any lock.    *)
(*                                                                           *)
(* Segments are plain names, as in setupServer: for these reggy.YankSpecial  *)
(* and the Path of a new route both give the name itself.                    *)
(***************************************************************************)
EXTENDS Naturals, Sequences

CONSTANTS Segments,  \* path segments
          Makers,    \* goroutines that call New
          Jobs,      \* Jobs[m]: the paths m passes to New at the root, in order
          Finders,   \* goroutines that call Child, once each
          Wanted,    \* the paths a finder may pass to Child
          Nil        \* no route

ASSUME TreeAssumption ==
    /\ Jobs \in [Makers -> Seq(Seq(Segments) \ {<<>>})]
    /\ Wanted \subseteq Seq(Segments) \ {<<>>}
    /\ Nil \notin Nat

VARIABLES routes,  \* the routes created so far; a route is its index
          pc,      \* pc[m]: where maker m is in New
          turn,    \* turn[m]: index in Jobs[m] of the path m works on
          at,      \* at[m]: the route whose New m is in
          rest,    \* rest[m]: the path that New was called with
          fresh,   \* fresh[m]: the local rs, a route not yet in childRoutes
          find,    \* find[f]: a finder's walk
          raced    \* the <<r, s>> such that two makers have looked for child s
                   \* of r, found none, and both go on to make it

makerVars == <<pc, turn, at, rest, fresh>>
vars == <<routes, pc, turn, at, rest, fresh, find, raced>>

Root == 1
Ids == 1 .. Len(routes)

\* RawRoute: a route without children; the root has no parent.
RawRoute(up, seg) ==
    [up |-> up, path |-> seg, childRoutes |-> [s \in Segments |-> Nil]]

Init ==
    /\ routes = <<RawRoute(Nil, Nil)>>
    /\ pc = [m \in Makers |-> "idle"]
    /\ turn = [m \in Makers |-> 1]
    /\ at = [m \in Makers |-> Root]
    /\ rest = [m \in Makers |-> <<>>]
    /\ fresh = [m \in Makers |-> Nil]
    /\ find = [f \in Finders |->
                 [pc |-> "idle", at |-> Root, rest |-> <<>>, sure |-> FALSE]]
    /\ raced = {}

\* m calls New with its next path.
Begin(m) ==
    /\ pc[m] = "idle"
    /\ turn[m] <= Len(Jobs[m])
    /\ pc' = [pc EXCEPT ![m] = "look"]
    /\ at' = [at EXCEPT ![m] = Root]
    /\ rest' = [rest EXCEPT ![m] = Jobs[m][turn[m]]]
    /\ UNCHANGED <<routes, turn, fresh, find, raced>>

\* New with the empty path returns, and so do the calls it is nested in.
Return(m) ==
    /\ pc[m] = "look"
    /\ rest[m] = <<>>
    /\ pc' = [pc EXCEPT ![m] = "idle"]
    /\ turn' = [turn EXCEPT ![m] = @ + 1]
    /\ UNCHANGED <<routes, at, rest, fresh, find, raced>>

\* Bug: the existing child is not looked up.
LookNowhere(m) ==
    /\ pc[m] = "look"
    /\ rest[m] # <<>>
    /\ pc' = [pc EXCEPT ![m] = "make"]
    /\ UNCHANGED <<routes, turn, at, rest, fresh, find, raced>>

\* Another maker is about to make the child that m looks for.
Meets(m) ==
    \E n \in Makers \ {m} :
        pc[n] \in {"make", "store"} /\ at[n] = at[m] /\ Head(rest[n]) = Head(rest[m])

\* Under the read lock: an existing child gets the rest of the path, else a
\* route has to be made.
Look(m) ==
    /\ pc[m] = "look"
    /\ rest[m] # <<>>
    /\ LET d == routes[at[m]].childRoutes[Head(rest[m])] IN
       \/ /\ d # Nil
          /\ at' = [at EXCEPT ![m] = d]
          /\ rest' = [rest EXCEPT ![m] = Tail(@)]
          /\ UNCHANGED <<pc, raced>>
       \/ /\ d = Nil
          /\ pc' = [pc EXCEPT ![m] = "make"]
          /\ raced' = IF Meets(m) THEN raced \cup {<<at[m], Head(rest[m])>>} ELSE raced
          /\ UNCHANGED <<at, rest>>
    /\ UNCHANGED <<routes, turn, fresh, find>>

\* Bug: the index of the new route is off by one.
MakeOffByOne(m) ==
    /\ pc[m] = "make"
    /\ routes' = Append(routes, RawRoute(at[m], Head(rest[m])))
    /\ fresh' = [fresh EXCEPT ![m] = Len(routes) + 2]
    /\ pc' = [pc EXCEPT ![m] = "store"]
    /\ UNCHANGED <<turn, at, rest, find, raced>>

\* FromRoute, outside of the lock: from now on the new route receives what its
\* parent finds valid.
Make(m) ==
    /\ pc[m] = "make"
    /\ routes' = Append(routes, RawRoute(at[m], Head(rest[m])))
    /\ fresh' = [fresh EXCEPT ![m] = Len(routes) + 1]
    /\ pc' = [pc EXCEPT ![m] = "store"]
    /\ UNCHANGED <<turn, at, rest, find, raced>>

\* Bug: the rest of the path is dropped, New is not called on the new route.
StoreAndStop(m) ==
    /\ pc[m] = "store"
    /\ routes' = [routes EXCEPT ![at[m]].childRoutes[Head(rest[m])] = fresh[m]]
    /\ at' = [at EXCEPT ![m] = fresh[m]]
    /\ rest' = [rest EXCEPT ![m] = <<>>]
    /\ pc' = [pc EXCEPT ![m] = "look"]
    /\ UNCHANGED <<turn, fresh, find, raced>>

\* Under the write lock; then New goes on in the new route.
Store(m) ==
    /\ pc[m] = "store"
    /\ routes' = [routes EXCEPT ![at[m]].childRoutes[Head(rest[m])] = fresh[m]]
    /\ at' = [at EXCEPT ![m] = fresh[m]]
    /\ rest' = [rest EXCEPT ![m] = Tail(@)]
    /\ pc' = [pc EXCEPT ![m] = "look"]
    /\ UNCHANGED <<turn, fresh, find, raced>>
----------------------------------------------------------------------------
\* The paths that New has returned for.
Finished == UNION {{Jobs[m][i] : i \in 1 .. turn[m] - 1} : m \in Makers}

\* f calls Child.  The field sure records whether p had been made by then.
FindBegin(f, p) ==
    /\ find[f].pc = "idle"
    /\ find' = [find EXCEPT ![f] =
                  [pc |-> "walk", at |-> Root, rest |-> p, sure |-> p \in Finished]]
    /\ UNCHANGED <<routes, makerVars, raced>>

\* One level of Child: the route itself for the empty path, else the child
\* under the read lock, which may be missing.
FindStep(f) ==
    /\ find[f].pc = "walk"
    /\ LET w == find[f]
           d == routes[w.at].childRoutes[Head(w.rest)] IN
       find' = [find EXCEPT ![f] =
                  IF w.rest = <<>> THEN [w EXCEPT !.pc = "found"]
                  ELSE IF d = Nil THEN [w EXCEPT !.pc = "missing"]
                  ELSE [w EXCEPT !.at = d, !.rest = Tail(@)]]
    /\ UNCHANGED <<routes, makerVars, raced>>

Next ==
    \/ \E m \in Makers :
         Begin(m) \/ Return(m) \/ Look(m) \/ Make(m) \/ Store(m)
    \/ \E f \in Finders, p \in Wanted : FindBegin(f, p)
    \/ \E f \in Finders : FindStep(f)

Spec == Init /\ [][Next]_vars
----------------------------------------------------------------------------
\* A Route: its parent and the segment it stands for, Nil in the root.
Route ==
    [up : {Nil} \cup Nat, path : {Nil} \cup Segments,
     childRoutes : [Segments -> {Nil} \cup Nat]]

TypeOK ==
    /\ routes \in Seq(Route) /\ Root \in Ids
    /\ \A i \in Ids :
         /\ routes[i].up \in {Nil} \cup Ids
         /\ \A s \in Segments : routes[i].childRoutes[s] \in {Nil} \cup Ids
    /\ pc \in [Makers -> {"idle", "look", "make", "store"}]
    /\ turn \in [Makers -> Nat] /\ at \in [Makers -> Ids]
    /\ rest \in [Makers -> Seq(Segments)] /\ fresh \in [Makers -> {Nil} \cup Ids]
    /\ \A m \in Makers :
         /\ turn[m] \in 1 .. Len(Jobs[m]) + 1
         /\ pc[m] # "idle" => turn[m] <= Len(Jobs[m])
         /\ pc[m] \in {"make", "store"} => rest[m] # <<>>
    /\ find \in [Finders -> [pc : {"idle", "walk", "found", "missing"}, at : Ids,
                             rest : Seq(Segments), sure : BOOLEAN]]
    /\ raced \subseteq Ids \X Segments

\* The first n segments of p lead a call of Child from route a along way, if
\* nobody interferes.
Leads(a, p, n, way) ==
    /\ way[0] = a
    /\ \A i \in 1 .. n : routes[way[i - 1]].childRoutes[p[i]] = way[i]

\* Child finds a route for path p at the root.
InTree(p) == \E way \in [0 .. Len(p) -> Ids] : Leads(Root, p, Len(p), way)

\* No route has two children of one name, each of which would receive and answer
\* every request for it, unless two calls of New have overlapped between the
\* lookup and the store of just that child (lines 203-212).
NoTwins ==
    \A i, j \in Ids :
        i # j /\ routes[i].up = routes[j].up /\ routes[i].path = routes[j].path
          => <<routes[i].up, routes[i].path>> \in raced

\* No call of New has met another on a segment of path p.
Calm(p) == \A x \in raced : \A n \in 1 .. Len(p) : p[n] # x[2]

\* "each piece will be created according to its tree" (line 180): a path that New
\* has returned for is in the tree, if no call of New has met another on one of
\* its segments.  And a search that begins then succeeds, whatever the makers do
\* between two levels of its walk, as long as no two of them have met; for
\* AddExecBehaviour and its siblings call Sub on what Child gives them.
FindsWhatWasMade ==
    /\ \A p \in Finished : Calm(p) => InTree(p)
    /\ \A f \in Finders :
         find[f].pc = "missing" /\ raced = {} => ~find[f].sure
============================================================================
