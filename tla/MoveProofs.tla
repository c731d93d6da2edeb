----------------------------- MODULE MoveProofs -----------------------------
(***************************************************************************)
(* Proofs about MoveKernel, for every number of operations, artifacts,     *)
(* destinations and troubles.                                              *)
(*                                                                         *)
(* The properties speak of every state a power loss may leave.  What one   *)
(* change of the directories does to all of them is settled first; then    *)
(* each step of an operation has one of four effects on the directories    *)
(* (none, a sync, a change of a sidecar, the rename of an artifact), and   *)
(* an invariant about one operation is kept by the steps of another for a  *)
(* reason that depends on the effect alone.                                *)
(***************************************************************************)
EXTENDS MoveKernel, SequenceTheorems, WellFoundedInduction, TLAPS

-----------------------------------------------------------------------------
(* Induction over the changes of a log, with a set for the predicate.      *)

\* A set of natural numbers that is not empty has a least member.
LEMMA LeastExists ==
    ASSUME NEW S \in SUBSET Nat, S # {}
    PROVE  \E i \in S : \A j \in S : i <= j
  <1>1. PICK i \in S : \A j \in S : <<j, i>> \notin OpToRel(<, Nat)
      BY NatLessThanWellFounded, WFMin
  <1>2. \A j \in S : ~(j < i)
      BY <1>1 DEF OpToRel
  <1> QED
      BY <1>2

\* What holds of no change and is kept by each change holds of all changes.
LEMMA ChangeByChange ==
    ASSUME NEW length \in Nat, NEW T,
           0 \in T,
           \A n \in 0 .. length - 1 : n \in T => n + 1 \in T
    PROVE  \A n \in 0 .. length : n \in T
  <1> DEFINE Missing == {n \in 0 .. length : n \notin T}
  <1>1. SUFFICES ASSUME Missing # {} PROVE FALSE
      OBVIOUS
  <1>2. Missing \in SUBSET Nat
      OBVIOUS
  <1>3. PICK m \in Missing : \A n \in Missing : m <= n
    <2> HIDE DEF Missing
    <2> QED
        BY <1>1, <1>2, LeastExists
  <1>4. m # 0 /\ m \in 1 .. length
      BY <1>3
  <1>5. m - 1 \in 0 .. length - 1 /\ m - 1 \notin Missing
      BY <1>3, <1>4
  <1>6. m - 1 \in T
      BY <1>5
  <1>7. (m - 1) + 1 \in T
      BY <1>5, <1>6
  <1> QED
      BY <1>3, <1>7

-----------------------------------------------------------------------------
(* Kept is what its definition says.                                       *)

Only(base) == {base}
AfterOne(before, c) == before \cup {Apply(d, c) : d \in before}

IsKept(f, base, changes) ==
    f = [n \in 0 .. Len(changes) |->
            IF n = 0 THEN Only(base) ELSE AfterOne(f[n - 1], changes[n])]

Chosen(base, changes) == CHOOSE f : IsKept(f, base, changes)

LEMMA KeptIsChosen ==
    ASSUME NEW base, NEW changes
    PROVE  Kept(base, changes) = Chosen(base, changes)[Len(changes)]
  BY DEF Kept, IsKept, Chosen, AfterOne, Only

LEMMA KeptExists ==
    ASSUME NEW base, NEW changes, Len(changes) \in Nat
    PROVE  IsKept(Chosen(base, changes), base, changes)
  <1> DEFINE
        Upto(m, g) == g = [n \in 0 .. m |->
            IF n = 0 THEN Only(base) ELSE AfterOne(g[n - 1], changes[n])]
        T == {m \in Nat : \E g : Upto(m, g)}
  <1>1. 0 \in T
    <2>1. Upto(0, [n \in 0 .. 0 |-> Only(base)])
        OBVIOUS
    <2> QED
        BY <2>1
  <1>2. ASSUME NEW m \in 0 .. Len(changes) - 1, m \in T
        PROVE  m + 1 \in T
    <2>1. PICK g : Upto(m, g)
        BY <1>2
    <2> DEFINE h == [n \in 0 .. m + 1 |->
               IF n = m + 1 THEN AfterOne(g[m], changes[m + 1]) ELSE g[n]]
    <2>2. ASSUME NEW n \in 0 .. m + 1
          PROVE  h[n] = IF n = 0 THEN Only(base) ELSE AfterOne(h[n - 1], changes[n])
      <3>1. CASE n = 0
          BY <3>1, <2>1
      <3>2. CASE n \in 1 .. m
        <4>1. h[n] = g[n] /\ h[n - 1] = g[n - 1] /\ n # 0
            BY <3>2
        <4>2. g[n] = AfterOne(g[n - 1], changes[n])
            BY <3>2, <2>1
        <4> QED
            BY <4>1, <4>2
      <3>3. CASE n = m + 1
        <4>1. h[n] = AfterOne(g[m], changes[n]) /\ n # 0 /\ n - 1 = m
            BY <3>3
        <4>2. h[m] = g[m]
            OBVIOUS
        <4> QED
            BY <4>1, <4>2
      <3> QED
          BY <3>1, <3>2, <3>3
    <2>3. h = [n \in 0 .. m + 1 |-> h[n]]
        OBVIOUS
    <2>4. Upto(m + 1, h)
      <3> HIDE DEF h
      <3> QED
          BY <2>2, <2>3
    <2> HIDE DEF h, Upto
    <2> QED
        BY <2>4
  <1>3. Len(changes) \in T
    <2> HIDE DEF T
    <2>1. \A n \in 0 .. Len(changes) : n \in T
        BY <1>1, <1>2, ChangeByChange
    <2> QED
        BY <2>1
  <1>4. \E g : IsKept(g, base, changes)
      BY <1>3 DEF IsKept
  <1> QED
      BY <1>4, Zenon DEF Chosen

LEMMA KeptOfNothing ==
    ASSUME NEW base
    PROVE  Kept(base, << >>) = {base}
  <1>1. IsKept(Chosen(base, << >>), base, << >>)
      BY KeptExists
  <1> QED
      BY <1>1, KeptIsChosen DEF IsKept, Only

\* One more change is kept or not, whatever was kept before it.
LEMMA KeptOfOneMore ==
    ASSUME NEW base, NEW E, NEW changes \in Seq(E), NEW c \in E
    PROVE  Kept(base, Append(changes, c)) = AfterOne(Kept(base, changes), c)
  <1> DEFINE more == Append(changes, c)
             f == Chosen(base, changes)
             g == Chosen(base, more)
             T == {n \in 0 .. Len(changes) : f[n] = g[n]}
  <1>1. /\ Len(changes) \in Nat /\ Len(more) = Len(changes) + 1
        /\ more[Len(changes) + 1] = c
        /\ \A n \in 1 .. Len(changes) : changes[n] = more[n]
      OBVIOUS
  <1> HIDE DEF more
  <1>2. IsKept(f, base, changes) /\ IsKept(g, base, more)
      BY <1>1, KeptExists
  <1> HIDE DEF f, g
  <1>3. 0 \in T
      BY <1>1, <1>2 DEF IsKept
  <1>4. ASSUME NEW n \in 0 .. Len(changes) - 1, n \in T
        PROVE  n + 1 \in T
    <2>1. n + 1 \in 1 .. Len(changes) /\ n + 1 \in 0 .. Len(changes) /\ n + 1 \in 0 .. Len(more)
        BY <1>1
    <2>2. f[n + 1] = AfterOne(f[n], changes[n + 1])
        BY <1>1, <1>2, <2>1 DEF IsKept
    <2>3. g[n + 1] = AfterOne(g[n], more[n + 1])
        BY <1>1, <1>2, <2>1 DEF IsKept
    <2> QED
        BY <1>1, <1>4, <2>1, <2>2, <2>3
  <1>5. f[Len(changes)] = g[Len(changes)]
    <2>1. \A n \in 0 .. Len(changes) : n \in T
      <3> HIDE DEF T
      <3> QED
          BY <1>1, <1>3, <1>4, ChangeByChange
    <2> QED
        BY <1>1, <2>1
  <1>6. g[Len(changes) + 1] = AfterOne(g[Len(changes)], c)
      BY <1>1, <1>2 DEF IsKept
  <1> QED
      BY <1>1, <1>5, <1>6, KeptIsChosen DEF more, f, g

-----------------------------------------------------------------------------
(* Places, and what a change does to a state of the directories.           *)

Dir    == [Places -> Things \cup {None}]
Homes  == {Home(a) : a \in Artifacts}
Vaults == {Vault(d) : d \in Dests}
SidesOf(e) == {Side(e, s, stage) : s \in Suffixes, stage \in Stages}
Last(m) == Len(Sidecars(m))

LEMMA PlacesDiffer ==
    /\ FilePlaces \cap SidePlaces = {}
    /\ Homes \cap Vaults = {}
    /\ FilePlaces = Homes \cup Vaults
    /\ \A d \in Dests : Vault(d)[1] = d
    /\ \A d, e \in Dests : d # e => SidesOf(d) \cap SidesOf(e) = {}
    /\ \A d \in Dests : SidesOf(d) \subseteq SidePlaces
    /\ FilePlaces \subseteq Places /\ SidePlaces \subseteq Places
    /\ None \notin Places
  <1>1. FilePlaces \cap SidePlaces = {}
      BY DEF FilePlaces, SidePlaces, Home, Vault, Side, Stages, Suffixes
  <1>2. Homes \cap Vaults = {} /\ FilePlaces = Homes \cup Vaults
      BY DEF Homes, Vaults, Home, Vault, FilePlaces
  <1>3. \A d \in Dests : Vault(d)[1] = d
      BY DEF Vault
  <1>4. \A d, e \in Dests : d # e => SidesOf(d) \cap SidesOf(e) = {}
      BY DEF SidesOf, Side
  <1>5. \A d \in Dests : SidesOf(d) \subseteq SidePlaces
      BY DEF SidesOf, SidePlaces
  <1>6. FilePlaces \subseteq Places /\ SidePlaces \subseteq Places /\ None \notin Places
      BY MoveAssumption DEF Places
  <1> QED
      BY <1>1, <1>2, <1>3, <1>4, <1>5, <1>6

\* The names of an operation's sidecars are its destination's, and distinct.
LEMMA SidecarNames ==
    ASSUME NEW m \in Moves, move[m] \in Plans
    PROVE  /\ Last(m) \in 0 .. 3
           /\ Last(m) = 0 <=> Sidecars(m) = << >>
           /\ move[m].kind = "restore" <=> Last(m) = 0
           /\ \A i \in 1 .. Last(m) : Sidecars(m)[i] \in Suffixes
           /\ \A i, j \in 1 .. Last(m) : i # j => Sidecars(m)[i] # Sidecars(m)[j]
  BY DEF Plans, Kinds, Last, Sidecars, SidecarsOf, Suffixes

LEMMA SidecarPlaces ==
    ASSUME NEW m \in Moves, move[m] \in Plans, NEW e \in Dests, move[m].to = Vault(e)
    PROVE  /\ \A i \in 1 .. Last(m), stage \in Stages :
                 At(m, i, stage) \in SidesOf(e) /\ At(m, i, stage) \in SidePlaces
           /\ \A i, j \in 1 .. Last(m), s, t \in Stages :
                 i # j \/ s # t => At(m, i, s) # At(m, j, t)
  <1>1. \A i \in 1 .. Last(m), stage \in Stages :
            At(m, i, stage) = Side(e, Sidecars(m)[i], stage)
      BY DEF At, Vault
  <1>2. \A i \in 1 .. Last(m), stage \in Stages : At(m, i, stage) \in SidesOf(e)
      BY <1>1, SidecarNames DEF SidesOf
  <1>3. \A i, j \in 1 .. Last(m), s, t \in Stages :
            i # j \/ s # t => At(m, i, s) # At(m, j, t)
      BY <1>1, SidecarNames DEF Side
  <1> QED
      BY <1>2, <1>3, PlacesDiffer

LEMMA ApplyFacts ==
    ASSUME NEW d \in Dir, NEW c \in Changes
    PROVE  /\ Apply(d, c) \in Dir
           /\ ~Fits(d, c) => Apply(d, c) = d
           /\ \A p \in Places : p # c.from /\ p # c.to => Apply(d, c)[p] = d[p]
           /\ Fits(d, c) /\ c.to # None /\ c.from # c.to => Apply(d, c)[c.to] = c.thing
           /\ Fits(d, c) /\ c.from # None /\ c.from # c.to => Apply(d, c)[c.from] = None
           /\ c.to # None /\ c.from # c.to => Apply(d, c)[c.to] \in {d[c.to], c.thing}
           /\ c.from # None /\ c.from # c.to => Apply(d, c)[c.from] \in {d[c.from], None}
  <1>1. c.thing \in Things /\ c.from \in Places \cup {None} /\ c.to \in Places \cup {None}
      BY DEF Changes
  <1>2. CASE ~Fits(d, c)
      BY <1>1, <1>2 DEF Apply
  <1>3. CASE Fits(d, c)
    <2>1. Apply(d, c) = [p \in Places |-> CASE p = c.to   -> c.thing
                                            [] p = c.from -> None
                                            [] OTHER      -> d[p]]
        BY <1>3 DEF Apply
    <2>2. Apply(d, c) \in Dir
        BY <2>1, <1>1 DEF Dir
    <2>3. \A p \in Places : p # c.from /\ p # c.to => Apply(d, c)[p] = d[p]
        BY <2>1
    <2>4. c.to # None /\ c.from # c.to => Apply(d, c)[c.to] = c.thing
        BY <2>1, <1>1
    <2>5. c.from # None /\ c.from # c.to => Apply(d, c)[c.from] = None
        BY <2>1, <1>1
    <2> QED
        BY <1>3, <2>2, <2>3, <2>4, <2>5
  <1> QED
      BY <1>2, <1>3

-----------------------------------------------------------------------------
(* What a step does to everything a power loss may leave.                  *)

Changed(c) ==
    /\ c \in Changes
    /\ dir' = Apply(dir, c)
    /\ Survivors' = AfterOne(Survivors, c)

Made(from, to, thing) ==
    [from |-> from, to |-> to, thing |-> thing, over |-> IF to = None THEN None ELSE dir[to]]

FsTypes == dir \in Dir /\ disk \in Dir /\ log \in Seq(Changes)

LEMMA ChangeIsKept ==
    ASSUME FsTypes, NEW from \in Places \cup {None}, NEW to \in Places \cup {None},
           NEW thing \in Things, Change(from, to, thing)
    PROVE  Changed(Made(from, to, thing)) /\ FsTypes'
  <1> DEFINE c == Made(from, to, thing)
  <1>1. c \in Changes
    <2>1. CASE to = None
        BY <2>1 DEF Made, Changes
    <2>2. CASE to \in Places
        BY <2>2, MoveAssumption DEF Made, Changes, FsTypes, Dir
    <2> QED
        BY <2>1, <2>2
  <1>2. dir' = Apply(dir, c) /\ log' = Append(log, c) /\ disk' = disk
      BY DEF Change, Made
  <1> HIDE DEF c
  <1>3. Survivors' = AfterOne(Survivors, c)
    <2>1. Survivors' = Kept(disk, Append(log, c))
        BY <1>2 DEF Survivors
    <2> QED
        BY <1>1, <2>1, KeptOfOneMore DEF Survivors, FsTypes
  <1>4. FsTypes'
    <2>1. Apply(dir, c) \in Dir
        BY <1>1, ApplyFacts DEF FsTypes
    <2>2. Append(log, c) \in Seq(Changes)
        BY <1>1 DEF FsTypes
    <2> QED
        BY <1>2, <2>1, <2>2 DEF FsTypes
  <1> QED
      BY <1>1, <1>2, <1>3, <1>4 DEF Changed, c

LEMMA SyncKeepsOne ==
    ASSUME FsTypes, Sync
    PROVE  dir' = dir /\ Survivors' = {dir} /\ FsTypes'
  <1>1. disk' = dir /\ log' = << >> /\ dir' = dir
      BY DEF Sync
  <1>2. Survivors' = {dir}
      BY <1>1, KeptOfNothing DEF Survivors
  <1>3. << >> \in Seq(Changes)
      OBVIOUS
  <1> QED
      BY <1>1, <1>2, <1>3 DEF FsTypes

LEMMA NothingChanged ==
    ASSUME UNCHANGED fsVars
    PROVE  dir' = dir /\ Survivors' = Survivors /\ (FsTypes => FsTypes')
  BY DEF fsVars, Survivors, FsTypes

-----------------------------------------------------------------------------
(* An operation's own variables.                                           *)

LocalTypes ==
    /\ pc \in [Moves -> Steps]
    /\ k \in [Moves -> Nat]
    /\ result \in [Moves -> Outcomes]
    /\ move \in [Moves -> Plans \cup {None}]
    /\ moved \in [Moves -> Artifacts \cup {None}]

Early     == {"idle", "revalidate", "open", "digest", "recheck"}
AtSidecar == {"write", "publish", "sync", "undo", "finalize", "syncfinal"}

ShapeOf(m) ==
    /\ pc[m] = "done" <=> result[m] # "pending"
    /\ pc[m] \in {"finalize", "syncfinal"} => HasMoved(m)
    /\ pc[m] \in Steps \ {"finalize", "syncfinal", "done"} => ~HasMoved(m)
    /\ result[m] = "succeeded" => HasMoved(m)
    /\ pc[m] # "idle" =>
          /\ move[m] \in Plans
          /\ IF move[m].kind = "restore"
             THEN move[m].from \in Vaults /\ move[m].to \in Homes
             ELSE move[m].from \in Homes /\ move[m].to \in Vaults
    /\ pc[m] \in Early => k[m] = 1
    /\ pc[m] \in AtSidecar => k[m] \in 1 .. Last(m)

Shape == \A m \in Moves : ShapeOf(m)

\* Every artifact has one name, and a sidecar's name holds a sidecar.
WellFormed(d) ==
    /\ d \in Dir
    /\ \A p \in FilePlaces : d[p] \in Artifacts \cup {None}
    /\ \A p \in SidePlaces : d[p] \in Records \cup {Torn, None}
    /\ \A a \in Artifacts : \E p \in FilePlaces : {q \in FilePlaces : d[q] = a} = {p}

Directories == dir \in Survivors /\ \A d \in Survivors : WellFormed(d)

\* What a step of an operation leaves of the others.
Apart(o) ==
    \A m \in Moves \ {o} :
        /\ pc'[m] = pc[m] /\ k'[m] = k[m] /\ result'[m] = result[m]
        /\ move'[m] = move[m] /\ moved'[m] = moved[m]

LEMMA LastFacts ==
    ASSUME NEW m \in Moves, move[m] \in Plans
    PROVE  /\ Last(m) \in 0 .. 3
           /\ Sidecars(m) = << >> <=> Last(m) = 0
           /\ Len(Sidecars(m)) = Last(m)
  BY SidecarNames DEF Last

\* A plan that keeps its kind keeps its sidecars.
LEMMA SameKindSameSidecars ==
    ASSUME NEW m \in Moves, move'[m].kind = move[m].kind
    PROVE  Sidecars(m)' = Sidecars(m) /\ Last(m)' = Last(m)
  BY DEF Sidecars, Last

LEMMA OthersKeepTheirShape ==
    ASSUME NEW o \in Moves, Apart(o), NEW m \in Moves, m # o, ShapeOf(m)
    PROVE  ShapeOf(m)'
  <1>1. /\ pc'[m] = pc[m] /\ k'[m] = k[m] /\ result'[m] = result[m]
        /\ move'[m] = move[m] /\ moved'[m] = moved[m]
      BY DEF Apart
  <1>2. Last(m)' = Last(m)
      BY <1>1, SameKindSameSidecars
  <1> QED
      BY <1>1, <1>2 DEF ShapeOf, HasMoved

LEMMA BeginLocally ==
    ASSUME LocalTypes, WellFormed(dir), NEW o \in Moves, ShapeOf(o), Seal(o),
           content \in [Artifacts -> Nat]
    PROVE  LocalTypes' /\ Apart(o) /\ ShapeOf(o)' /\ pc'[o] # "idle"
  <1>1. PICK kind \in Kinds, from \in FilePlaces, to \in FilePlaces :
            /\ Begin(o, kind, from, to)
            /\ IF kind = "restore" THEN from \in Vaults /\ to \in Homes
                                   ELSE from \in Homes /\ to \in Vaults
      BY DEF Seal, Kinds, FilePlaces, Homes, Vaults
  <1> DEFINE plan == [kind |-> kind, from |-> from, to |-> to, thing |-> dir[from],
                      content |-> content[dir[from]], digest |-> 0, error |-> FALSE]
  <1>2. dir[from] \in Artifacts
      BY <1>1 DEF Begin, WellFormed
  <1>3. plan \in Plans
      BY <1>2 DEF Plans
  <1>4. /\ pc[o] = "idle" /\ move' = [move EXCEPT ![o] = plan]
        /\ pc' = [pc EXCEPT ![o] = "revalidate"] /\ k' = k /\ result' = result
        /\ moved' = moved
      BY <1>1 DEF Begin, Goto
  <1>5. plan.kind = kind /\ plan.from = from /\ plan.to = to
      OBVIOUS
  <1> HIDE DEF plan
  <1>6. move'[o] = plan /\ pc'[o] = "revalidate"
      BY <1>4 DEF LocalTypes
  <1>7. LocalTypes'
      BY <1>3, <1>4 DEF LocalTypes, Steps
  <1>8. Apart(o)
      BY <1>4 DEF LocalTypes, Apart
  <1>9. ShapeOf(o)'
      BY <1>1, <1>3, <1>4, <1>5, <1>6 DEF ShapeOf, HasMoved, Steps, AtSidecar, Early
  <1> QED
      BY <1>6, <1>7, <1>8, <1>9

\* The operation goes on in its shape: to a step, or to its end.
LandsWell(o) ==
    \E step \in Steps \ {"idle"}, i \in Nat, out \in Outcomes :
        /\ pc' = [pc EXCEPT ![o] = step]
        /\ (k' = k /\ i = k[o]) \/ k' = [k EXCEPT ![o] = i]
        /\ (result' = result /\ out = "pending") \/ result' = [result EXCEPT ![o] = out]
        /\ step = "done" <=> out # "pending"
        /\ out = "succeeded" => HasMoved(o)'
        /\ step # "done" => (step \in {"finalize", "syncfinal"} <=> HasMoved(o)')
        /\ step \in Early => i = 1
        /\ step \in AtSidecar => i \in 1 .. Last(o)

LEMMA GotoLands ==
    ASSUME LocalTypes, NEW o \in Moves, NEW step \in Steps \ {"idle", "done"}, Goto(o, step),
           step \in Early => k[o] = 1,
           step \in {"finalize", "syncfinal"} <=> HasMoved(o)',
           step \in AtSidecar => k[o] \in 1 .. Last(o)
    PROVE  LandsWell(o)
  BY DEF LandsWell, Goto, LocalTypes, Outcomes

LEMMA GotoAtLands ==
    ASSUME LocalTypes, NEW o \in Moves, NEW step \in Steps \ {"idle", "done"}, NEW i \in Nat,
           GotoAt(o, step, i), step \in Early => i = 1,
           step \in {"finalize", "syncfinal"} <=> HasMoved(o)',
           step \in AtSidecar => i \in 1 .. Last(o)
    PROVE  LandsWell(o)
  BY DEF LandsWell, GotoAt, LocalTypes, Outcomes

LEMMA FinishLands ==
    ASSUME LocalTypes, NEW o \in Moves, NEW out \in Outcomes \ {"pending"}, Finish(o, out),
           out = "succeeded" => HasMoved(o)'
    PROVE  LandsWell(o)
  BY DEF LandsWell, Finish, LocalTypes, Steps, AtSidecar, Early

LEMMA UndoLands ==
    ASSUME LocalTypes, NEW o \in Moves, Last(o) \in Nat, NEW i \in 0 .. Last(o),
           UndoFrom(o, i), ~HasMoved(o)'
    PROVE  LandsWell(o)
  <1>1. CASE i = 0
      BY <1>1, FinishLands DEF UndoFrom, Outcomes
  <1>2. CASE i # 0
      BY <1>2, GotoAtLands DEF UndoFrom, Steps, Early
  <1> QED
      BY <1>1, <1>2

\* The plan keeps its route, and nothing else is moved.
SameRoute(o) ==
    /\ move' \in [Moves -> Plans \cup {None}]
    /\ moved' \in [Moves -> Artifacts \cup {None}]
    /\ \A m \in Moves \ {o} : move'[m] = move[m] /\ moved'[m] = moved[m]
    /\ move'[o] \in Plans
    /\ move'[o].kind = move[o].kind /\ move'[o].from = move[o].from
    /\ move'[o].to = move[o].to

LEMMA LandedInShape ==
    ASSUME LocalTypes, NEW o \in Moves, ShapeOf(o), pc[o] \notin {"idle", "done"},
           LandsWell(o), SameRoute(o)
    PROVE  LocalTypes' /\ Apart(o) /\ ShapeOf(o)' /\ pc'[o] # "idle"
  <1>1. PICK step \in Steps \ {"idle"}, i \in Nat, out \in Outcomes :
            /\ pc' = [pc EXCEPT ![o] = step]
            /\ (k' = k /\ i = k[o]) \/ k' = [k EXCEPT ![o] = i]
            /\ (result' = result /\ out = "pending") \/ result' = [result EXCEPT ![o] = out]
            /\ step = "done" <=> out # "pending"
            /\ out = "succeeded" => HasMoved(o)'
            /\ step # "done" => (step \in {"finalize", "syncfinal"} <=> HasMoved(o)')
            /\ step \in Early => i = 1
            /\ step \in AtSidecar => i \in 1 .. Last(o)
      BY DEF LandsWell
  <1>2. LocalTypes'
      BY <1>1 DEF LocalTypes, SameRoute
  <1>3. Apart(o)
      BY <1>1 DEF LocalTypes, Apart, SameRoute
  <1>4. pc'[o] = step /\ k'[o] = i /\ result'[o] = out
      BY <1>1 DEF LocalTypes, ShapeOf
  <1>5. Last(o)' = Last(o)
      BY SameKindSameSidecars DEF SameRoute
  <1>6. ShapeOf(o)'
      BY <1>1, <1>4, <1>5 DEF ShapeOf, HasMoved, SameRoute
  <1> QED
      BY <1>2, <1>3, <1>4, <1>6

LEMMA NextFinalLands ==
    ASSUME LocalTypes, NEW o \in Moves, ShapeOf(o), pc[o] \in {"finalize", "syncfinal"},
           NEW error \in BOOLEAN, NextFinal(o, error), moved' = moved
    PROVE  LocalTypes' /\ Apart(o) /\ ShapeOf(o)' /\ pc'[o] # "idle"
  <1>1. /\ k[o] \in 1 .. Last(o) /\ Last(o) \in Nat /\ Len(Sidecars(o)) = Last(o)
        /\ move[o] \in Plans /\ HasMoved(o)' /\ pc[o] \notin {"idle", "done"}
      BY LastFacts DEF ShapeOf, AtSidecar, HasMoved
  <1>2. CASE k[o] < Last(o)
    <2>1. PICK e \in BOOLEAN : move' = [move EXCEPT ![o].error = e]
      <3>1. move' = [move EXCEPT ![o].error = @ \/ error]
          BY <1>1, <1>2, Zenon DEF NextFinal
      <3>2. (move[o].error \/ error) \in BOOLEAN
          BY <1>1 DEF Plans
      <3> QED
          BY <3>1, <3>2, Zenon
    <2>2. SameRoute(o)
      <3>1. [move[o] EXCEPT !.error = e] \in Plans
          BY <1>1 DEF Plans
      <3>2. move'[o] = [move[o] EXCEPT !.error = e]
          BY <2>1 DEF LocalTypes
      <3> QED
          BY <1>1, <2>1, <3>1, <3>2 DEF SameRoute, LocalTypes, Plans
    <2>3. GotoAt(o, "finalize", k[o] + 1) /\ k[o] + 1 \in 1 .. Last(o)
        BY <1>1, <1>2 DEF NextFinal
    <2>4. LandsWell(o)
      <3>1. k[o] + 1 \in Nat /\ "finalize" \in Steps \ {"idle", "done"} /\ "finalize" \notin Early
          BY <1>1 DEF Steps, Early
      <3> QED
          BY <1>1, <2>3, <3>1, GotoAtLands
    <2> QED
        BY <1>1, <2>2, <2>4, LandedInShape
  <1>3. CASE ~(k[o] < Last(o))
    <2>1. PICK out \in {"failed", "succeeded"} : Finish(o, out) /\ move' = move
        BY <1>1, <1>3 DEF NextFinal
    <2>2. LandsWell(o)
        BY <1>1, <2>1, FinishLands DEF Outcomes
    <2>3. SameRoute(o)
        BY <1>1, <2>1 DEF SameRoute, LocalTypes
    <2> QED
        BY <1>1, <2>2, <2>3, LandedInShape
  <1> QED
      BY <1>2, <1>3

LEMMA StayingOnRoute ==
    ASSUME LocalTypes, NEW o \in Moves, ShapeOf(o), pc[o] # "idle",
           move' = move, moved' = moved
    PROVE  SameRoute(o) /\ (HasMoved(o)' <=> HasMoved(o))
  BY DEF SameRoute, LocalTypes, ShapeOf, HasMoved

\* Every step of an operation that was begun.
LEMMA GoingOnLocally ==
    ASSUME LocalTypes, WellFormed(dir), NEW o \in Moves, ShapeOf(o),
           content \in [Artifacts -> Nat],
           \/ Revalidate(o) \/ Open(o) \/ ReadDigest(o) \/ Recheck(o)
           \/ WriteSidecar(o) \/ PublishSidecar(o) \/ SyncSidecar(o) \/ Undo(o)
           \/ Stat(o) \/ Rename(o) \/ Finalize(o) \/ SyncFinal(o) \/ Kill(o)
    PROVE  LocalTypes' /\ Apart(o) /\ ShapeOf(o)' /\ pc'[o] # "idle"
  <1>1. pc[o] \notin {"idle", "done"}
      BY DEF Revalidate, Open, ReadDigest, Recheck, WriteSidecar, PublishSidecar, SyncSidecar,
             Undo, Stat, Rename, Finalize, SyncFinal, Kill, Active
  <1>2. /\ move[o] \in Plans /\ move[o].thing \in Artifacts /\ move[o].from \in FilePlaces
        /\ Last(o) \in 0 .. 3 /\ Len(Sidecars(o)) = Last(o)
        /\ Sidecars(o) = << >> <=> Last(o) = 0
        /\ pc[o] \in AtSidecar => k[o] \in 1 .. Last(o)
        /\ pc[o] \in Early => k[o] = 1
        /\ pc[o] \in {"finalize", "syncfinal"} <=> HasMoved(o)
      BY <1>1, LastFacts DEF ShapeOf, Plans, LocalTypes
  <1>3. CASE Revalidate(o) \/ Open(o) \/ Recheck(o) \/ Kill(o)
    <2>1. move' = move /\ moved' = moved
        BY <1>3 DEF Revalidate, Open, Recheck, Kill
    <2>2. SameRoute(o) /\ (HasMoved(o)' <=> HasMoved(o))
        BY <1>1, <2>1, StayingOnRoute
    <2>3. ASSUME Revalidate(o) \/ Open(o) \/ Recheck(o)
          PROVE  LandsWell(o)
      <3>1. k[o] = 1 /\ ~HasMoved(o)'
          BY <1>2, <2>2, <2>3 DEF Revalidate, Open, Recheck, Early
      <3>2. \/ \E step \in {"open", "digest", "recheck", "stat"} : Goto(o, step)
            \/ Last(o) > 0 /\ Goto(o, "write")
            \/ \E out \in {"safely_skipped", "failed"} : Finish(o, out)
          BY <1>2, <2>3 DEF Revalidate, Open, Recheck
      <3>3. CASE \E step \in {"open", "digest", "recheck", "stat"} : Goto(o, step)
          BY <3>1, <3>3, GotoLands DEF Steps, AtSidecar
      <3>4. CASE Last(o) > 0 /\ Goto(o, "write")
          BY <1>2, <3>1, <3>4, GotoLands DEF Steps, Early
      <3>5. CASE \E out \in {"safely_skipped", "failed"} : Finish(o, out)
          BY <3>5, FinishLands DEF Outcomes
      <3> QED
          BY <3>2, <3>3, <3>4, <3>5
    <2>4. ASSUME Kill(o)
          PROVE  LandsWell(o)
        BY <2>4, FinishLands DEF Kill, Finish, Outcomes
    <2> QED
        BY <1>1, <1>3, <2>2, <2>3, <2>4, LandedInShape
  <1>4. CASE ReadDigest(o)
    <2>1. /\ k[o] = 1 /\ ~HasMoved(o)' /\ Goto(o, "recheck")
          /\ moved' = moved /\ content[move[o].thing] \in Nat
          /\ move' = [move EXCEPT ![o].digest = content[move[o].thing]]
        BY <1>2, <1>4 DEF ReadDigest, HasMoved, Early
    <2>2. LandsWell(o)
        BY <2>1, GotoLands DEF Steps, AtSidecar
    <2>3. SameRoute(o)
      <3>1. /\ [move[o] EXCEPT !.digest = content[move[o].thing]] \in Plans
            /\ move'[o] = [move[o] EXCEPT !.digest = content[move[o].thing]]
          BY <1>2, <2>1 DEF Plans, LocalTypes
      <3> QED
          BY <1>2, <2>1, <3>1 DEF SameRoute, LocalTypes, Plans
    <2> QED
        BY <1>1, <2>2, <2>3, LandedInShape
  <1>5. CASE WriteSidecar(o) \/ PublishSidecar(o) \/ SyncSidecar(o) \/ Undo(o) \/ Stat(o)
    <2>1. move' = move /\ moved' = moved
        BY <1>5 DEF WriteSidecar, PublishSidecar, SyncSidecar, Undo, Stat
    <2>2. SameRoute(o) /\ ~HasMoved(o)'
        BY <1>1, <1>2, <1>5, <2>1, StayingOnRoute
        DEF WriteSidecar, PublishSidecar, SyncSidecar, Undo, Stat
    <2>3. \/ \E i \in 0 .. Last(o) : UndoFrom(o, i)
          \/ k[o] \in 1 .. Last(o) /\ \E step \in {"publish", "sync"} : Goto(o, step)
          \/ k[o] \in 1 .. Last(o) /\ k[o] < Last(o) /\ GotoAt(o, "write", k[o] + 1)
          \/ \E step \in {"stat", "rename"} : Goto(o, step)
        BY <1>2, <1>5
        DEF WriteSidecar, PublishSidecar, SyncSidecar, NextSidecar, Undo, Stat, AtSidecar
    <2>4. LandsWell(o)
      <3>1. CASE \E i \in 0 .. Last(o) : UndoFrom(o, i)
          BY <1>2, <2>2, <3>1, UndoLands
      <3>2. CASE k[o] \in 1 .. Last(o) /\ \E step \in {"publish", "sync"} : Goto(o, step)
          BY <2>2, <3>2, GotoLands DEF Steps, Early
      <3>3. CASE k[o] \in 1 .. Last(o) /\ k[o] < Last(o) /\ GotoAt(o, "write", k[o] + 1)
        <4>1. k[o] + 1 \in 1 .. Last(o) /\ k[o] + 1 \in Nat
            BY <1>2, <3>3
        <4> QED
            BY <2>2, <3>3, <4>1, GotoAtLands DEF Steps, Early
      <3>4. CASE \E step \in {"stat", "rename"} : Goto(o, step)
          BY <2>2, <3>4, GotoLands DEF Steps, Early, AtSidecar
      <3> QED
          BY <2>3, <3>1, <3>2, <3>3, <3>4
    <2> QED
        BY <1>1, <2>2, <2>4, LandedInShape
  <1>6. CASE Rename(o)
    <2>1. CASE dir[move[o].from] = None \/ dir[move[o].to] # None
      <3>1. UndoFrom(o, Last(o)) /\ move' = move /\ moved' = moved
          BY <1>2, <1>6, <2>1 DEF Rename
      <3>2. SameRoute(o) /\ ~HasMoved(o)'
          BY <1>1, <1>2, <1>6, <3>1, StayingOnRoute DEF Rename
      <3>3. LandsWell(o)
          BY <1>2, <3>1, <3>2, UndoLands
      <3> QED
          BY <1>1, <3>2, <3>3, LandedInShape
    <2>2. CASE ~(dir[move[o].from] = None \/ dir[move[o].to] # None)
      <3>1. /\ moved' = [moved EXCEPT ![o] = dir[move[o].from]] /\ move' = move
            /\ IF Last(o) = 0 THEN Finish(o, "succeeded") ELSE GotoAt(o, "finalize", 1)
          BY <1>2, <1>6, <2>2 DEF Rename
      <3>2. dir[move[o].from] \in Artifacts
          BY <1>2, <2>2 DEF WellFormed
      <3>3. SameRoute(o) /\ HasMoved(o)'
          BY <1>2, <3>1, <3>2, MoveAssumption DEF SameRoute, LocalTypes, HasMoved, Things
      <3>4. LandsWell(o)
        <4>1. CASE Last(o) = 0
            BY <3>1, <3>3, <4>1, FinishLands DEF Outcomes
        <4>2. CASE Last(o) # 0
            BY <1>2, <3>1, <3>3, <4>2, GotoAtLands DEF Steps, Early
        <4> QED
            BY <4>1, <4>2
      <3> QED
          BY <1>1, <3>3, <3>4, LandedInShape
    <2> QED
        BY <2>1, <2>2
  <1>7. CASE Finalize(o)
    <2>1. CASE \E error \in BOOLEAN : NextFinal(o, error)
        BY <1>7, <2>1, NextFinalLands DEF Finalize
    <2>2. CASE Goto(o, "syncfinal") /\ move' = move
      <3>1. SameRoute(o) /\ HasMoved(o)'
          BY <1>1, <1>2, <1>7, <2>2, StayingOnRoute DEF Finalize
      <3>2. LandsWell(o)
          BY <1>2, <1>7, <2>2, <3>1, GotoLands DEF Finalize, Steps, Early, AtSidecar
      <3> QED
          BY <1>1, <3>1, <3>2, LandedInShape
    <2> QED
        BY <1>7, <2>1, <2>2 DEF Finalize
  <1>8. CASE SyncFinal(o)
      BY <1>8, NextFinalLands DEF SyncFinal
  <1> QED
      BY <1>3, <1>4, <1>5, <1>6, <1>7, <1>8

-----------------------------------------------------------------------------
(* The effect of a step on the directories.                                *)

SideChange(c, e) ==
    /\ c.from \in SidesOf(e) \cup {None} /\ c.to \in SidesOf(e) \cup {None}
    /\ c.from # c.to
    /\ c.thing \in Records \cup {Torn}

FileChange(c) ==
    /\ c.from \in FilePlaces /\ c.to \in FilePlaces /\ c.from # c.to
    /\ c.thing \in Artifacts /\ c.over = None
    /\ dir[c.from] = c.thing /\ dir[c.to] = None

Untouched == dir' = dir /\ Survivors' = Survivors
Settled   == dir' = dir /\ Survivors' = {dir}
Recorded(o, c) ==
    /\ Changed(c) /\ Active(o)
    /\ c.thing \in {Record(o), Torn} \/ (c.from # None /\ c.thing = dir[c.from])
    /\ \E e \in Dests :
          /\ move[o].to = Vault(e) /\ SideChange(c, e)
          /\ (\E s \in Suffixes : c.to = Side(e, s, "final")) => HasMoved(o)
Carried(o, c) ==
    /\ Changed(c) /\ FileChange(c) /\ pc[o] = "rename"
    /\ c.from = move[o].from /\ c.to = move[o].to
    /\ moved' = [moved EXCEPT ![o] = c.thing]

Effect(o) ==
    \/ Untouched /\ moved' = moved
    \/ Settled /\ moved' = moved
    \/ \E c \in Changes : Recorded(o, c) /\ moved' = moved
    \/ \E c \in Changes : Carried(o, c)

LEMMA RecordIsARecord ==
    ASSUME NEW o \in Moves, move[o] \in Plans
    PROVE  Record(o) \in Records
  BY DEF Record, Records, Plans

LEMMA RecordedEffect ==
    ASSUME FsTypes, NEW o \in Moves, NEW e \in Dests, move[o].to = Vault(e), Active(o),
           NEW from \in SidesOf(e) \cup {None}, NEW to \in SidesOf(e) \cup {None}, from # to,
           NEW thing \in Records \cup {Torn}, Change(from, to, thing), moved' = moved,
           thing \in {Record(o), Torn} \/ (from # None /\ thing = dir[from]),
           (\E s \in Suffixes : to = Side(e, s, "final")) => HasMoved(o)
    PROVE  Effect(o) /\ FsTypes'
  <1>1. from \in Places \cup {None} /\ to \in Places \cup {None} /\ thing \in Things
      BY PlacesDiffer DEF Things
  <1>2. Changed(Made(from, to, thing)) /\ FsTypes'
      BY <1>1, ChangeIsKept
  <1>3. SideChange(Made(from, to, thing), e)
      BY DEF SideChange, Made
  <1>4. Made(from, to, thing).from = from /\ Made(from, to, thing).to = to
        /\ Made(from, to, thing).thing = thing
      BY DEF Made
  <1> HIDE DEF Made
  <1>5. Recorded(o, Made(from, to, thing))
      BY <1>2, <1>3, <1>4 DEF Recorded
  <1> QED
      BY <1>2, <1>5 DEF Effect, Changed

LEMMA OperationEffect ==
    ASSUME FsTypes, LocalTypes, WellFormed(dir), NEW o \in Moves, ShapeOf(o), Operation(o)
    PROVE  Effect(o) /\ FsTypes'
  <1>1. CASE Seal(o) \/ Revalidate(o) \/ Open(o) \/ ReadDigest(o) \/ Recheck(o) \/ Stat(o)
    <2>1. UNCHANGED fsVars /\ moved' = moved
        BY <1>1 DEF Seal, Begin, Revalidate, Open, ReadDigest, Recheck, Stat
    <2> QED
        BY <2>1, NothingChanged DEF Effect, Untouched
  <1>2. CASE SyncSidecar(o) \/ SyncFinal(o)
    <2>1. (Sync \/ UNCHANGED fsVars) /\ moved' = moved
        BY <1>2 DEF SyncSidecar, SyncFinal
    <2> QED
        BY <2>1, NothingChanged, SyncKeepsOne DEF Effect, Untouched, Settled
  <1>3. CASE WriteSidecar(o) \/ PublishSidecar(o) \/ Undo(o) \/ Finalize(o)
    <2>1. /\ Active(o) /\ pc[o] # "idle" /\ pc[o] \in AtSidecar /\ moved' = moved
        BY <1>3 DEF WriteSidecar, PublishSidecar, Undo, Finalize, Active, AtSidecar
    <2>2. move[o] \in Plans /\ k[o] \in 1 .. Last(o)
        BY <2>1 DEF ShapeOf
    <2>3. PICK e \in Dests : move[o].to = Vault(e)
        BY <2>1, <2>2, SidecarNames DEF ShapeOf, Vaults
    <2>4. \A stage \in Stages : At(o, k[o], stage) \in SidesOf(e) /\ At(o, k[o], stage) \in SidePlaces
        BY <2>2, <2>3, SidecarPlaces
    <2>5. \A s, t \in Stages : s # t => At(o, k[o], s) # At(o, k[o], t)
        BY <2>2, <2>3, SidecarPlaces
    <2>6. \A stage \in Stages :
              /\ At(o, k[o], stage) # None
              /\ dir[At(o, k[o], stage)] # None => dir[At(o, k[o], stage)] \in Records \cup {Torn}
        BY <2>4, PlacesDiffer DEF WellFormed
    <2>7. Record(o) \in Records
        BY <2>2, RecordIsARecord
    <2> DEFINE tmp     == At(o, k[o], "tmp")
               pending == At(o, k[o], "pending")
               final   == At(o, k[o], "final")
    <2>8. /\ tmp \in SidesOf(e) /\ pending \in SidesOf(e) /\ final \in SidesOf(e)
          /\ tmp # None /\ pending # None /\ tmp # pending /\ pending # final
          /\ dir[pending] # None => dir[pending] \in Records \cup {Torn}
        BY <2>4, <2>5, <2>6 DEF Stages
    <2>9. \/ UNCHANGED fsVars
          \/ Change(None, tmp, Record(o)) \/ Change(None, tmp, Torn)
          \/ Change(tmp, pending, Record(o))
          \/ dir[pending] # None /\ Change(pending, None, dir[pending])
          \/ dir[pending] # None /\ Change(pending, final, dir[pending]) /\ HasMoved(o)
        BY <1>3 DEF WriteSidecar, PublishSidecar, Undo, Finalize, ShapeOf
    <2>10. \A s \in Suffixes : Side(e, s, "final") \notin {tmp, pending, None}
      <3>1. \A s \in Suffixes : Side(e, s, "final") # None
          BY PlacesDiffer DEF SidesOf, Stages
      <3>2. tmp[3] = "tmp" /\ pending[3] = "pending"
          BY DEF At, Side
      <3> QED
          BY <3>1, <3>2 DEF Side
    <2> HIDE DEF tmp, pending, final
    <2>11. CASE UNCHANGED fsVars
        BY <2>1, <2>11, NothingChanged DEF Effect, Untouched
    <2>12. CASE Change(None, tmp, Record(o)) \/ Change(None, tmp, Torn)
        BY <2>1, <2>3, <2>7, <2>8, <2>12, <2>10, RecordedEffect
    <2>13. CASE Change(tmp, pending, Record(o))
        BY <2>1, <2>3, <2>7, <2>8, <2>13, <2>10, RecordedEffect
    <2>14. CASE dir[pending] # None /\ Change(pending, None, dir[pending])
        BY <2>1, <2>3, <2>8, <2>14, <2>10, RecordedEffect
    <2>15. CASE dir[pending] # None /\ Change(pending, final, dir[pending]) /\ HasMoved(o)
        BY <2>1, <2>3, <2>8, <2>15, RecordedEffect
    <2> QED
        BY <2>9, <2>11, <2>12, <2>13, <2>14, <2>15
  <1>4. CASE Rename(o)
    <2>1. CASE UNCHANGED <<fsVars, moved>>
        BY <2>1, NothingChanged DEF Effect, Untouched
    <2>2. CASE ~(UNCHANGED <<fsVars, moved>>)
      <3> DEFINE from == move[o].from
                 to == move[o].to
                 c == Made(from, to, dir[from])
      <3>1. /\ dir[from] # None /\ dir[to] = None /\ pc[o] = "rename"
            /\ Change(from, to, dir[from])
            /\ moved' = [moved EXCEPT ![o] = dir[from]]
          BY <1>4, <2>2 DEF Rename
      <3>2. from \in FilePlaces /\ to \in FilePlaces /\ from # to
          BY <3>1, PlacesDiffer DEF ShapeOf, Plans
      <3>3. dir[from] \in Artifacts
          BY <3>1, <3>2 DEF WellFormed
      <3>4. Changed(c) /\ FsTypes'
          BY <3>1, <3>2, <3>3, PlacesDiffer, ChangeIsKept DEF Things
      <3>5. FileChange(c)
          BY <3>1, <3>2, <3>3, PlacesDiffer DEF FileChange, Made
      <3>6. c.from = from /\ c.to = to /\ c.thing = dir[from]
          BY DEF Made
      <3> HIDE DEF c
      <3>7. Carried(o, c)
          BY <3>1, <3>4, <3>5, <3>6 DEF Carried
      <3> QED
          BY <3>4, <3>7 DEF Effect, Changed
    <2> QED
        BY <2>1, <2>2
  <1> QED
      BY <1>1, <1>2, <1>3, <1>4 DEF Operation

-----------------------------------------------------------------------------
(* The directories stay well formed, whatever a power loss keeps.          *)

LEMMA SideChangeKeepsForm ==
    ASSUME NEW d, WellFormed(d), NEW c \in Changes, NEW e \in Dests, SideChange(c, e)
    PROVE  /\ WellFormed(Apply(d, c))
           /\ \A p \in FilePlaces : Apply(d, c)[p] = d[p]
           /\ \A p \in SidePlaces : p \notin SidesOf(e) => Apply(d, c)[p] = d[p]
  <1>1. d \in Dir
      BY DEF WellFormed
  <1>2. \A p \in Places : p \notin SidesOf(e) => Apply(d, c)[p] = d[p]
      BY <1>1, PlacesDiffer, ApplyFacts DEF SideChange
  <1>3. \A p \in FilePlaces : Apply(d, c)[p] = d[p]
      BY <1>2, PlacesDiffer
  <1>4. \A p \in SidePlaces : Apply(d, c)[p] \in Records \cup {Torn, None}
    <2> TAKE p \in SidePlaces
    <2>1. CASE p = c.to
        BY <1>1, <2>1, PlacesDiffer, ApplyFacts DEF SideChange, WellFormed
    <2>2. CASE p = c.from
        BY <1>1, <2>2, PlacesDiffer, ApplyFacts DEF SideChange, WellFormed
    <2>3. CASE p # c.to /\ p # c.from
        BY <1>1, <2>3, PlacesDiffer, ApplyFacts DEF WellFormed
    <2> QED
        BY <2>1, <2>2, <2>3
  <1>5. \A a \in Artifacts : {q \in FilePlaces : Apply(d, c)[q] = a} = {q \in FilePlaces : d[q] = a}
      BY <1>3
  <1>6. WellFormed(Apply(d, c))
      BY <1>1, <1>3, <1>4, <1>5, ApplyFacts DEF WellFormed
  <1> QED
      BY <1>2, <1>3, <1>6, PlacesDiffer

LEMMA FileChangeKeepsForm ==
    ASSUME NEW d, WellFormed(d), NEW c \in Changes, FileChange(c)
    PROVE  /\ WellFormed(Apply(d, c))
           /\ \A p \in SidePlaces : Apply(d, c)[p] = d[p]
           /\ \A p \in FilePlaces : p \notin {c.from, c.to} => Apply(d, c)[p] = d[p]
  <1>1. d \in Dir /\ Apply(d, c) \in Dir
      BY ApplyFacts DEF WellFormed
  <1>2. c.from \in FilePlaces /\ c.to \in FilePlaces /\ c.from # c.to /\ c.thing \in Artifacts
        /\ c.from # None /\ c.to # None /\ c.thing # None
      BY PlacesDiffer, MoveAssumption DEF FileChange, Things
  <1>3. \A p \in Places : p \notin {c.from, c.to} => Apply(d, c)[p] = d[p]
      BY <1>1, ApplyFacts
  <1>4. CASE ~Fits(d, c)
      BY <1>1, <1>3, <1>4, PlacesDiffer, ApplyFacts
  <1>5. CASE Fits(d, c)
    <2>1. d[c.from] = c.thing /\ d[c.to] = None
        BY <1>2, <1>5 DEF Fits, FileChange
    <2>2. Apply(d, c)[c.from] = None /\ Apply(d, c)[c.to] = c.thing
        BY <1>1, <1>2, <1>5, ApplyFacts
    <2>3. \A p \in FilePlaces : Apply(d, c)[p] \in Artifacts \cup {None}
        BY <1>2, <1>3, <2>2, PlacesDiffer DEF WellFormed
    <2>4. \A p \in SidePlaces : Apply(d, c)[p] = d[p]
        BY <1>2, <1>3, PlacesDiffer
    <2>5. ASSUME NEW a \in Artifacts
          PROVE  \E p \in FilePlaces : {q \in FilePlaces : Apply(d, c)[q] = a} = {p}
      <3>1. a # None
          BY MoveAssumption DEF Things
      <3>2. CASE a = c.thing
        <4>1. \A q \in FilePlaces : d[q] = a => q = c.from
            BY <1>2, <2>1, <3>2 DEF WellFormed
        <4>2. \A q \in FilePlaces : Apply(d, c)[q] = a <=> q = c.to
            BY <1>2, <1>3, <2>2, <3>1, <3>2, <4>1, PlacesDiffer
        <4> QED
            BY <1>2, <4>2
      <3>3. CASE a # c.thing
        <4>1. \A q \in FilePlaces : Apply(d, c)[q] = a <=> d[q] = a
            BY <1>2, <1>3, <2>1, <2>2, <3>1, <3>3, PlacesDiffer
        <4>2. {q \in FilePlaces : Apply(d, c)[q] = a} = {q \in FilePlaces : d[q] = a}
            BY <4>1
        <4> QED
            BY <4>2 DEF WellFormed
      <3> QED
          BY <3>2, <3>3
    <2>6. WellFormed(Apply(d, c))
        BY <1>1, <2>3, <2>4, <2>5 DEF WellFormed
    <2> QED
        BY <1>3, <2>4, <2>6, PlacesDiffer
  <1> QED
      BY <1>4, <1>5

LEMMA EffectKeepsForm ==
    ASSUME Directories, NEW o \in Moves, Effect(o)
    PROVE  Directories'
  <1>1. CASE Untouched \/ Settled
      BY <1>1 DEF Untouched, Settled, Directories, WellFormed
  <1>2. CASE \E c \in Changes : Recorded(o, c) \/ Carried(o, c)
    <2>1. PICK c \in Changes : Recorded(o, c) \/ Carried(o, c)
        BY <1>2
    <2>2. \A d \in Survivors : WellFormed(Apply(d, c))
        BY <2>1, SideChangeKeepsForm, FileChangeKeepsForm DEF Recorded, Carried, Directories
    <2>3. dir' = Apply(dir, c) /\ Survivors' = AfterOne(Survivors, c)
        BY <2>1 DEF Recorded, Carried, Changed
    <2>4. \A d \in Survivors' : WellFormed(d)
        BY <2>2, <2>3 DEF AfterOne, Directories
    <2>5. dir' \in Survivors'
        BY <2>3 DEF AfterOne, Directories
    <2> QED
        BY <2>4, <2>5 DEF Directories, WellFormed
  <1> QED
      BY <1>1, <1>2 DEF Effect

-----------------------------------------------------------------------------
(* Types, shapes and directories.                                          *)

Grounded == TypeOK /\ Shape /\ Directories

Ground ==
    /\ content \in [Artifacts -> Nat]
    /\ writes \in Nat /\ kills \in Nat /\ faults \in Nat /\ losses \in Nat
    /\ shared \in [Moves -> BOOLEAN]

LEMMA TypesSplit == TypeOK <=> FsTypes /\ LocalTypes /\ Ground
  BY DEF TypeOK, FsTypes, LocalTypes, Ground, Dir

LEMMA OwnedBySteps ==
    ASSUME NEW o \in Moves, Operation(o)
    PROVE  /\ content' = content /\ writes' = writes /\ kills' = kills /\ losses' = losses
           /\ faults' = faults \/ faults' = faults + 1
  <1>1. CASE Seal(o) \/ Revalidate(o) \/ Open(o) \/ ReadDigest(o) \/ Recheck(o) \/ Undo(o)
             \/ Stat(o) \/ Rename(o)
      BY <1>1 DEF Seal, Begin, Revalidate, Open, ReadDigest, Recheck, Undo, Stat, Rename
  <1>2. CASE WriteSidecar(o) \/ PublishSidecar(o) \/ SyncSidecar(o)
      BY <1>2 DEF WriteSidecar, PublishSidecar, SyncSidecar, Fault
  <1>3. CASE Finalize(o) \/ SyncFinal(o)
      BY <1>3 DEF Finalize, SyncFinal, Fault
  <1> QED
      BY <1>1, <1>2, <1>3 DEF Operation

\* What Next amounts to: a step of one operation, a write or a power loss.
LEMMA OperationStep ==
    ASSUME Grounded, NEW o \in Moves, Operation(o) \/ Kill(o)
    PROVE  /\ Effect(o) /\ Apart(o) /\ FsTypes' /\ LocalTypes' /\ ShapeOf(o)'
           /\ pc'[o] # "idle"
  <1>1. FsTypes /\ LocalTypes /\ Ground /\ WellFormed(dir) /\ ShapeOf(o)
      BY TypesSplit DEF Grounded, Directories, Shape
  <1>2. LocalTypes' /\ Apart(o) /\ ShapeOf(o)' /\ pc'[o] # "idle"
      BY <1>1, BeginLocally, GoingOnLocally DEF Operation, Ground
  <1>3. CASE Operation(o)
      BY <1>1, <1>2, <1>3, OperationEffect
  <1>4. CASE Kill(o)
    <2>1. UNCHANGED fsVars /\ moved' = moved
        BY <1>4 DEF Kill
    <2> QED
        BY <1>1, <1>2, <2>1, NothingChanged DEF Effect, Untouched
  <1> QED
      BY <1>2, <1>3, <1>4

LEMMA GroundedInitially == Init => Grounded
  <1> SUFFICES ASSUME Init PROVE Grounded
      OBVIOUS
  <1>1. \A p \in Places : dir[p] = IF \E a \in Artifacts : p = Home(a) THEN p[1] ELSE None
      BY DEF Init
  <1>2. \A a \in Artifacts : Home(a) \in FilePlaces /\ dir[Home(a)] = a
      BY <1>1, PlacesDiffer DEF Home, Homes
  <1>3. \A p \in Places : p \notin Homes => dir[p] = None
      BY <1>1 DEF Homes
  <1>4. dir \in Dir
    <2>1. \A p \in Places : dir[p] \in Things \cup {None}
        BY <1>2, <1>3 DEF Things, Homes
    <2>2. dir = [p \in Places |-> dir[p]]
        BY DEF Init
    <2> QED
        BY <2>1, <2>2 DEF Dir
  <1>5. \A p \in FilePlaces : dir[p] \in Artifacts \cup {None}
      BY <1>2, <1>3, PlacesDiffer DEF Homes
  <1>6. \A p \in SidePlaces : dir[p] = None
      BY <1>3, PlacesDiffer
  <1>7. ASSUME NEW a \in Artifacts
        PROVE  {q \in FilePlaces : dir[q] = a} = {Home(a)}
    <2>1. a # None
        BY MoveAssumption DEF Things
    <2>2. \A q \in FilePlaces : dir[q] = a => q = Home(a)
        BY <1>2, <1>3, <2>1, PlacesDiffer DEF Homes
    <2> QED
        BY <1>2, <2>2
  <1>8. WellFormed(dir)
      BY <1>2, <1>4, <1>5, <1>6, <1>7 DEF WellFormed
  <1>9. Survivors = {dir}
      BY KeptOfNothing DEF Init, Survivors
  <1>10. Directories
      BY <1>8, <1>9 DEF Directories
  <1>11. FsTypes /\ LocalTypes /\ Ground
    <2>1. << >> \in Seq(Changes)
        OBVIOUS
    <2> QED
        BY <1>4, <2>1 DEF Init, FsTypes, LocalTypes, Ground, Steps, Outcomes
  <1>12. Shape
      BY DEF Init, Shape, ShapeOf, HasMoved, Steps, Early, AtSidecar
  <1> QED
      BY <1>10, <1>11, <1>12, TypesSplit DEF Grounded

LEMMA GroundedKept == Grounded /\ [Next]_vars => Grounded'
  <1> SUFFICES ASSUME Grounded, [Next]_vars PROVE Grounded'
      OBVIOUS
  <1>1. FsTypes /\ LocalTypes /\ Ground /\ Directories /\ Shape
      BY TypesSplit DEF Grounded
  <1>2. ASSUME Sharing
        PROVE  shared' \in [Moves -> BOOLEAN]
      BY <1>2 DEF Sharing
  <1>3. ASSUME NEW o \in Moves, Operation(o) \/ Kill(o), Sharing
        PROVE  Grounded'
    <2>1. Effect(o) /\ Apart(o) /\ FsTypes' /\ LocalTypes' /\ ShapeOf(o)'
        BY <1>3, OperationStep
    <2>2. Shape'
        BY <1>1, <2>1, OthersKeepTheirShape DEF Shape
    <2>3. Directories'
        BY <1>1, <2>1, EffectKeepsForm
    <2>4. Ground'
      <3>1. CASE Operation(o)
          BY <1>1, <1>2, <1>3, <3>1, OwnedBySteps DEF Ground
      <3>2. CASE Kill(o)
          BY <1>1, <1>2, <1>3, <3>2 DEF Ground, Kill
      <3> QED
          BY <1>3, <3>1, <3>2
    <2> QED
        BY <2>1, <2>2, <2>3, <2>4 DEF Grounded, TypeOK, FsTypes, LocalTypes, Ground, Dir
  <1>4. ASSUME NEW a \in Artifacts, Write(a), Sharing
        PROVE  Grounded'
    <2>1. UNCHANGED fsVars /\ UNCHANGED <<move, pc, k, result, kills, faults, losses, moved>>
        BY <1>4 DEF Write
    <2>2. FsTypes' /\ Directories'
        BY <1>1, <2>1, NothingChanged DEF Directories, WellFormed
    <2>3. LocalTypes' /\ Shape'
        BY <1>1, <2>1 DEF LocalTypes, Shape, ShapeOf, HasMoved, Last, Sidecars
    <2>4. Ground'
        BY <1>1, <1>2, <1>4, <2>1 DEF Ground, Write
    <2> QED
        BY <2>2, <2>3, <2>4 DEF Grounded, TypeOK, FsTypes, LocalTypes, Ground, Dir
  <1>5. ASSUME PowerLoss, Sharing
        PROVE  Grounded'
    <2>1. PICK d \in Survivors : dir' = d /\ disk' = d
        BY <1>5 DEF PowerLoss
    <2>2. log' = << >> /\ UNCHANGED <<content, writes, kills, move, k, faults, moved>>
          /\ losses' = losses + 1
        BY <1>5 DEF PowerLoss
    <2>3. Survivors' = {d}
        BY <2>1, <2>2, KeptOfNothing DEF Survivors
    <2>4. FsTypes' /\ Directories'
      <3>1. << >> \in Seq(Changes) /\ WellFormed(d)
          BY <1>1, <2>1 DEF Directories
      <3> QED
          BY <2>1, <2>2, <2>3, <3>1 DEF FsTypes, Directories, WellFormed
    <2>5. \A m \in Moves :
              /\ pc'[m] = IF Active(m) THEN "done" ELSE pc[m]
              /\ result'[m] = IF Active(m) THEN "crashed" ELSE result[m]
        BY <1>5 DEF PowerLoss
    <2>6. LocalTypes'
        BY <1>1, <1>5, <2>2 DEF LocalTypes, PowerLoss, Steps, Outcomes
    <2>7. Shape'
      <3> SUFFICES ASSUME NEW m \in Moves PROVE ShapeOf(m)'
          BY DEF Shape
      <3>1. ShapeOf(m) /\ Last(m)' = Last(m)
          BY <1>1, <2>2, SameKindSameSidecars DEF Shape
      <3> QED
          BY <2>2, <2>5, <3>1 DEF ShapeOf, HasMoved, Active, Steps, Early, AtSidecar
    <2>8. Ground'
        BY <1>1, <1>2, <1>5, <2>2 DEF Ground
    <2> QED
        BY <2>4, <2>6, <2>7, <2>8 DEF Grounded, TypeOK, FsTypes, LocalTypes, Ground, Dir
  <1>6. ASSUME UNCHANGED vars
        PROVE  Grounded'
    <2>1. Survivors' = Survivors
        BY <1>6, NothingChanged DEF vars
    <2> QED
        BY <1>6, <2>1 DEF vars, fsVars, Grounded, TypeOK, Shape, ShapeOf, HasMoved, Last, Sidecars,
           Directories, WellFormed
  <1> QED
      BY <1>3, <1>4, <1>5, <1>6 DEF Next

\* Every variable keeps its type, whatever is killed, fails or loses power.
THEOREM TypeCorrect == Spec => []TypeOK
  <1>1. Grounded => TypeOK
      BY DEF Grounded
  <1> QED
      BY <1>1, GroundedInitially, GroundedKept, PTL DEF Spec

\* An artifact is never lost and never duplicated.
THEOREM OnePlaceForEach == Spec => []ArtifactInOnePlace
  <1>1. Grounded => ArtifactInOnePlace
      BY DEF Grounded, Directories, WellFormed, ArtifactInOnePlace
  <1> QED
      BY <1>1, GroundedInitially, GroundedKept, PTL DEF Spec

-----------------------------------------------------------------------------
(* What stays of an operation once it has begun.                           *)

Step(o) == Operation(o) \/ Kill(o)

\* Only reading the digest and finalizing change a plan, in one field each.
LEMMA PlanStays ==
    ASSUME LocalTypes, NEW o \in Moves, ShapeOf(o), pc[o] # "idle", Step(o)
    PROVE  /\ move'[o].kind = move[o].kind /\ move'[o].from = move[o].from
           /\ move'[o].to = move[o].to /\ move'[o].thing = move[o].thing
           /\ move'[o].content = move[o].content
           /\ pc[o] # "digest" => move'[o].digest = move[o].digest
           /\ HasMoved(o) => moved'[o] = moved[o]
  <1>1. move[o] \in Plans /\ ~Seal(o)
      BY DEF ShapeOf, Seal, Begin
  <1>2. CASE ReadDigest(o)
    <2>1. move'[o] = [move[o] EXCEPT !.digest = content[move[o].thing]] /\ pc[o] = "digest"
          /\ moved' = moved
        BY <1>2 DEF ReadDigest, LocalTypes
    <2> QED
        BY <1>1, <2>1 DEF Plans
  <1>3. CASE Finalize(o) \/ SyncFinal(o)
    <2>1. moved' = moved /\ (move' = move \/ \E error \in BOOLEAN : NextFinal(o, error))
        BY <1>3 DEF Finalize, SyncFinal
    <2>2. ASSUME NEW error \in BOOLEAN, NextFinal(o, error), move' # move
          PROVE  \E e \in BOOLEAN : move'[o] = [move[o] EXCEPT !.error = e]
      <3>1. move' = [move EXCEPT ![o].error = @ \/ error]
          BY <2>2, Zenon DEF NextFinal
      <3>2. (move[o].error \/ error) \in BOOLEAN
          BY <1>1 DEF Plans
      <3>3. PICK e \in BOOLEAN : move' = [move EXCEPT ![o].error = e]
          BY <3>1, <3>2, Zenon
      <3> QED
          BY <3>3 DEF LocalTypes
    <2> QED
        BY <1>1, <2>1, <2>2 DEF Plans
  <1>4. CASE Rename(o)
      BY <1>4 DEF Rename, ShapeOf, Steps
  <1>5. CASE Revalidate(o) \/ Open(o) \/ Recheck(o) \/ WriteSidecar(o) \/ PublishSidecar(o)
             \/ SyncSidecar(o) \/ Undo(o) \/ Stat(o) \/ Kill(o)
      BY <1>5 DEF Revalidate, Open, Recheck, WriteSidecar, PublishSidecar, SyncSidecar, Undo,
                  Stat, Kill
  <1> QED
      BY <1>1, <1>2, <1>3, <1>4, <1>5 DEF Step, Operation

\* No operation is idle again; what was moved and where stays.
LEMMA Steadfast ==
    ASSUME Grounded, NEW o \in Moves, Step(o), NEW m \in Moves, pc[m] # "idle"
    PROVE  /\ pc'[m] # "idle"
           /\ move[m] \in Plans /\ move'[m] \in Plans
           /\ move'[m].kind = move[m].kind /\ move'[m].to = move[m].to
           /\ move'[m].thing = move[m].thing /\ move'[m].content = move[m].content
           /\ Sidecars(m)' = Sidecars(m) /\ Last(m)' = Last(m)
           /\ \A i \in 1 .. Last(m), stage \in Stages : At(m, i, stage)' = At(m, i, stage)
           /\ m # o \/ pc[m] # "digest" => move'[m].digest = move[m].digest /\ Record(m)' = Record(m)
           /\ HasMoved(m) => moved'[m] = moved[m] /\ HasMoved(m)'
  <1>1. LocalTypes /\ ShapeOf(m) /\ Apart(o) /\ ShapeOf(o)' /\ pc'[o] # "idle"
      BY TypesSplit, OperationStep DEF Grounded, Shape, Step
  <1>2. /\ move'[m].kind = move[m].kind /\ move'[m].to = move[m].to
        /\ move'[m].thing = move[m].thing /\ move'[m].content = move[m].content
        /\ m # o \/ pc[m] # "digest" => move'[m].digest = move[m].digest
        /\ HasMoved(m) => moved'[m] = moved[m]
    <2>1. CASE m = o
        BY <1>1, <2>1, PlanStays
    <2>2. CASE m # o
        BY <1>1, <2>2 DEF Apart
    <2> QED
        BY <2>1, <2>2
  <1>3. pc'[m] # "idle"
      BY <1>1 DEF Apart
  <1>4. move[m] \in Plans /\ move'[m] \in Plans
      BY <1>1, <1>3 DEF ShapeOf, Apart
  <1>5. Sidecars(m)' = Sidecars(m) /\ Last(m)' = Last(m)
      BY <1>2, SameKindSameSidecars
  <1>6. \A i \in 1 .. Last(m), stage \in Stages : At(m, i, stage)' = At(m, i, stage)
      BY <1>2, <1>5 DEF At
  <1>7. m # o \/ pc[m] # "digest" => Record(m)' = Record(m)
      BY <1>2 DEF Record
  <1> QED
      BY <1>2, <1>3, <1>4, <1>5, <1>6, <1>7 DEF HasMoved

\* Two operations that meet at a destination are marked.
LEMMA MeetingIsMarked ==
    ASSUME Sharing, Grounded, NEW m \in Moves, ~shared'[m]
    PROVE  /\ ~shared[m]
           /\ \A o \in Moves : o # m /\ Active(o) /\ Active(m) => move[o].to # move[m].to
  BY DEF Sharing, Overlap, Grounded, TypeOK

-----------------------------------------------------------------------------
(* What the step of an operation spares: the sidecars of a destination     *)
(* that is not its own, and an artifact it does not carry.                 *)

Elsewhere(o, e) == Active(o) => move[o].to # Vault(e)
Spares(o, e, a) == \A c \in Changes : Carried(o, c) => c.thing # a /\ c.to # Vault(e)

SameSides(x, d, e)   == \A p \in SidesOf(e) : x[p] = d[p]
SameFile(x, d, e, a) == x[Vault(e)] = a <=> d[Vault(e)] = a

Derives(x, d, o) ==
    /\ \A e \in Dests : Elsewhere(o, e) => SameSides(x, d, e)
    /\ \A e \in Dests, a \in Artifacts : Spares(o, e, a) => SameFile(x, d, e, a)

LEMMA ItselfDerives ==
    ASSUME NEW d, NEW o \in Moves
    PROVE  Derives(d, d, o)
  BY DEF Derives, SameSides, SameFile

LEMMA RecordedSpares ==
    ASSUME NEW o \in Moves, NEW c \in Changes, Recorded(o, c), NEW d, WellFormed(d)
    PROVE  Derives(Apply(d, c), d, o)
  <1>1. PICK f \in Dests : move[o].to = Vault(f) /\ SideChange(c, f) /\ Active(o)
      BY DEF Recorded
  <1>2. /\ \A p \in FilePlaces : Apply(d, c)[p] = d[p]
        /\ \A p \in SidePlaces : p \notin SidesOf(f) => Apply(d, c)[p] = d[p]
      BY <1>1, SideChangeKeepsForm
  <1>3. \A e \in Dests : Elsewhere(o, e) => SameSides(Apply(d, c), d, e)
      BY <1>1, <1>2, PlacesDiffer DEF Elsewhere, SameSides
  <1>4. \A e \in Dests, a \in Artifacts : SameFile(Apply(d, c), d, e, a)
      BY <1>2, PlacesDiffer DEF SameFile, Vaults
  <1> QED
      BY <1>3, <1>4 DEF Derives

LEMMA CarriedSpares ==
    ASSUME NEW o \in Moves, NEW c \in Changes, Carried(o, c), NEW d, WellFormed(d)
    PROVE  Derives(Apply(d, c), d, o) /\ \A e \in Dests : SameSides(Apply(d, c), d, e)
  <1>1. FileChange(c)
      BY DEF Carried
  <1>2. /\ \A p \in SidePlaces : Apply(d, c)[p] = d[p]
        /\ \A p \in FilePlaces : p \notin {c.from, c.to} => Apply(d, c)[p] = d[p]
      BY <1>1, FileChangeKeepsForm
  <1>3. \A e \in Dests : SameSides(Apply(d, c), d, e)
      BY <1>2, PlacesDiffer DEF SameSides
  <1>4. ASSUME NEW e \in Dests, NEW a \in Artifacts, Spares(o, e, a)
        PROVE  SameFile(Apply(d, c), d, e, a)
    <2>1. c.thing # a /\ c.to # Vault(e) /\ a # None
        BY <1>4, MoveAssumption DEF Spares, Things
    <2>2. Vault(e) \in FilePlaces /\ d \in Dir
        BY PlacesDiffer DEF Vaults, WellFormed
    <2>3. CASE Vault(e) # c.from
        BY <1>2, <2>1, <2>2, <2>3 DEF SameFile
    <2>4. CASE Vault(e) = c.from
      <3>1. CASE ~Fits(d, c)
          BY <2>2, <3>1, ApplyFacts DEF SameFile
      <3>2. CASE Fits(d, c)
        <4>1. c.from # None /\ c.from # c.to
            BY <1>1, PlacesDiffer DEF FileChange
        <4>2. d[c.from] = c.thing
            BY <3>2, <4>1 DEF Fits
        <4>3. Apply(d, c)[c.from] = None
            BY <2>2, <3>2, <4>1, ApplyFacts
        <4> QED
            BY <2>1, <2>4, <4>2, <4>3 DEF SameFile
      <3> QED
          BY <3>1, <3>2
    <2> QED
        BY <2>3, <2>4
  <1> QED
      BY <1>3, <1>4 DEF Derives

\* Every state a power loss may leave after a step derives from one before it.
LEMMA StepsDerive ==
    ASSUME Directories, NEW o \in Moves, Effect(o)
    PROVE  /\ Derives(dir', dir, o)
           /\ \A x \in Survivors' : \E d \in Survivors : Derives(x, d, o)
  <1>1. CASE Untouched \/ Settled
      BY <1>1, ItselfDerives DEF Untouched, Settled, Directories
  <1>2. CASE \E c \in Changes : Recorded(o, c) \/ Carried(o, c)
    <2>1. PICK c \in Changes : Recorded(o, c) \/ Carried(o, c)
        BY <1>2
    <2>2. \A d \in Survivors : Derives(Apply(d, c), d, o)
        BY <2>1, RecordedSpares, CarriedSpares DEF Directories
    <2>3. dir' = Apply(dir, c) /\ Survivors' = Survivors \cup {Apply(d, c) : d \in Survivors}
        BY <2>1 DEF Recorded, Carried, Changed, AfterOne
    <2> QED
        BY <2>2, <2>3, ItselfDerives DEF Directories
  <1> QED
      BY <1>1, <1>2 DEF Effect

-----------------------------------------------------------------------------
(* Before the move: the sidecars written so far survive a power loss.      *)

Durable(m) ==
    CASE pc[m] \in {"write", "publish", "sync"} -> k[m] - 1
      [] pc[m] \in {"stat", "rename"} -> Last(m)
      [] OTHER -> 0

PreparingOf(m) ==
    ~shared[m] =>
        /\ \A d \in Survivors, i \in 1 .. Durable(m) : d[At(m, i, "pending")] = Record(m)
        /\ pc[m] = "publish" => dir[At(m, k[m], "tmp")] = Record(m)
        /\ pc[m] = "sync" => dir[At(m, k[m], "pending")] = Record(m)

Preparing == \A m \in Moves : PreparingOf(m)

PreparingSteps == {"write", "publish", "sync", "stat", "rename"}

LEMMA NotPreparing ==
    ASSUME NEW m \in Moves, pc[m] \notin PreparingSteps
    PROVE  PreparingOf(m)
  BY DEF PreparingOf, Durable, PreparingSteps

\* The steps of the others.
LEMMA OthersKeepPreparing ==
    ASSUME Grounded, Sharing, NEW o \in Moves, Step(o), NEW m \in Moves, m # o, PreparingOf(m)
    PROVE  PreparingOf(m)'
  <1>1. pc'[m] = pc[m] /\ k'[m] = k[m] /\ Effect(o) /\ Directories
      BY OperationStep DEF Apart, Step, Grounded
  <1>2. CASE pc[m] \notin PreparingSteps
      BY <1>1, <1>2 DEF PreparingOf, Durable, PreparingSteps
  <1>3. CASE pc[m] \in PreparingSteps
    <2>1. SUFFICES ASSUME ~shared'[m] PROVE PreparingOf(m)'
        BY DEF PreparingOf
    <2>2. ~shared[m] /\ Active(m) /\ pc[m] # "idle" /\ (Active(o) => move[o].to # move[m].to)
        BY <1>3, <2>1, MeetingIsMarked DEF Active, PreparingSteps
    <2>3. /\ Last(m)' = Last(m) /\ Record(m)' = Record(m) /\ move[m] \in Plans
          /\ \A i \in 1 .. Last(m), stage \in Stages : At(m, i, stage)' = At(m, i, stage)
        BY <2>2, Steadfast
    <2>4. ShapeOf(m) /\ Last(m) \in 0 .. 3
        BY <2>3, LastFacts DEF Grounded, Shape
    <2>5. CASE Last(m) = 0
        BY <1>1, <1>3, <2>3, <2>4, <2>5 DEF PreparingOf, Durable, PreparingSteps, ShapeOf, AtSidecar
    <2>6. CASE Last(m) # 0
      <3>1. PICK e \in Dests : move[m].to = Vault(e)
          BY <2>2, <2>3, <2>4, <2>6, SidecarNames DEF ShapeOf, Vaults
      <3>2. \A i \in 1 .. Last(m), stage \in Stages : At(m, i, stage) \in SidesOf(e)
          BY <2>3, <3>1, SidecarPlaces
      <3>3. SameSides(dir', dir, e) /\ \A x \in Survivors' : \E d \in Survivors : SameSides(x, d, e)
          BY <1>1, <2>2, <3>1, StepsDerive DEF Derives, Elsewhere
      <3>4. Durable(m)' = Durable(m) /\ Durable(m) \in 0 .. Last(m)
          BY <1>1, <1>3, <2>3, <2>4 DEF Durable, PreparingSteps, ShapeOf, AtSidecar
      <3>5. \A x \in Survivors', i \in 1 .. Durable(m) : x[At(m, i, "pending")] = Record(m)
          BY <2>2, <2>4, <3>2, <3>3, <3>4 DEF PreparingOf, SameSides, Stages
      <3>6. pc[m] = "publish" => dir'[At(m, k[m], "tmp")] = Record(m)
          BY <2>2, <2>4, <3>2, <3>3 DEF PreparingOf, SameSides, Stages, ShapeOf, AtSidecar
      <3>7. pc[m] = "sync" => dir'[At(m, k[m], "pending")] = Record(m)
          BY <2>2, <2>4, <3>2, <3>3 DEF PreparingOf, SameSides, Stages, ShapeOf, AtSidecar
      <3>8. /\ \A i \in 1 .. Durable(m) : At(m, i, "pending")' = At(m, i, "pending")
            /\ pc[m] \in AtSidecar =>
                  /\ At(m, k[m], "tmp")' = At(m, k[m], "tmp")
                  /\ At(m, k[m], "pending")' = At(m, k[m], "pending")
          BY <1>1, <2>3, <2>4, <3>4 DEF Stages, ShapeOf
      <3>9. (\A d \in Survivors, i \in 1 .. Durable(m) : d[At(m, i, "pending")] = Record(m))'
          BY <2>3, <3>4, <3>5, <3>8
      <3>10. (pc[m] = "publish" => dir[At(m, k[m], "tmp")] = Record(m))'
          BY <1>1, <2>3, <3>6, <3>8 DEF AtSidecar
      <3>11. (pc[m] = "sync" => dir[At(m, k[m], "pending")] = Record(m))'
          BY <1>1, <2>3, <3>7, <3>8 DEF AtSidecar
      <3> QED
          BY <3>9, <3>10, <3>11, Zenon DEF PreparingOf
    <2> QED
        BY <2>5, <2>6
  <1> QED
      BY <1>2, <1>3

\* A change leaves every other name alone, and is there before a power loss.
LEMMA OneChange ==
    ASSUME Grounded, NEW from \in Places \cup {None}, NEW to \in Places \cup {None}, from # to,
           NEW thing \in Things, Change(from, to, thing)
    PROVE  /\ \A p \in Places \ {from, to} : dir'[p] = dir[p]
           /\ \A x \in Survivors' : x \in Survivors \/ \E d \in Survivors :
                 /\ \A p \in Places \ {from, to} : x[p] = d[p]
                 /\ x = Apply(d, Made(from, to, thing))
           /\ to # None /\ (from # None => dir[from] = thing) => dir'[to] = thing
           /\ from # None /\ dir[from] = thing => dir'[from] = None
           /\ from # None => dir'[from] \in {dir[from], None}
  <1> DEFINE c == Made(from, to, thing)
  <1>1. Changed(c)
      BY ChangeIsKept, TypesSplit DEF Grounded
  <1>2. c \in Changes /\ dir' = Apply(dir, c)
        /\ Survivors' = Survivors \cup {Apply(d, c) : d \in Survivors}
      BY <1>1 DEF Changed, AfterOne
  <1>3. c.from = from /\ c.to = to /\ c.thing = thing /\ (to # None => c.over = dir[to])
      BY DEF Made
  <1> HIDE DEF c
  <1>4. \A d \in Survivors : d \in Dir
      BY DEF Grounded, Directories, WellFormed
  <1>5. dir \in Survivors /\ dir \in Dir
      BY <1>4 DEF Grounded, Directories
  <1>6. \A d \in Survivors, p \in Places \ {from, to} : Apply(d, c)[p] = d[p]
      BY <1>2, <1>3, <1>4, ApplyFacts
  <1>7. (from # None => dir[from] = thing) => Fits(dir, c)
      BY <1>3 DEF Fits
  <1>8. /\ to # None /\ Fits(dir, c) => dir'[to] = thing
        /\ from # None /\ Fits(dir, c) => dir'[from] = None
        /\ from # None => dir'[from] \in {dir[from], None}
      BY <1>2, <1>3, <1>5, ApplyFacts
  <1>9. \A x \in Survivors' : x \in Survivors \/ \E d \in Survivors :
            (\A p \in Places \ {from, to} : x[p] = d[p]) /\ x = Apply(d, c)
      BY <1>2, <1>6
  <1> QED
      BY <1>2, <1>5, <1>6, <1>7, <1>8, <1>9 DEF c

LEMMA OperationPlaces ==
    ASSUME Grounded, NEW m \in Moves, pc[m] # "idle", Last(m) # 0
    PROVE  /\ move[m] \in Plans /\ Last(m) \in 1 .. 3
           /\ \E e \in Dests :
                 /\ move[m].to = Vault(e)
                 /\ \A i \in 1 .. Last(m), stage \in Stages :
                       At(m, i, stage) \in SidesOf(e) /\ At(m, i, stage) \in SidePlaces
           /\ \A i \in 1 .. Last(m), stage \in Stages :
                 At(m, i, stage) \in Places /\ At(m, i, stage) # None
           /\ \A i, j \in 1 .. Last(m), s, t \in Stages :
                 i # j \/ s # t => At(m, i, s) # At(m, j, t)
  <1>1. ShapeOf(m) /\ move[m] \in Plans
      BY DEF Grounded, Shape, ShapeOf
  <1>2. PICK e \in Dests : move[m].to = Vault(e)
      BY <1>1, SidecarNames DEF ShapeOf, Vaults
  <1> QED
      BY <1>1, <1>2, SidecarNames, SidecarPlaces, PlacesDiffer

\* The steps of the operation itself.
LEMMA OwnPreparing ==
    ASSUME Grounded, Sharing, NEW m \in Moves, Step(m), PreparingOf(m)
    PROVE  PreparingOf(m)'
  <1>1. SUFFICES ASSUME ~shared'[m], pc'[m] \in PreparingSteps
                 PROVE  PreparingOf(m)'
      BY DEF PreparingOf, Durable, PreparingSteps
  <1>2. ~shared[m] /\ LocalTypes /\ ShapeOf(m) /\ dir \in Survivors
      BY <1>1, MeetingIsMarked, TypesSplit DEF Grounded, Shape, Directories
  <1>3. ~(Seal(m) \/ Revalidate(m) \/ Open(m) \/ ReadDigest(m) \/ Undo(m) \/ Rename(m)
            \/ Finalize(m) \/ SyncFinal(m) \/ Kill(m))
      BY <1>1, <1>2 DEF Seal, Begin, Revalidate, Open, ReadDigest, Undo, Rename, Finalize, SyncFinal,
         Kill, UndoFrom, NextFinal, Goto, GotoAt, Finish, LocalTypes, PreparingSteps
  <1>4. /\ pc[m] \notin {"idle", "digest"}
        /\ Recheck(m) \/ WriteSidecar(m) \/ PublishSidecar(m) \/ SyncSidecar(m) \/ Stat(m)
      BY <1>3 DEF Step, Operation, Recheck, WriteSidecar, PublishSidecar, SyncSidecar, Stat
  <1>5. /\ Last(m)' = Last(m) /\ Record(m)' = Record(m) /\ move[m] \in Plans
        /\ \A i \in 1 .. Last(m), stage \in Stages : At(m, i, stage)' = At(m, i, stage)
        /\ Last(m) \in 0 .. 3 /\ Len(Sidecars(m)) = Last(m)
        /\ Sidecars(m) = << >> <=> Last(m) = 0
      BY <1>4, Steadfast, LastFacts
  <1>6. CASE Recheck(m)
    <2>1. pc'[m] \in {"write", "stat"} /\ (pc'[m] = "stat" => Last(m) = 0) /\ k'[m] = 1
      <3>1. pc[m] = "recheck" /\ k[m] = 1
          BY <1>2, <1>6 DEF Recheck, ShapeOf, Early
      <3>2. Goto(m, IF Last(m) = 0 THEN "stat" ELSE "write") \/ Finish(m, "failed")
          BY <1>5, <1>6 DEF Recheck
      <3> QED
          BY <1>1, <1>2, <3>1, <3>2 DEF Goto, Finish, LocalTypes, PreparingSteps
    <2>2. Durable(m)' = 0
        BY <1>5, <2>1 DEF Durable
    <2> QED
        BY <2>1, <2>2 DEF PreparingOf
  <1>7. CASE Stat(m)
    <2>1. pc[m] = "stat" /\ pc'[m] = "rename" /\ UNCHANGED fsVars
        BY <1>1, <1>2, <1>7 DEF Stat, Goto, UndoFrom, GotoAt, Finish, LocalTypes, PreparingSteps
    <2>2. Survivors' = Survivors /\ Durable(m)' = Last(m) /\ Durable(m) = Last(m)
        BY <1>5, <2>1, NothingChanged DEF Durable
    <2> QED
        BY <1>2, <1>5, <2>1, <2>2 DEF PreparingOf, Stages
  <1>8. CASE WriteSidecar(m) \/ PublishSidecar(m) \/ SyncSidecar(m)
    <2>1. k[m] \in 1 .. Last(m) /\ Last(m) # 0 /\ pc[m] \in {"write", "publish", "sync"}
        BY <1>2, <1>5, <1>8 DEF WriteSidecar, PublishSidecar, SyncSidecar, ShapeOf, AtSidecar
    <2>2. /\ \A i \in 1 .. Last(m), stage \in Stages :
                At(m, i, stage) \in Places /\ At(m, i, stage) # None
          /\ \A i, j \in 1 .. Last(m), s, t \in Stages :
                i # j \/ s # t => At(m, i, s) # At(m, j, t)
        BY <1>4, <2>1, OperationPlaces
    <2>3. /\ k[m] \in Nat /\ Last(m) \in Nat
          /\ \A i \in 1 .. k[m] : i \in 1 .. Last(m)
          /\ \A i \in 1 .. k[m] - 1 : i \in 1 .. Last(m) /\ i # k[m]
        BY <1>5, <2>1
    <2>4. Record(m) \in Things
        BY <1>5, RecordIsARecord DEF Things
    <2>5. \A d \in Survivors, i \in 1 .. k[m] - 1 : d[At(m, i, "pending")] = Record(m)
        BY <1>2, <2>1 DEF PreparingOf, Durable
    <2> DEFINE tmp     == At(m, k[m], "tmp")
               pending == At(m, k[m], "pending")
    <2>6. /\ tmp \in Places /\ pending \in Places /\ tmp # None /\ pending # None /\ tmp # pending
          /\ \A i \in 1 .. k[m] - 1 :
                At(m, i, "pending") \in Places \ {tmp, pending, None}
        BY <2>1, <2>2, <2>3 DEF Stages
    <2>7. k'[m] = k[m] => At(m, k[m], "tmp")' = tmp /\ At(m, k[m], "pending")' = pending
        BY <1>5, <2>1 DEF Stages
    <2>8. \A i \in 1 .. Last(m) : At(m, i, "pending")' = At(m, i, "pending")
        BY <1>5 DEF Stages
    <2> HIDE DEF tmp, pending
    <2>9. CASE WriteSidecar(m)
      <3>1. Change(None, tmp, Record(m)) /\ pc'[m] = "publish" /\ k'[m] = k[m]
          BY <1>1, <1>2, <2>9
          DEF WriteSidecar, UndoFrom, Goto, GotoAt, Finish, LocalTypes, PreparingSteps, tmp
      <3>2. /\ dir'[tmp] = Record(m)
            /\ \A x \in Survivors' : x \in Survivors \/ \E d \in Survivors :
                  \A p \in Places \ {None, tmp} : x[p] = d[p]
          BY <2>4, <2>6, <3>1, OneChange
      <3>3. \A x \in Survivors', i \in 1 .. k[m] - 1 : x[At(m, i, "pending")] = Record(m)
          BY <2>5, <2>6, <3>2
      <3>4. Durable(m)' = k[m] - 1
          BY <3>1 DEF Durable
      <3>5. (\A d \in Survivors, i \in 1 .. Durable(m) : d[At(m, i, "pending")] = Record(m))'
          BY <1>5, <2>8, <2>3, <3>3, <3>4
      <3> QED
          BY <1>5, <2>7, <3>1, <3>2, <3>5 DEF PreparingOf
    <2>10. CASE PublishSidecar(m)
      <3>1. /\ Change(tmp, pending, Record(m)) /\ pc'[m] = "sync" /\ k'[m] = k[m]
            /\ pc[m] = "publish"
          BY <1>1, <1>2, <2>10
          DEF PublishSidecar, UndoFrom, Goto, GotoAt, Finish, LocalTypes, PreparingSteps, tmp, pending
      <3>2. dir[tmp] = Record(m)
          BY <1>2, <3>1 DEF PreparingOf, tmp
      <3>3. /\ dir'[pending] = Record(m)
            /\ \A x \in Survivors' : x \in Survivors \/ \E d \in Survivors :
                  \A p \in Places \ {tmp, pending} : x[p] = d[p]
          BY <2>4, <2>6, <3>1, <3>2, OneChange
      <3>4. \A x \in Survivors', i \in 1 .. k[m] - 1 : x[At(m, i, "pending")] = Record(m)
          BY <2>5, <2>6, <3>3
      <3>5. Durable(m)' = k[m] - 1
          BY <3>1 DEF Durable
      <3>6. (\A d \in Survivors, i \in 1 .. Durable(m) : d[At(m, i, "pending")] = Record(m))'
          BY <1>5, <2>8, <2>3, <3>4, <3>5
      <3> QED
          BY <1>5, <2>7, <3>1, <3>3, <3>6 DEF PreparingOf
    <2>11. CASE SyncSidecar(m)
      <3>1. /\ Sync /\ NextSidecar(m) /\ pc[m] = "sync"
          BY <1>1, <1>2, <2>11
          DEF SyncSidecar, UndoFrom, Goto, GotoAt, Finish, LocalTypes, PreparingSteps
      <3>2. \/ pc'[m] = "write" /\ k'[m] = k[m] + 1
            \/ pc'[m] = "stat" /\ Last(m) = k[m]
        <4>1. IF k[m] < Last(m) THEN GotoAt(m, "write", k[m] + 1) ELSE Goto(m, "stat")
            BY <1>5, <3>1 DEF NextSidecar
        <4>2. k[m] < Last(m) \/ k[m] = Last(m)
            BY <2>1, <2>3
        <4> QED
            BY <1>2, <4>1, <4>2 DEF Goto, GotoAt, LocalTypes
      <3>3. Survivors' = {dir}
          BY <3>1, SyncKeepsOne, TypesSplit DEF Grounded
      <3>4. dir[pending] = Record(m)
          BY <1>2, <3>1 DEF PreparingOf, pending
      <3>5. \A x \in Survivors', i \in 1 .. k[m] : x[At(m, i, "pending")] = Record(m)
          BY <1>2, <2>1, <2>5, <3>3, <3>4 DEF pending
      <3>6. Durable(m)' = k[m]
          BY <1>5, <2>1, <3>2 DEF Durable
      <3>7. (\A d \in Survivors, i \in 1 .. Durable(m) : d[At(m, i, "pending")] = Record(m))'
          BY <1>5, <2>8, <2>3, <3>5, <3>6
      <3> QED
          BY <3>2, <3>7 DEF PreparingOf
    <2> QED
        BY <1>8, <2>9, <2>10, <2>11
  <1> QED
      BY <1>4, <1>6, <1>7, <1>8

-----------------------------------------------------------------------------
(* After the move.                                                         *)

Mine(m) == HasRecords(m) /\ HasMoved(m) /\ Latest(m)
Gone(m) == \A d \in Survivors : d[move[m].to] # moved[m]

\* An artifact that was moved is at its destination until some other operation
\* may take it from there, and a name is free only where the artifact is gone.
ArrivedOf(m) ==
    Mine(m) =>
        /\ dir[move[m].to] = moved[m] \/ Gone(m)
        /\ ~shared[m] /\ pc[m] = "done" =>
            \A o \in Moves : o # m /\ Active(o) /\ move[o].to = move[m].to => Gone(m)

FirstPending(m) == IF pc[m] = "syncfinal" THEN k[m] + 1 ELSE k[m]

\* While it is finalized: the sidecars to come are pending, those behind are
\* final unless an error was met.
FinalizingOf(m) ==
    Mine(m) /\ ~shared[m] /\ pc[m] \in {"finalize", "syncfinal"} =>
        /\ dir[move[m].to] = moved[m]
        /\ \A d \in Survivors : d[move[m].to] = moved[m] =>
              \A i \in FirstPending(m) .. Last(m) : d[At(m, i, "pending")] = Record(m)
        /\ pc[m] = "syncfinal" => dir[At(m, k[m], "final")] = Record(m)
        /\ move[m].error = FALSE => \A d \in Survivors :
              k[m] > 1 => d[move[m].to] = moved[m]
                          /\ \A j \in 1 .. k[m] - 1 : d[At(m, j, "final")] = Record(m)

\* A final name is there because an artifact was moved to its destination.
Finals ==
    \A d \in Survivors, e \in Dests, s \in Suffixes :
        d[Side(e, s, "final")] # None =>
            \E n \in Moves : HasMoved(n) /\ move[n].to = Vault(e)

FinalNamesOf(m) ==
    Mine(m) /\ ~shared[m] =>
        \A d \in Survivors, i \in 1 .. Last(m) : d[At(m, i, "final")] \in {None, Record(m)}

\* RecordsSurvive and SuccessIsDurable, of one operation.
RecordedOf(m) ==
    Mine(m) /\ ~shared[m] => \A d \in Survivors : d[move[m].to] = moved[m] =>
        \A i \in 1 .. Last(m) : Record(m) \in {d[At(m, i, "pending")], d[At(m, i, "final")]}

DurableOf(m) ==
    result[m] = "succeeded" /\ HasRecords(m) /\ ~shared[m] /\ Latest(m) =>
        \A d \in Survivors :
            /\ d[move[m].to] = moved[m]
            /\ \A i \in 1 .. Last(m) : d[At(m, i, "final")] = Record(m)

DeliveredOf(m) ==
    /\ ArrivedOf(m) /\ FinalizingOf(m) /\ FinalNamesOf(m) /\ RecordedOf(m) /\ DurableOf(m)

Delivered == Finals /\ \A m \in Moves : DeliveredOf(m)

\* What moves is moved once: the move of a step is its own operation's.
LEMMA MovedOnce ==
    ASSUME Grounded, NEW o \in Moves, Step(o), NEW m \in Moves, HasMoved(m)', ~HasMoved(m)
    PROVE  /\ m = o /\ Rename(m) /\ pc[m] = "rename" /\ move' = move
           /\ \E c \in Changes :
                 /\ Carried(m, c) /\ moved'[m] = c.thing
                 /\ dir' = Apply(dir, c) /\ Survivors' = Survivors \cup {Apply(d, c) : d \in Survivors}
  <1>1. Effect(o) /\ Apart(o) /\ LocalTypes
      BY OperationStep, TypesSplit DEF Step, Grounded
  <1>2. m = o
      BY <1>1 DEF Apart, HasMoved
  <1>3. PICK c \in Changes : Carried(m, c)
      BY <1>1, <1>2 DEF Effect, HasMoved
  <1>4. pc[m] = "rename" /\ Rename(m)
      BY <1>2, <1>3 DEF Carried, Step, Operation, Kill, Seal, Begin, Revalidate, Open, ReadDigest,
         Recheck, WriteSidecar, PublishSidecar, SyncSidecar, Undo, Stat, Finalize, SyncFinal, HasMoved
  <1>5. move' = move
      BY <1>4 DEF Rename
  <1>6. moved'[m] = c.thing
      BY <1>1, <1>3 DEF Carried, LocalTypes
  <1> QED
      BY <1>2, <1>3, <1>4, <1>5, <1>6 DEF Carried, Changed, AfterOne

\* An operation that is the latest after a step was the latest before it, and
\* the step spares its artifact.
LEMMA StillMine ==
    ASSUME Grounded, NEW o \in Moves, Step(o), NEW m \in Moves,
           HasMoved(m), HasRecords(m)', Latest(m)'
    PROVE  /\ Mine(m) /\ pc[m] \in {"finalize", "syncfinal", "done"}
           /\ moved'[m] = moved[m] /\ moved[m] \in Artifacts
           /\ move'[m].to = move[m].to /\ Record(m)' = Record(m)
           /\ Last(m)' = Last(m) /\ Last(m) \in 1 .. 3
           /\ \A i \in 1 .. Last(m), stage \in Stages : At(m, i, stage)' = At(m, i, stage)
           /\ \A n \in Moves : n # m /\ HasMoved(n) => move[n].to # move[m].to
           /\ \E e \in Dests : move[m].to = Vault(e) /\ Spares(o, e, moved[m])
  <1>1. LocalTypes /\ ShapeOf(m) /\ Effect(o) /\ Apart(o)
      BY OperationStep, TypesSplit DEF Step, Grounded, Shape
  <1>2. pc[m] \in {"finalize", "syncfinal", "done"}
      BY <1>1 DEF ShapeOf, LocalTypes
  <1>3. \A n \in Moves : HasMoved(n) =>
            /\ pc[n] # "idle" /\ HasMoved(n)' /\ moved'[n] = moved[n] /\ move'[n].to = move[n].to
    <2> TAKE n \in Moves
    <2>1. HasMoved(n) => pc[n] # "idle"
        BY <1>1 DEF Grounded, Shape, ShapeOf, LocalTypes, Steps
    <2> QED
        BY <2>1, Steadfast
  <1>4. /\ move[m] \in Plans /\ move'[m].kind = move[m].kind
        /\ Record(m)' = Record(m) /\ Last(m)' = Last(m)
        /\ \A i \in 1 .. Last(m), stage \in Stages : At(m, i, stage)' = At(m, i, stage)
      BY <1>2, Steadfast
  <1>5. \A n \in Moves : n # m /\ HasMoved(n) => moved[n] # moved[m] /\ move[n].to # move[m].to
      BY <1>3 DEF Latest
  <1>6. HasRecords(m) /\ Last(m) \in 1 .. 3
    <2>1. move[m].kind # "restore"
        BY <1>4 DEF HasRecords
    <2>2. Last(m) \in 1 .. 3
        BY <1>4, <2>1, SidecarNames
    <2> QED
        BY <1>2, <2>1, <2>2 DEF HasRecords
  <1>7. PICK e \in Dests : move[m].to = Vault(e)
      BY <1>1, <1>2, <1>4, <1>6 DEF ShapeOf, HasRecords, Vaults
  <1>8. moved[m] \in Artifacts
      BY <1>1 DEF LocalTypes, HasMoved
  <1>9. Spares(o, e, moved[m])
    <2>1. SUFFICES ASSUME NEW c \in Changes, Carried(o, c)
                   PROVE  c.thing # moved[m] /\ c.to # Vault(e)
        BY DEF Spares
    <2>2. o # m /\ pc[o] # "idle"
        BY <1>2, <2>1 DEF Carried
    <2>3. moved'[o] = c.thing /\ c.thing \in Artifacts /\ c.to = move[o].to
        BY <1>1, <2>1 DEF Carried, FileChange, LocalTypes
    <2>4. HasMoved(o)' /\ move'[o].to = move[o].to
        BY <2>2, <2>3, Steadfast, MoveAssumption DEF HasMoved, Things
    <2>5. moved'[o] # moved'[m] /\ move'[o].to # move'[m].to
        BY <2>2, <2>4 DEF Latest
    <2> QED
        BY <1>3, <1>7, <2>3, <2>4, <2>5
  <1>10. Mine(m)
      BY <1>5, <1>6 DEF Mine, Latest
  <1> QED
      BY <1>2, <1>3, <1>4, <1>5, <1>6, <1>7, <1>8, <1>9, <1>10

-----------------------------------------------------------------------------
(* An artifact stays where it was moved.                                   *)

LEMMA VaultIsAPlace ==
    ASSUME NEW e \in Dests
    PROVE  Vault(e) \in FilePlaces /\ Vault(e) \in Places
  BY PlacesDiffer DEF Vaults

LEMMA ArrivedKept ==
    ASSUME Grounded, Sharing, NEW o \in Moves, Step(o), NEW m \in Moves, ArrivedOf(m)
    PROVE  ArrivedOf(m)'
  <1>1. SUFFICES ASSUME Mine(m)' PROVE ArrivedOf(m)'
      BY DEF ArrivedOf
  <1>2. HasMoved(m)' /\ HasRecords(m)' /\ Latest(m)'
      BY <1>1 DEF Mine
  <1>3. /\ Directories /\ LocalTypes /\ Effect(o) /\ Apart(o) /\ pc'[o] # "idle"
        /\ dir \in Survivors
      BY OperationStep, TypesSplit DEF Grounded, Step, Directories
  <1>4. CASE ~HasMoved(m)
    <2>1. /\ m = o /\ Rename(m) /\ pc[m] = "rename" /\ move' = move
          /\ \E c \in Changes :
                Carried(m, c) /\ moved'[m] = c.thing /\ dir' = Apply(dir, c)
        BY <1>2, <1>4, MovedOnce
    <2>2. PICK c \in Changes : Carried(m, c) /\ moved'[m] = c.thing /\ dir' = Apply(dir, c)
        BY <2>1
    <2>3. FileChange(c) /\ c.to = move[m].to
        BY <2>2 DEF Carried
    <2>4. Fits(dir, c) /\ c.to # None /\ c.from # c.to
        BY <2>3, PlacesDiffer DEF FileChange, Fits
    <2>5. dir'[c.to] = c.thing
        BY <1>3, <2>2, <2>4, ApplyFacts DEF Directories, WellFormed
    <2>6. dir'[move'[m].to] = moved'[m]
        BY <2>1, <2>2, <2>3, <2>5
    <2>7. pc'[m] # "done"
      <3>1. Last(m) # 0 /\ Len(Sidecars(m)) = Last(m)
        <4>1. move[m] \in Plans /\ move[m].kind # "restore"
            BY <1>2, <2>1 DEF HasRecords, Grounded, Shape, ShapeOf
        <4> QED
            BY <4>1, SidecarNames, LastFacts
      <3>2. moved' # moved
          BY <1>2, <1>4 DEF HasMoved
      <3>3. Sidecars(m) # << >> /\ GotoAt(m, "finalize", 1)
        <4>1. Sidecars(m) # << >>
            BY <3>1
        <4> QED
            BY <2>1, <3>2, <4>1 DEF Rename
      <3> QED
          BY <1>3, <3>3 DEF GotoAt, LocalTypes
    <2> QED
        BY <2>6, <2>7 DEF ArrivedOf
  <1>5. CASE HasMoved(m)
    <2>1. /\ Mine(m) /\ pc[m] \in {"finalize", "syncfinal", "done"}
          /\ moved'[m] = moved[m] /\ moved[m] \in Artifacts /\ move'[m].to = move[m].to
          /\ \E e \in Dests : move[m].to = Vault(e) /\ Spares(o, e, moved[m])
        BY <1>2, <1>5, StillMine
    <2>2. PICK e \in Dests : move[m].to = Vault(e) /\ Spares(o, e, moved[m])
        BY <2>1
    <2>3. /\ dir'[Vault(e)] = moved[m] <=> dir[Vault(e)] = moved[m]
          /\ \A x \in Survivors' : \E d \in Survivors :
                x[Vault(e)] = moved[m] <=> d[Vault(e)] = moved[m]
        BY <1>3, <2>1, <2>2, StepsDerive DEF Derives, SameFile
    <2>4. Gone(m) => Gone(m)'
        BY <2>1, <2>2, <2>3 DEF Gone
    <2>5. (dir[move[m].to] = moved[m] \/ Gone(m))'
        BY <2>1, <2>2, <2>3, <2>4 DEF ArrivedOf
    <2>6. ASSUME ~shared'[m], pc'[m] = "done", NEW n \in Moves, n # m, Active(n)',
                 move'[n].to = move'[m].to
          PROVE  Gone(m)'
      <3>1. ~shared[m] /\ \A p \in Moves : p # m /\ Active(p) /\ Active(m) => move[p].to # move[m].to
          BY <2>6, MeetingIsMarked
      <3>2. CASE Active(n)
        <4>1. move[n].to = move[m].to
            BY <2>1, <2>6, <3>2, Steadfast DEF Active
        <4>2. pc[m] = "done"
            BY <2>1, <2>6, <3>1, <3>2, <4>1 DEF Active
        <4> QED
            BY <2>1, <2>4, <2>6, <3>1, <3>2, <4>1, <4>2 DEF ArrivedOf
      <3>3. CASE ~Active(n)
        <4>1. n = o /\ pc[o] = "idle"
          <5>1. n = o
              BY <1>3, <2>6, <3>3 DEF Apart, Active
          <5>2. pc[o] # "done"
              BY DEF Step, Operation, Kill, Active, Seal, Begin, Revalidate, Open, ReadDigest, Recheck,
                 WriteSidecar, PublishSidecar, SyncSidecar, Undo, Stat, Rename, Finalize, SyncFinal
          <5> QED
              BY <3>3, <5>1, <5>2 DEF Active
        <4>2. Seal(o)
            BY <4>1 DEF Step, Operation, Kill, Active, Revalidate, Open, ReadDigest, Recheck,
               WriteSidecar, PublishSidecar, SyncSidecar, Undo, Stat, Rename, Finalize, SyncFinal
        <4>3. PICK kind \in Kinds, from \in FilePlaces, to \in FilePlaces : Begin(o, kind, from, to)
            BY <4>2 DEF Seal, Kinds, FilePlaces
        <4>4. dir[to] = None /\ move'[o].to = to
            BY <1>3, <4>3 DEF Begin, LocalTypes
        <4>5. Gone(m)
            BY <2>1, <2>6, <4>1, <4>4, MoveAssumption DEF ArrivedOf, Things
        <4> QED
            BY <2>4, <4>5
      <3> QED
          BY <3>2, <3>3
    <2> QED
        BY <2>5, <2>6 DEF ArrivedOf
  <1> QED
      BY <1>4, <1>5

-----------------------------------------------------------------------------
(* Final names.                                                            *)

\* Only an operation that moved an artifact there makes a final name.
LEMMA FinalsFade ==
    ASSUME Grounded, NEW o \in Moves, Effect(o), NEW e \in Dests, NEW s \in Suffixes,
           ~(HasMoved(o) /\ move[o].to = Vault(e))
    PROVE  \A x \in Survivors' : \E d \in Survivors :
               x[Side(e, s, "final")] \in {d[Side(e, s, "final")], None}
  <1> DEFINE f == Side(e, s, "final")
  <1>1. f \in SidesOf(e) /\ f \in SidePlaces /\ f \in Places /\ f # None
      BY PlacesDiffer DEF SidesOf, Stages
  <1>2. Directories /\ \A d \in Survivors : d \in Dir
      BY DEF Grounded, Directories, WellFormed
  <1>3. CASE Untouched \/ Settled
      BY <1>2, <1>3 DEF Untouched, Settled, Directories
  <1>4. CASE \E c \in Changes : Recorded(o, c) \/ Carried(o, c)
    <2>1. PICK c \in Changes : Recorded(o, c) \/ Carried(o, c)
        BY <1>4
    <2>2. Survivors' = Survivors \cup {Apply(d, c) : d \in Survivors}
        BY <2>1 DEF Recorded, Carried, Changed, AfterOne
    <2>3. c.to # f
      <3>1. CASE Recorded(o, c)
        <4>1. PICK g \in Dests : /\ move[o].to = Vault(g) /\ SideChange(c, g)
                                 /\ (\E t \in Suffixes : c.to = Side(g, t, "final")) => HasMoved(o)
            BY <3>1 DEF Recorded
        <4>2. CASE g = e
            BY <4>1, <4>2
        <4>3. CASE g # e
            BY <1>1, <4>1, <4>3, PlacesDiffer DEF SideChange
        <4> QED
            BY <4>2, <4>3
      <3>2. CASE Carried(o, c)
          BY <1>1, <3>2, PlacesDiffer DEF Carried, FileChange
      <3> QED
          BY <2>1, <3>1, <3>2
    <2>4. \A d \in Survivors : Apply(d, c)[f] \in {d[f], None}
      <3>1. CASE c.from = f
          BY <1>1, <1>2, <2>3, <3>1, ApplyFacts
      <3>2. CASE c.from # f
          BY <1>1, <1>2, <2>3, <3>2, ApplyFacts
      <3> QED
          BY <3>1, <3>2
    <2> HIDE DEF f
    <2>5. ASSUME NEW x \in Survivors'
          PROVE  \E d \in Survivors : x[f] \in {d[f], None}
        BY <2>2, <2>4, <2>5
    <2> QED
        BY <2>5 DEF f
  <1> QED
      BY <1>3, <1>4 DEF Effect

LEMMA FinalsKept ==
    ASSUME Grounded, NEW o \in Moves, Step(o), Finals
    PROVE  Finals'
  <1>1. Effect(o)
      BY OperationStep DEF Step
  <1>2. \A n \in Moves : HasMoved(n) => HasMoved(n)' /\ move'[n].to = move[n].to
    <2>1. \A n \in Moves : HasMoved(n) => pc[n] # "idle"
        BY DEF Grounded, Shape, ShapeOf, Steps
    <2> QED
        BY <2>1, Steadfast
  <1>3. SUFFICES ASSUME NEW x \in Survivors', NEW e \in Dests, NEW s \in Suffixes,
                        x[Side(e, s, "final")] # None
                 PROVE  \E n \in Moves : HasMoved(n)' /\ move'[n].to = Vault(e)
      BY DEF Finals
  <1>4. CASE HasMoved(o) /\ move[o].to = Vault(e)
      BY <1>2, <1>4
  <1>5. CASE ~(HasMoved(o) /\ move[o].to = Vault(e))
    <2>1. PICK d \in Survivors : x[Side(e, s, "final")] \in {d[Side(e, s, "final")], None}
        BY <1>1, <1>3, <1>5, FinalsFade
    <2>2. PICK n \in Moves : HasMoved(n) /\ move[n].to = Vault(e)
        BY <1>3, <2>1 DEF Finals
    <2> QED
        BY <1>2, <2>2
  <1> QED
      BY <1>4, <1>5

LEMMA FinalPlace ==
    ASSUME Grounded, NEW m \in Moves, pc[m] # "idle", NEW e \in Dests, move[m].to = Vault(e),
           NEW i \in 1 .. Last(m)
    PROVE  Sidecars(m)[i] \in Suffixes /\ At(m, i, "final") = Side(e, Sidecars(m)[i], "final")
  BY SidecarNames, PlacesDiffer DEF Grounded, Shape, ShapeOf, At

-----------------------------------------------------------------------------
(* The steps of the others.                                                *)

\* Whoever works at the destination of an operation in progress marks it, and
\* after its end finds the artifact gone.
LEMMA OthersAreElsewhere ==
    ASSUME Grounded, Sharing, NEW o \in Moves, Step(o), NEW m \in Moves, m # o,
           ArrivedOf(m), Mine(m), ~shared'[m], NEW e \in Dests, move[m].to = Vault(e),
           pc[m] \in {"finalize", "syncfinal", "done"}
    PROVE  Elsewhere(o, e) \/ (pc[m] = "done" /\ Gone(m))
  <1>1. ~shared[m] /\ (Active(o) /\ Active(m) => move[o].to # move[m].to)
      BY MeetingIsMarked
  <1>2. CASE pc[m] = "done"
      BY <1>1, <1>2 DEF ArrivedOf, Elsewhere
  <1>3. CASE pc[m] # "done"
      BY <1>1, <1>3 DEF Elsewhere, Active
  <1> QED
      BY <1>2, <1>3

LEMMA OthersKeepDelivery ==
    ASSUME Grounded, Sharing, NEW o \in Moves, Step(o), NEW m \in Moves, m # o, DeliveredOf(m)
    PROVE  DeliveredOf(m)'
  <1>1. /\ pc'[m] = pc[m] /\ k'[m] = k[m] /\ result'[m] = result[m] /\ move'[m] = move[m]
        /\ moved'[m] = moved[m] /\ Effect(o) /\ Directories /\ ShapeOf(m)
      BY OperationStep DEF Apart, Step, Grounded, Shape
  <1>2. ArrivedOf(m)'
      BY ArrivedKept DEF DeliveredOf
  <1>3. SUFFICES ASSUME HasMoved(m), HasRecords(m)', Latest(m)', ~shared'[m]
                 PROVE  DeliveredOf(m)'
    <2>1. HasMoved(m)' <=> HasMoved(m)
        BY <1>1 DEF HasMoved
    <2>2. result[m] = "succeeded" => HasMoved(m)
        BY <1>1 DEF ShapeOf
    <2> QED
        BY <1>1, <1>2, <2>1, <2>2
        DEF DeliveredOf, FinalizingOf, FinalNamesOf, RecordedOf, DurableOf, Mine
  <1>4. /\ Mine(m) /\ pc[m] \in {"finalize", "syncfinal", "done"} /\ moved[m] \in Artifacts
        /\ Record(m)' = Record(m) /\ Last(m)' = Last(m) /\ Last(m) \in 1 .. 3
        /\ \A i \in 1 .. Last(m), stage \in Stages : At(m, i, stage)' = At(m, i, stage)
        /\ \A n \in Moves : n # m /\ HasMoved(n) => move[n].to # move[m].to
        /\ \E e \in Dests : move[m].to = Vault(e) /\ Spares(o, e, moved[m])
      BY <1>3, StillMine
  <1>5. PICK e \in Dests : move[m].to = Vault(e) /\ Spares(o, e, moved[m])
      BY <1>4
  <1>6. ~shared[m]
      BY <1>3, MeetingIsMarked
  <1>7. \A i \in 1 .. Last(m), stage \in Stages : At(m, i, stage) \in SidesOf(e)
      BY <1>4, <1>5, OperationPlaces, SidecarPlaces DEF Grounded
  <1>8. /\ dir'[Vault(e)] = moved[m] <=> dir[Vault(e)] = moved[m]
        /\ \A x \in Survivors' : \E d \in Survivors :
              x[Vault(e)] = moved[m] <=> d[Vault(e)] = moved[m]
      BY <1>1, <1>4, <1>5, StepsDerive DEF Derives, SameFile
  <1>9. Elsewhere(o, e) =>
            /\ SameSides(dir', dir, e)
            /\ \A x \in Survivors' : \E d \in Survivors :
                  SameSides(x, d, e) /\ (x[Vault(e)] = moved[m] <=> d[Vault(e)] = moved[m])
      BY <1>1, <1>4, <1>5, StepsDerive DEF Derives, SameFile
  <1>10. Elsewhere(o, e) \/ (pc[m] = "done" /\ Gone(m))
      BY <1>3, <1>4, <1>5, OthersAreElsewhere DEF DeliveredOf
  <1>11. FinalNamesOf(m)'
    <2>1. SUFFICES ASSUME NEW x \in Survivors', NEW i \in 1 .. Last(m)
                   PROVE  x[At(m, i, "final")] \in {None, Record(m)}
        BY <1>4 DEF FinalNamesOf, Stages
    <2>2. Sidecars(m)[i] \in Suffixes /\ At(m, i, "final") = Side(e, Sidecars(m)[i], "final")
        BY <1>4, <1>5, FinalPlace
    <2>3. ~(HasMoved(o) /\ move[o].to = Vault(e))
        BY <1>4, <1>5
    <2>4. PICK d \in Survivors : x[At(m, i, "final")] \in {d[At(m, i, "final")], None}
        BY <1>1, <2>2, <2>3, FinalsFade
    <2> QED
        BY <1>4, <1>6, <2>4 DEF DeliveredOf, FinalNamesOf
  <1>12. RecordedOf(m)'
    <2>1. CASE Gone(m)
        BY <1>1, <1>5, <1>8, <2>1 DEF RecordedOf, Gone
    <2>2. CASE Elsewhere(o, e)
      <3>1. SUFFICES ASSUME NEW x \in Survivors', x[Vault(e)] = moved[m], NEW i \in 1 .. Last(m)
                     PROVE  Record(m) \in {x[At(m, i, "pending")], x[At(m, i, "final")]}
          BY <1>1, <1>4, <1>5 DEF RecordedOf, Stages
      <3>2. PICK d \in Survivors : SameSides(x, d, e) /\ d[Vault(e)] = moved[m]
          BY <1>9, <2>2, <3>1
      <3>3. Record(m) \in {d[At(m, i, "pending")], d[At(m, i, "final")]}
          BY <1>4, <1>5, <1>6, <3>2 DEF DeliveredOf, RecordedOf
      <3> QED
          BY <1>7, <3>2, <3>3 DEF SameSides, Stages
    <2> QED
        BY <1>10, <2>1, <2>2
  <1>13. DurableOf(m)'
    <2>1. SUFFICES ASSUME result[m] = "succeeded", NEW x \in Survivors'
                   PROVE  /\ x[Vault(e)] = moved[m]
                          /\ \A i \in 1 .. Last(m) : x[At(m, i, "final")] = Record(m)
        BY <1>1, <1>4, <1>5 DEF DurableOf, Stages
    <2>2. \A d \in Survivors :
              /\ d[Vault(e)] = moved[m]
              /\ \A i \in 1 .. Last(m) : d[At(m, i, "final")] = Record(m)
        BY <1>4, <1>5, <1>6, <2>1 DEF DeliveredOf, DurableOf, Mine
    <2>3. Elsewhere(o, e)
        BY <1>1, <1>5, <1>10, <2>2 DEF Gone, Directories
    <2>4. PICK d \in Survivors :
              SameSides(x, d, e) /\ (x[Vault(e)] = moved[m] <=> d[Vault(e)] = moved[m])
        BY <1>9, <2>3
    <2> QED
        BY <1>7, <2>2, <2>4 DEF SameSides, Stages
  <1>14. FinalizingOf(m)'
    <2>1. SUFFICES ASSUME pc[m] \in {"finalize", "syncfinal"} PROVE FinalizingOf(m)'
        BY <1>1 DEF FinalizingOf
    <2>2. Elsewhere(o, e) /\ k[m] \in 1 .. Last(m)
        BY <1>1, <1>10, <2>1 DEF ShapeOf, AtSidecar
    <2>3. /\ dir[Vault(e)] = moved[m]
          /\ \A d \in Survivors : d[Vault(e)] = moved[m] =>
                \A i \in FirstPending(m) .. Last(m) : d[At(m, i, "pending")] = Record(m)
          /\ pc[m] = "syncfinal" => dir[At(m, k[m], "final")] = Record(m)
          /\ move[m].error = FALSE => \A d \in Survivors :
                k[m] > 1 => d[Vault(e)] = moved[m]
                            /\ \A j \in 1 .. k[m] - 1 : d[At(m, j, "final")] = Record(m)
        BY <1>4, <1>5, <1>6, <2>1 DEF DeliveredOf, FinalizingOf
    <2>4. /\ FirstPending(m)' = FirstPending(m)
          /\ \A i \in FirstPending(m) .. Last(m) : i \in 1 .. Last(m)
          /\ \A j \in 1 .. k[m] - 1 : j \in 1 .. Last(m)
        BY <1>1, <1>4, <2>2 DEF FirstPending
    <2>5. dir'[Vault(e)] = moved[m]
        BY <1>8, <2>3
    <2>6. ASSUME NEW x \in Survivors', x[Vault(e)] = moved[m], NEW i \in FirstPending(m) .. Last(m)
          PROVE  x[At(m, i, "pending")] = Record(m)
      <3>1. PICK d \in Survivors : SameSides(x, d, e) /\ d[Vault(e)] = moved[m]
          BY <1>9, <2>2, <2>6
      <3> QED
          BY <1>7, <2>3, <2>4, <2>6, <3>1 DEF SameSides, Stages
    <2>7. pc[m] = "syncfinal" => dir'[At(m, k[m], "final")] = Record(m)
        BY <1>7, <1>9, <2>2, <2>3 DEF SameSides, Stages
    <2>8. ASSUME move[m].error = FALSE, NEW x \in Survivors', k[m] > 1
          PROVE  x[Vault(e)] = moved[m]
                 /\ \A j \in 1 .. k[m] - 1 : x[At(m, j, "final")] = Record(m)
      <3>1. PICK d \in Survivors :
                SameSides(x, d, e) /\ (x[Vault(e)] = moved[m] <=> d[Vault(e)] = moved[m])
          BY <1>9, <2>2
      <3> QED
          BY <1>7, <2>3, <2>4, <2>8, <3>1 DEF SameSides, Stages
    <2>9. /\ \A i \in 1 .. Last(m), stage \in Stages : At(m, i, stage)' = At(m, i, stage)
          /\ At(m, k[m], "final")' = At(m, k[m], "final")
        BY <1>1, <1>4, <2>2 DEF Stages
    <2>10. (dir[move[m].to] = moved[m])'
        BY <1>1, <1>5, <2>5
    <2>11. (\A d \in Survivors : d[move[m].to] = moved[m] =>
               \A i \in FirstPending(m) .. Last(m) : d[At(m, i, "pending")] = Record(m))'
        BY <1>1, <1>4, <1>5, <2>4, <2>6, <2>9 DEF Stages
    <2>12. (pc[m] = "syncfinal" => dir[At(m, k[m], "final")] = Record(m))'
        BY <1>1, <1>4, <2>7, <2>9
    <2>13. (move[m].error = FALSE => \A d \in Survivors :
               k[m] > 1 => d[move[m].to] = moved[m]
                           /\ \A j \in 1 .. k[m] - 1 : d[At(m, j, "final")] = Record(m))'
      <3>1. \A j \in 1 .. k[m] - 1 : At(m, j, "final")' = At(m, j, "final")
          BY <2>4, <2>9 DEF Stages
      <3>2. ASSUME move'[m].error = FALSE, NEW x \in Survivors', k'[m] > 1
            PROVE  /\ x[move'[m].to] = moved'[m]
                   /\ \A j \in 1 .. k'[m] - 1 : x[At(m, j, "final")'] = Record(m)'
          BY <1>1, <1>4, <1>5, <2>8, <3>1, <3>2
      <3> QED
          BY <3>2
    <2> QED
        BY <2>10, <2>11, <2>12, <2>13, Zenon DEF FinalizingOf
  <1> QED
      BY <1>2, <1>11, <1>12, <1>13, <1>14 DEF DeliveredOf

-----------------------------------------------------------------------------
(* The steps of the operation itself.                                      *)

\* The move: every sidecar is already durable under its pending name.
LEMMA MoveDelivers ==
    ASSUME Grounded, Sharing, NEW m \in Moves, Step(m), ~HasMoved(m),
           PreparingOf(m), Finals, ArrivedOf(m)
    PROVE  DeliveredOf(m)'
  <1>1. ArrivedOf(m)' /\ ShapeOf(m)' /\ Directories
      BY ArrivedKept, OperationStep DEF Step, Grounded
  <1>2. SUFFICES ASSUME HasMoved(m)', HasRecords(m)', Latest(m)', ~shared'[m]
                 PROVE  DeliveredOf(m)'
    <2>1. result'[m] = "succeeded" => HasMoved(m)'
        BY <1>1 DEF ShapeOf
    <2> QED
        BY <1>1, <2>1 DEF DeliveredOf, FinalizingOf, FinalNamesOf, RecordedOf, DurableOf, Mine
  <1>3. /\ Rename(m) /\ pc[m] = "rename" /\ move' = move
        /\ \E c \in Changes :
              /\ Carried(m, c) /\ moved'[m] = c.thing
              /\ dir' = Apply(dir, c) /\ Survivors' = Survivors \cup {Apply(d, c) : d \in Survivors}
      BY <1>2, MovedOnce
  <1>4. PICK c \in Changes :
            /\ Carried(m, c) /\ moved'[m] = c.thing
            /\ dir' = Apply(dir, c) /\ Survivors' = Survivors \cup {Apply(d, c) : d \in Survivors}
      BY <1>3
  <1>5. move[m] \in Plans /\ move[m].kind # "restore" /\ LocalTypes
      BY <1>2, <1>3, TypesSplit DEF HasRecords, Grounded, Shape, ShapeOf
  <1>6. Last(m) \in 1 .. 3 /\ Last(m) # 0
      BY <1>5, SidecarNames
  <1>7. /\ pc[m] \notin {"idle", "digest"} /\ Last(m)' = Last(m) /\ Record(m)' = Record(m)
        /\ \A i \in 1 .. Last(m), stage \in Stages : At(m, i, stage)' = At(m, i, stage)
      BY <1>3, Steadfast
  <1>8. pc'[m] = "finalize" /\ k'[m] = 1 /\ result'[m] # "succeeded"
    <2>1. moved' # moved
        BY <1>2 DEF HasMoved
    <2>2. Sidecars(m) # << >>
        BY <1>5, <1>6, LastFacts
    <2>3. GotoAt(m, "finalize", 1)
        BY <1>3, <2>1, <2>2 DEF Rename
    <2> QED
        BY <1>3, <1>5, <2>3 DEF GotoAt, LocalTypes, Grounded, Shape, ShapeOf
  <1>9. PICK e \in Dests :
            /\ move[m].to = Vault(e)
            /\ \A i \in 1 .. Last(m), stage \in Stages :
                  At(m, i, stage) \in SidesOf(e) /\ At(m, i, stage) \in SidePlaces
      BY <1>6, <1>7, OperationPlaces
  <1>10. \A x \in Survivors' : \E d \in Survivors : SameSides(x, d, e)
    <2>1. \A d \in Survivors : SameSides(Apply(d, c), d, e)
        BY <1>1, <1>4, CarriedSpares DEF Directories
    <2> QED
        BY <1>4, <2>1 DEF SameSides
  <1>11. ~shared[m]
      BY <1>2, MeetingIsMarked
  <1>12. \A x \in Survivors', i \in 1 .. Last(m) : x[At(m, i, "pending")] = Record(m)
    <2>1. \A d \in Survivors, i \in 1 .. Last(m) : d[At(m, i, "pending")] = Record(m)
        BY <1>3, <1>11 DEF PreparingOf, Durable
    <2> QED
        BY <1>9, <1>10, <2>1 DEF SameSides, Stages
  <1>13. \A x \in Survivors', i \in 1 .. Last(m) : x[At(m, i, "final")] = None
    <2>1. ASSUME NEW d \in Survivors, NEW i \in 1 .. Last(m), d[At(m, i, "final")] # None
          PROVE  FALSE
      <3>1. Sidecars(m)[i] \in Suffixes /\ At(m, i, "final") = Side(e, Sidecars(m)[i], "final")
          BY <1>7, <1>9, FinalPlace
      <3>2. PICK n \in Moves : HasMoved(n) /\ move[n].to = Vault(e)
          BY <2>1, <3>1 DEF Finals
      <3>3. n # m /\ pc[n] # "idle"
          BY <3>2 DEF Grounded, Shape, ShapeOf, Steps
      <3>4. HasMoved(n)' /\ move'[n].to = move'[m].to
          BY <1>3, <1>9, <3>2, <3>3, Steadfast
      <3> QED
          BY <1>2, <3>3, <3>4 DEF Latest
    <2> QED
        BY <1>9, <1>10, <2>1 DEF SameSides, Stages
  <1>14. dir'[move[m].to] = moved'[m]
    <2>1. FileChange(c) /\ c.to = move[m].to
        BY <1>4 DEF Carried
    <2>2. Fits(dir, c) /\ c.to # None /\ c.from # c.to
        BY <2>1, PlacesDiffer DEF FileChange, Fits
    <2> QED
        BY <1>1, <1>4, <2>1, <2>2, ApplyFacts DEF Directories, WellFormed
  <1>15. FirstPending(m)' = 1
      BY <1>8 DEF FirstPending
  <1>16. \A i \in 1 .. Last(m) :
             At(m, i, "pending")' = At(m, i, "pending") /\ At(m, i, "final")' = At(m, i, "final")
      BY <1>7 DEF Stages
  <1>17. FinalizingOf(m)'
    <2>1. (\A d \in Survivors : d[move[m].to] = moved[m] =>
              \A i \in FirstPending(m) .. Last(m) : d[At(m, i, "pending")] = Record(m))'
        BY <1>7, <1>12, <1>15, <1>16
    <2>2. (dir[move[m].to] = moved[m])'
        BY <1>3, <1>14
    <2>3. ~(k'[m] > 1) /\ pc'[m] # "syncfinal"
        BY <1>8
    <2> QED
        BY <2>1, <2>2, <2>3 DEF FinalizingOf
  <1>18. FinalNamesOf(m)'
      BY <1>7, <1>13, <1>16 DEF FinalNamesOf
  <1>19. RecordedOf(m)'
      BY <1>7, <1>12, <1>16 DEF RecordedOf
  <1>20. DurableOf(m)'
      BY <1>8 DEF DurableOf
  <1> QED
      BY <1>1, <1>17, <1>18, <1>19, <1>20 DEF DeliveredOf

LEMMA NextFinalDoes ==
    ASSUME Grounded, NEW m \in Moves, pc[m] \in {"finalize", "syncfinal"},
           NEW error \in BOOLEAN, NextFinal(m, error)
    PROVE  \/ /\ k[m] < Last(m) /\ pc'[m] = "finalize" /\ k'[m] = k[m] + 1
              /\ result'[m] # "succeeded"
              /\ move'[m].error = FALSE => move[m].error = FALSE /\ error = FALSE
           \/ /\ k[m] = Last(m) /\ pc'[m] = "done"
              /\ result'[m] = "succeeded" => move[m].error = FALSE /\ error = FALSE
  <1>1. ShapeOf(m) /\ LocalTypes
      BY TypesSplit DEF Grounded, Shape
  <1>2. /\ move[m] \in Plans /\ k[m] \in 1 .. Last(m) /\ Len(Sidecars(m)) = Last(m)
        /\ Last(m) \in Nat /\ result[m] = "pending"
      BY <1>1, LastFacts DEF ShapeOf, AtSidecar
  <1>3. CASE k[m] < Last(m)
    <2>1. GotoAt(m, "finalize", k[m] + 1)
        BY <1>2, <1>3 DEF NextFinal
    <2>2. move'[m].error = FALSE => move[m].error = FALSE /\ error = FALSE
      <3>1. move' = [move EXCEPT ![m].error = @ \/ error]
          BY <1>2, <1>3, Zenon DEF NextFinal
      <3>2. (move[m].error \/ error) \in BOOLEAN
          BY <1>2 DEF Plans
      <3>3. PICK e \in BOOLEAN : move' = [move EXCEPT ![m].error = e]
                                 /\ e = (move[m].error \/ error)
          BY <3>1, <3>2, Zenon
      <3>4. move'[m].error = e
          BY <1>1, <1>2, <3>3 DEF LocalTypes, Plans
      <3>5. move[m].error \in BOOLEAN
          BY <1>2 DEF Plans
      <3> QED
          BY <3>3, <3>4, <3>5
    <2> QED
        BY <1>1, <1>2, <1>3, <2>1, <2>2 DEF GotoAt, LocalTypes
  <1>4. CASE ~(k[m] < Last(m))
    <2>1. Finish(m, IF move[m].error \/ error THEN "failed" ELSE "succeeded")
        BY <1>2, <1>4 DEF NextFinal
    <2>2. /\ pc'[m] = "done"
          /\ result'[m] = IF move[m].error \/ error THEN "failed" ELSE "succeeded"
        BY <1>1, <2>1 DEF Finish, LocalTypes
    <2>3. move[m].error \in BOOLEAN
        BY <1>2 DEF Plans
    <2> QED
        BY <1>2, <1>4, <2>2, <2>3
  <1> QED
      BY <1>3, <1>4

\* The next sidecar, or the end, after one that was synced or met an error.
LEMMA NextFinalDelivers ==
    ASSUME Grounded, NEW m \in Moves, pc[m] \in {"finalize", "syncfinal"}, Step(m),
           HasMoved(m), HasRecords(m)', Latest(m)', ~shared[m], DeliveredOf(m),
           NEW error \in BOOLEAN, NextFinal(m, error),
           dir' = dir, Survivors' \in SUBSET Survivors,
           error = FALSE => pc[m] = "syncfinal" /\ Survivors' = {dir}
    PROVE  FinalizingOf(m)' /\ FinalNamesOf(m)' /\ RecordedOf(m)' /\ DurableOf(m)'
  <1>1. /\ Mine(m) /\ moved'[m] = moved[m] /\ move'[m].to = move[m].to /\ Record(m)' = Record(m)
        /\ Last(m)' = Last(m) /\ Last(m) \in 1 .. 3
        /\ \A i \in 1 .. Last(m), stage \in Stages : At(m, i, stage)' = At(m, i, stage)
      BY StillMine
  <1>2. k[m] \in 1 .. Last(m)
      BY DEF Grounded, Shape, ShapeOf, AtSidecar
  <1>3. \A i \in 1 .. Last(m) :
            At(m, i, "pending")' = At(m, i, "pending") /\ At(m, i, "final")' = At(m, i, "final")
      BY <1>1 DEF Stages
  <1>4. FinalNamesOf(m)'
      BY <1>1, <1>3 DEF DeliveredOf, FinalNamesOf
  <1>5. RecordedOf(m)'
      BY <1>1, <1>3 DEF DeliveredOf, RecordedOf
  <1>6. /\ dir[move[m].to] = moved[m]
        /\ \A d \in Survivors : d[move[m].to] = moved[m] =>
              \A i \in FirstPending(m) .. Last(m) : d[At(m, i, "pending")] = Record(m)
        /\ pc[m] = "syncfinal" => dir[At(m, k[m], "final")] = Record(m)
        /\ move[m].error = FALSE => \A d \in Survivors :
              k[m] > 1 => d[move[m].to] = moved[m]
                          /\ \A j \in 1 .. k[m] - 1 : d[At(m, j, "final")] = Record(m)
      BY <1>1 DEF DeliveredOf, FinalizingOf
  <1>7. dir \in Survivors
      BY DEF Grounded, Directories
  <1>8. ASSUME error = FALSE, move[m].error = FALSE, NEW x \in Survivors'
        PROVE  /\ x[move[m].to] = moved[m]
               /\ \A j \in 1 .. k[m] : x[At(m, j, "final")] = Record(m)
    <2>1. x = dir /\ pc[m] = "syncfinal"
        BY <1>8
    <2>2. \A j \in 1 .. k[m] : j = k[m] \/ (k[m] > 1 /\ j \in 1 .. k[m] - 1)
        BY <1>1, <1>2
    <2>3. k[m] > 1 => \A j \in 1 .. k[m] - 1 : dir[At(m, j, "final")] = Record(m)
        BY <1>6, <1>7, <1>8
    <2> QED
        BY <1>6, <2>1, <2>2, <2>3
  <1>9. CASE /\ k[m] < Last(m) /\ pc'[m] = "finalize" /\ k'[m] = k[m] + 1
             /\ result'[m] # "succeeded"
             /\ move'[m].error = FALSE => move[m].error = FALSE /\ error = FALSE
    <2>1. DurableOf(m)'
        BY <1>9 DEF DurableOf
    <2>2. FirstPending(m)' = k[m] + 1 /\ FirstPending(m) \in {k[m], k[m] + 1}
        BY <1>9 DEF FirstPending
    <2>3. \A i \in k[m] + 1 .. Last(m) : i \in FirstPending(m) .. Last(m) /\ i \in 1 .. Last(m)
        BY <1>1, <1>2, <2>2
    <2>4. (\A d \in Survivors : d[move[m].to] = moved[m] =>
              \A i \in FirstPending(m) .. Last(m) : d[At(m, i, "pending")] = Record(m))'
        BY <1>1, <1>3, <1>6, <2>2, <2>3
    <2>5. (dir[move[m].to] = moved[m])'
        BY <1>1, <1>6
    <2>6. ASSUME move'[m].error = FALSE, NEW x \in Survivors'
          PROVE  /\ x[move'[m].to] = moved'[m]
                 /\ \A j \in 1 .. k'[m] - 1 : x[At(m, j, "final")'] = Record(m)'
      <3>1. k'[m] - 1 = k[m] /\ \A j \in 1 .. k[m] : j \in 1 .. Last(m)
          BY <1>1, <1>2, <1>9
      <3> QED
          BY <1>1, <1>3, <1>8, <1>9, <2>6, <3>1
    <2>7. pc'[m] # "syncfinal"
        BY <1>9
    <2>8. FinalizingOf(m)'
        BY <2>4, <2>5, <2>6, <2>7 DEF FinalizingOf
    <2> QED
        BY <1>4, <1>5, <2>1, <2>8
  <1>10. CASE /\ k[m] = Last(m) /\ pc'[m] = "done"
              /\ result'[m] = "succeeded" => move[m].error = FALSE /\ error = FALSE
    <2>1. FinalizingOf(m)'
        BY <1>10 DEF FinalizingOf
    <2>2. DurableOf(m)'
        BY <1>1, <1>3, <1>8, <1>10 DEF DurableOf
    <2> QED
        BY <1>4, <1>5, <2>1, <2>2
  <1> QED
      BY <1>9, <1>10, NextFinalDoes

\* A sidecar renamed to its final name.
LEMMA FinalizeDelivers ==
    ASSUME Grounded, NEW m \in Moves, pc[m] = "finalize", Step(m),
           HasMoved(m), HasRecords(m)', Latest(m)', ~shared[m], DeliveredOf(m),
           dir[At(m, k[m], "pending")] # None, Goto(m, "syncfinal"), move' = move,
           Change(At(m, k[m], "pending"), At(m, k[m], "final"), dir[At(m, k[m], "pending")])
    PROVE  FinalizingOf(m)' /\ FinalNamesOf(m)' /\ RecordedOf(m)' /\ DurableOf(m)'
  <1>1. /\ Mine(m) /\ moved'[m] = moved[m] /\ move'[m].to = move[m].to /\ Record(m)' = Record(m)
        /\ Last(m)' = Last(m) /\ Last(m) \in 1 .. 3
        /\ \A i \in 1 .. Last(m), stage \in Stages : At(m, i, stage)' = At(m, i, stage)
      BY StillMine
  <1>2. k[m] \in 1 .. Last(m) /\ LocalTypes /\ result[m] = "pending"
      BY TypesSplit DEF Grounded, Shape, ShapeOf, AtSidecar
  <1>3. pc'[m] = "syncfinal" /\ k'[m] = k[m] /\ result'[m] = "pending"
      BY <1>2 DEF Goto, LocalTypes
  <1>4. /\ dir[move[m].to] = moved[m]
        /\ \A d \in Survivors : d[move[m].to] = moved[m] =>
              \A i \in k[m] .. Last(m) : d[At(m, i, "pending")] = Record(m)
        /\ move[m].error = FALSE => \A d \in Survivors :
              k[m] > 1 => d[move[m].to] = moved[m]
                          /\ \A j \in 1 .. k[m] - 1 : d[At(m, j, "final")] = Record(m)
      BY <1>1 DEF DeliveredOf, FinalizingOf, FirstPending
  <1>5. dir \in Survivors /\ \A d \in Survivors : d \in Dir
      BY DEF Grounded, Directories, WellFormed
  <1> DEFINE pending == At(m, k[m], "pending")
             final   == At(m, k[m], "final")
             c       == Made(pending, final, Record(m))
  <1>6. dir[pending] = Record(m)
      BY <1>1, <1>2, <1>4, <1>5
  <1>7. /\ \A i \in 1 .. Last(m), stage \in Stages :
              At(m, i, stage) \in Places /\ At(m, i, stage) # None
        /\ \A i, j \in 1 .. Last(m), s, t \in Stages :
              i # j \/ s # t => At(m, i, s) # At(m, j, t)
        /\ \A i \in 1 .. Last(m), stage \in Stages : At(m, i, stage) \in SidePlaces
        /\ move[m].to \in FilePlaces /\ move[m] \in Plans
      BY <1>1, OperationPlaces DEF Plans
  <1>8. /\ pending \in Places /\ final \in Places /\ pending # None /\ final # None
        /\ pending # final /\ move[m].to \in Places \ {pending, final}
        /\ \A i \in 1 .. Last(m) : i # k[m] =>
              At(m, i, "pending") \in Places \ {pending, final}
              /\ At(m, i, "final") \in Places \ {pending, final}
      BY <1>2, <1>7, PlacesDiffer DEF Stages
  <1>9. Record(m) \in Things
      BY <1>7, RecordIsARecord DEF Things
  <1>10. Change(pending, final, Record(m))
      BY <1>6
  <1>11. \A i \in 1 .. Last(m) :
             At(m, i, "pending")' = At(m, i, "pending") /\ At(m, i, "final")' = At(m, i, "final")
      BY <1>1 DEF Stages
  <1>12. /\ \A i \in 1 .. k[m] - 1 : i \in 1 .. Last(m) /\ i # k[m]
         /\ \A i \in k[m] + 1 .. Last(m) : i \in 1 .. Last(m) /\ i # k[m] /\ i \in k[m] .. Last(m)
         /\ k[m] \in k[m] .. Last(m)
      BY <1>1, <1>2
  <1>13. At(m, k[m], "pending")' = pending /\ At(m, k[m], "final")' = final
      BY <1>2, <1>3, <1>11
  <1> HIDE DEF pending, final
  <1>14. /\ \A p \in Places \ {pending, final} : dir'[p] = dir[p]
         /\ \A x \in Survivors' : x \in Survivors \/ \E d \in Survivors :
               (\A p \in Places \ {pending, final} : x[p] = d[p]) /\ x = Apply(d, c)
         /\ dir'[final] = Record(m)
      BY <1>6, <1>8, <1>9, <1>10, OneChange
  <1>15. c \in Changes /\ c.from = pending /\ c.to = final /\ c.thing = Record(m)
    <2>1. dir[final] \in Things \cup {None}
        BY <1>5, <1>8 DEF Dir
    <2> QED
        BY <1>8, <1>9, <2>1 DEF Made, Changes
  <1> HIDE DEF c
  <1>16. \A x \in Survivors' : \E d \in Survivors :
             /\ \A p \in Places \ {pending, final} : x[p] = d[p]
             /\ x[final] \in {d[final], Record(m)}
             /\ d[pending] = Record(m) => Record(m) \in {x[pending], x[final]}
    <2>1. ASSUME NEW d \in Survivors
          PROVE  /\ Apply(d, c)[final] \in {d[final], Record(m)}
                 /\ d[pending] = Record(m) =>
                       Record(m) \in {Apply(d, c)[pending], Apply(d, c)[final]}
      <3>1. d \in Dir
          BY <1>5
      <3>2. CASE Fits(d, c)
          BY <1>8, <1>15, <3>1, <3>2, ApplyFacts
      <3>3. CASE ~Fits(d, c)
          BY <1>15, <3>1, <3>3, ApplyFacts
      <3> QED
          BY <3>2, <3>3
    <2> QED
        BY <1>14, <2>1
  <1>17. DurableOf(m)'
      BY <1>3 DEF DurableOf
  <1>18. FinalNamesOf(m)'
    <2>1. \A d \in Survivors, i \in 1 .. Last(m) : d[At(m, i, "final")] \in {None, Record(m)}
        BY <1>1 DEF DeliveredOf, FinalNamesOf
    <2>2. ASSUME NEW x \in Survivors', NEW i \in 1 .. Last(m)
          PROVE  x[At(m, i, "final")] \in {None, Record(m)}
        BY <1>8, <1>16, <2>1 DEF final
    <2> QED
        BY <1>1, <1>11, <2>2 DEF FinalNamesOf
  <1>19. RecordedOf(m)'
    <2>1. \A d \in Survivors : d[move[m].to] = moved[m] =>
              \A i \in 1 .. Last(m) : Record(m) \in {d[At(m, i, "pending")], d[At(m, i, "final")]}
        BY <1>1 DEF DeliveredOf, RecordedOf
    <2>2. ASSUME NEW x \in Survivors', x[move[m].to] = moved[m], NEW i \in 1 .. Last(m)
          PROVE  Record(m) \in {x[At(m, i, "pending")], x[At(m, i, "final")]}
      <3>1. PICK d \in Survivors :
                /\ \A p \in Places \ {pending, final} : x[p] = d[p]
                /\ d[pending] = Record(m) => Record(m) \in {x[pending], x[final]}
          BY <1>16
      <3>2. d[move[m].to] = moved[m]
          BY <1>8, <2>2, <3>1
      <3>3. CASE i = k[m]
          BY <1>4, <1>12, <3>1, <3>2, <3>3 DEF pending, final
      <3>4. CASE i # k[m]
          BY <1>8, <2>1, <3>1, <3>2, <3>4
      <3> QED
          BY <3>3, <3>4
    <2> QED
        BY <1>1, <1>11, <2>2 DEF RecordedOf
  <1>20. FinalizingOf(m)'
    <2>1. FirstPending(m)' = k[m] + 1
        BY <1>3 DEF FirstPending
    <2>2. ASSUME NEW x \in Survivors', x[move[m].to] = moved[m], NEW i \in k[m] + 1 .. Last(m)
          PROVE  x[At(m, i, "pending")] = Record(m)
        BY <1>4, <1>8, <1>12, <1>16, <2>2
    <2>3. (\A d \in Survivors : d[move[m].to] = moved[m] =>
              \A i \in FirstPending(m) .. Last(m) : d[At(m, i, "pending")] = Record(m))'
        BY <1>1, <1>11, <1>12, <2>1, <2>2
    <2>4. (dir[move[m].to] = moved[m])'
        BY <1>1, <1>4, <1>8, <1>14
    <2>5. (dir[At(m, k[m], "final")] = Record(m))'
        BY <1>1, <1>13, <1>14
    <2>6. ASSUME move'[m].error = FALSE, NEW x \in Survivors', k'[m] > 1
          PROVE  /\ x[move'[m].to] = moved'[m]
                 /\ \A j \in 1 .. k'[m] - 1 : x[At(m, j, "final")'] = Record(m)'
      <3>1. move[m].error = FALSE /\ k[m] > 1
          BY <1>3, <2>6
      <3>2. PICK d \in Survivors : \A p \in Places \ {pending, final} : x[p] = d[p]
          BY <1>16
      <3>3. d[move[m].to] = moved[m] /\ \A j \in 1 .. k[m] - 1 : d[At(m, j, "final")] = Record(m)
          BY <1>4, <3>1
      <3> QED
          BY <1>1, <1>3, <1>8, <1>11, <1>12, <3>2, <3>3
    <2> QED
        BY <2>3, <2>4, <2>5, <2>6 DEF FinalizingOf
  <1> QED
      BY <1>17, <1>18, <1>19, <1>20

LEMMA OwnDelivery ==
    ASSUME Grounded, Sharing, NEW m \in Moves, Step(m), HasMoved(m), DeliveredOf(m)
    PROVE  DeliveredOf(m)'
  <1>1. ArrivedOf(m)'
      BY ArrivedKept DEF DeliveredOf
  <1>2. SUFFICES ASSUME HasRecords(m)', Latest(m)', ~shared'[m]
                 PROVE  FinalizingOf(m)' /\ FinalNamesOf(m)' /\ RecordedOf(m)' /\ DurableOf(m)'
      BY <1>1 DEF DeliveredOf, FinalizingOf, FinalNamesOf, RecordedOf, DurableOf, Mine
  <1>3. ~shared[m] /\ pc[m] \in {"finalize", "syncfinal", "done"} /\ dir \in Survivors
        /\ FsTypes /\ LocalTypes
      BY <1>2, MeetingIsMarked, StillMine, TypesSplit DEF Grounded, Directories
  <1>4. Finalize(m) \/ SyncFinal(m) \/ Kill(m)
      BY <1>3 DEF Step, Operation, Seal, Begin, Revalidate, Open, ReadDigest, Recheck,
         WriteSidecar, PublishSidecar, SyncSidecar, Undo, Stat, Rename
  <1>5. CASE Finalize(m)
    <2>1. pc[m] = "finalize"
        BY <1>5 DEF Finalize
    <2>2. CASE UNCHANGED fsVars /\ NextFinal(m, TRUE)
        BY <1>2, <1>3, <2>1, <2>2, NothingChanged, NextFinalDelivers
    <2>3. CASE ~(UNCHANGED fsVars /\ NextFinal(m, TRUE))
      <3>1. /\ dir[At(m, k[m], "pending")] # None /\ Goto(m, "syncfinal") /\ move' = move
            /\ Change(At(m, k[m], "pending"), At(m, k[m], "final"), dir[At(m, k[m], "pending")])
          BY <1>5, <2>3 DEF Finalize
      <3> QED
          BY <1>2, <1>3, <2>1, <3>1, FinalizeDelivers
    <2> QED
        BY <2>2, <2>3
  <1>6. CASE SyncFinal(m)
    <2>1. pc[m] = "syncfinal"
        BY <1>6 DEF SyncFinal
    <2>2. CASE UNCHANGED fsVars /\ NextFinal(m, TRUE)
        BY <1>2, <1>3, <2>1, <2>2, NothingChanged, NextFinalDelivers
    <2>3. CASE Sync /\ NextFinal(m, FALSE)
      <3>1. dir' = dir /\ Survivors' = {dir}
          BY <1>3, <2>3, SyncKeepsOne
      <3> QED
          BY <1>2, <1>3, <2>1, <2>3, <3>1, NextFinalDelivers
    <2> QED
        BY <1>6, <2>2, <2>3 DEF SyncFinal
  <1>7. CASE Kill(m)
    <2>1. dir' = dir /\ Survivors' = Survivors /\ pc'[m] = "done" /\ result'[m] = "crashed"
        BY <1>3, <1>7, NothingChanged DEF Kill, LocalTypes
    <2>2. /\ Mine(m) /\ moved'[m] = moved[m] /\ move'[m].to = move[m].to /\ Record(m)' = Record(m)
          /\ Last(m)' = Last(m)
          /\ \A i \in 1 .. Last(m), stage \in Stages : At(m, i, stage)' = At(m, i, stage)
        BY <1>2, StillMine
    <2>3. FinalizingOf(m)' /\ DurableOf(m)'
        BY <2>1 DEF FinalizingOf, DurableOf
    <2>4. FinalNamesOf(m)'
        BY <1>3, <2>1, <2>2 DEF DeliveredOf, FinalNamesOf, Stages
    <2>5. RecordedOf(m)'
        BY <1>3, <2>1, <2>2 DEF DeliveredOf, RecordedOf, Stages
    <2> QED
        BY <2>3, <2>4, <2>5
  <1> QED
      BY <1>4, <1>5, <1>6, <1>7

-----------------------------------------------------------------------------
(* What an operation leaves behind.                                        *)

By(m) == {p \in SidePlaces : dir[p] \in Records /\ dir[p].by = m}

PendingUpTo(m, n) == {At(m, j, "pending") : j \in 1 .. n}

Written(m) ==
    CASE pc[m] = "write"              -> PendingUpTo(m, k[m] - 1)
      [] pc[m] = "publish"            -> PendingUpTo(m, k[m] - 1) \cup {At(m, k[m], "tmp")}
      [] pc[m] \in {"sync", "undo"}   -> PendingUpTo(m, k[m])
      [] pc[m] \in {"stat", "rename"} -> PendingUpTo(m, Last(m))
      [] OTHER                        -> {}

\* As long as no call failed and no power was lost, the records of an operation
\* are those it knows of, until they are all removed or the artifact is moved.
LeftOf(m) ==
    faults = 0 /\ losses = 0 /\ ~shared[m] /\ ~HasMoved(m) /\ result[m] # "crashed" =>
        By(m) \subseteq Written(m)

Left == \A m \in Moves : LeftOf(m)

LEMMA WrittenPlaces ==
    ASSUME Grounded, NEW m \in Moves, NEW p \in Written(m)
    PROVE  /\ Active(m)
           /\ \E e \in Dests : move[m].to = Vault(e) /\ p \in SidesOf(e)
  <1>1. ShapeOf(m)
      BY DEF Grounded, Shape
  <1>2. pc[m] \in {"write", "publish", "sync", "undo", "stat", "rename"}
      BY DEF Written
  <1>3. move[m] \in Plans /\ Last(m) \in 0 .. 3
      BY <1>1, <1>2, LastFacts DEF ShapeOf
  <1>4. \E j \in 1 .. Last(m), stage \in Stages : p = At(m, j, stage)
    <2>1. CASE pc[m] \in {"write", "publish", "sync", "undo"}
      <3>1. k[m] \in 1 .. Last(m)
          BY <1>1, <2>1 DEF ShapeOf, AtSidecar
      <3>2. \/ \E j \in 1 .. k[m] : p = At(m, j, "pending")
            \/ p = At(m, k[m], "tmp")
          BY <2>1, <3>1 DEF Written, PendingUpTo
      <3>3. \A j \in 1 .. k[m] : j \in 1 .. Last(m)
          BY <1>3, <3>1
      <3> QED
          BY <3>1, <3>2, <3>3 DEF Stages
    <2>2. CASE pc[m] \in {"stat", "rename"}
        BY <2>2 DEF Written, PendingUpTo, Stages
    <2> QED
        BY <1>2, <2>1, <2>2
  <1>5. Last(m) # 0 /\ pc[m] # "idle"
      BY <1>2, <1>3, <1>4
  <1> QED
      BY <1>2, <1>4, <1>5, OperationPlaces DEF Active

LEMMA OthersKeepLeft ==
    ASSUME Grounded, Sharing, NEW o \in Moves, Step(o), NEW m \in Moves, m # o, LeftOf(m)
    PROVE  LeftOf(m)'
  <1>1. /\ pc'[m] = pc[m] /\ k'[m] = k[m] /\ result'[m] = result[m] /\ move'[m] = move[m]
        /\ moved'[m] = moved[m] /\ Effect(o) /\ Directories
      BY OperationStep DEF Apart, Step, Grounded
  <1>2. SUFFICES ASSUME faults' = 0, losses' = 0, ~shared'[m], ~HasMoved(m), result[m] # "crashed"
                 PROVE  By(m)' \subseteq Written(m)'
      BY <1>1 DEF LeftOf, HasMoved
  <1>3. faults = 0 /\ losses = 0
    <2>1. faults \in Nat /\ losses \in Nat
        BY DEF Grounded, TypeOK
    <2>2. CASE Operation(o)
        BY <1>2, <2>1, <2>2, OwnedBySteps
    <2>3. CASE Kill(o)
        BY <1>2, <2>3 DEF Kill
    <2> QED
        BY <2>2, <2>3 DEF Step
  <1>4. ~shared[m] /\ (Active(o) /\ Active(m) => move[o].to # move[m].to)
      BY <1>2, MeetingIsMarked
  <1>5. By(m) \subseteq Written(m)
      BY <1>2, <1>3, <1>4 DEF LeftOf
  <1>6. Written(m)' = Written(m)
      BY <1>1 DEF Written, PendingUpTo, At, Side, Sidecars, Last
  <1>7. ASSUME NEW p \in SidePlaces, dir'[p] \in Records, dir'[p].by = m
        PROVE  p \in By(m)
    <2>1. None \notin Records /\ p \in Places /\ dir \in Dir
        BY <1>1, MoveAssumption, PlacesDiffer DEF Things, Directories, WellFormed
    <2>2. CASE Untouched \/ Settled
        BY <1>7, <2>2 DEF Untouched, Settled, By
    <2>3. CASE \E c \in Changes : Carried(o, c)
      <3>1. PICK c \in Changes : Carried(o, c)
          BY <2>3
      <3>2. dir'[p] = dir[p]
          BY <1>1, <3>1, FileChangeKeepsForm DEF Carried, Changed, Directories
      <3> QED
          BY <1>7, <3>2 DEF By
    <2>4. CASE \E c \in Changes : Recorded(o, c)
      <3>1. PICK c \in Changes : Recorded(o, c)
          BY <2>4
      <3>2. PICK e \in Dests : move[o].to = Vault(e) /\ SideChange(c, e)
          BY <3>1 DEF Recorded
      <3>3. /\ dir' = Apply(dir, c) /\ Active(o) /\ c.from # c.to
            /\ c.thing \in {Record(o), Torn} \/ (c.from # None /\ c.thing = dir[c.from])
          BY <3>1, <3>2 DEF Recorded, Changed, SideChange
      <3>4. CASE p # c.from /\ p # c.to
          BY <1>7, <2>1, <3>3, <3>4, ApplyFacts DEF By
      <3>5. CASE p = c.from
        <4>1. dir'[p] \in {dir[p], None}
            BY <2>1, <3>3, <3>5, MoveAssumption, ApplyFacts
        <4> QED
            BY <1>7, <2>1, <4>1 DEF By
      <3>6. CASE p = c.to
        <4>1. dir'[p] \in {dir[p], c.thing}
            BY <2>1, <3>3, <3>6, MoveAssumption, ApplyFacts
        <4>2. ASSUME dir'[p] = c.thing
              PROVE  FALSE
          <5>1. c.thing # Record(o) /\ c.thing # Torn
              BY <1>7, <4>2, MoveAssumption DEF Record, Torn
          <5>2. c.from # None /\ dir[c.from] \in Records /\ dir[c.from].by = m
              BY <1>7, <3>3, <4>2, <5>1
          <5>3. c.from \in By(m) /\ c.from \in SidesOf(e)
              BY <3>2, <5>2, PlacesDiffer DEF SideChange, By
          <5>4. PICK f \in Dests : move[m].to = Vault(f) /\ c.from \in SidesOf(f) /\ Active(m)
              BY <1>5, <5>3, WrittenPlaces
          <5>5. e = f
              BY <5>3, <5>4, PlacesDiffer
          <5> QED
              BY <1>4, <3>2, <3>3, <5>4, <5>5
        <4> QED
            BY <1>7, <4>1, <4>2 DEF By
      <3> QED
          BY <3>4, <3>5, <3>6
    <2> QED
        BY <1>1, <2>2, <2>3, <2>4 DEF Effect
  <1> QED
      BY <1>5, <1>6, <1>7 DEF By

\* Where the removal starts, so many records are left.
LEMMA UndoLeft ==
    ASSUME LocalTypes, NEW m \in Moves, NEW i \in Nat, UndoFrom(m, i)
    PROVE  /\ i = 0 => Written(m)' = {}
           /\ i # 0 => Written(m)' = PendingUpTo(m, i)'
  <1>1. CASE i = 0
    <2>1. pc'[m] = "done"
        BY <1>1 DEF UndoFrom, Finish, LocalTypes
    <2> QED
        BY <1>1, <2>1 DEF Written
  <1>2. CASE i # 0
    <2>1. pc'[m] = "undo" /\ k'[m] = i
        BY <1>2 DEF UndoFrom, GotoAt, LocalTypes
    <2> QED
        BY <1>2, <2>1 DEF Written
  <1> QED
      BY <1>1, <1>2

LEMMA OwnLeft ==
    ASSUME Grounded, Sharing, NEW m \in Moves, Step(m), PreparingOf(m), LeftOf(m)
    PROVE  LeftOf(m)'
  <1>1. SUFFICES ASSUME faults' = 0, losses' = 0, ~shared'[m], ~HasMoved(m)',
                        result'[m] # "crashed"
                 PROVE  By(m)' \subseteq Written(m)'
      BY DEF LeftOf
  <1>2. FsTypes /\ LocalTypes /\ ShapeOf(m) /\ faults \in Nat /\ losses \in Nat /\ ~shared[m]
      BY <1>1, TypesSplit, MeetingIsMarked DEF Grounded, Shape, Ground
  <1>3. Operation(m)
      BY <1>1, <1>2 DEF Step, Kill, LocalTypes
  <1>4. faults = 0 /\ losses = 0 /\ ~Fault
      BY <1>1, <1>2, <1>3, OwnedBySteps DEF Fault
  <1>5. pc[m] # "done" /\ result[m] # "crashed"
      BY <1>2, <1>3 DEF ShapeOf, Operation, Seal, Begin, Revalidate, Open, ReadDigest, Recheck,
         WriteSidecar, PublishSidecar, SyncSidecar, Undo, Stat, Rename, Finalize, SyncFinal
  <1>6. ~HasMoved(m)
    <2>1. CASE pc[m] = "idle"
        BY <1>2, <2>1 DEF ShapeOf, Steps
    <2>2. CASE pc[m] # "idle"
        BY <1>1, <2>2, Steadfast
    <2> QED
        BY <2>1, <2>2
  <1>7. By(m) \subseteq Written(m)
      BY <1>2, <1>4, <1>5, <1>6 DEF LeftOf
  <1>8. dir' = dir => By(m)' = By(m)
      BY DEF By
  <1>9. CASE Seal(m) \/ Revalidate(m) \/ Open(m) \/ ReadDigest(m) \/ Recheck(m)
    <2>1. UNCHANGED fsVars /\ pc[m] \in Early
        BY <1>9 DEF Seal, Begin, Revalidate, Open, ReadDigest, Recheck, Early
    <2>2. Written(m) = {} /\ dir' = dir
        BY <2>1 DEF Written, Early, fsVars
    <2> QED
        BY <1>7, <1>8, <2>2
  <1>10. CASE pc[m] \in {"write", "publish", "sync", "undo", "stat", "rename"}
    <2>1. /\ Last(m)' = Last(m) /\ Last(m) \in 0 .. 3 /\ Len(Sidecars(m)) = Last(m)
          /\ move[m] \in Plans /\ pc[m] # "idle"
          /\ \A i \in 1 .. Last(m), stage \in Stages : At(m, i, stage)' = At(m, i, stage)
        BY <1>10, Steadfast, LastFacts
    <2>2. \A n \in 0 .. Last(m) : PendingUpTo(m, n)' = PendingUpTo(m, n)
      <3> SUFFICES ASSUME NEW n \in 0 .. Last(m) PROVE PendingUpTo(m, n)' = PendingUpTo(m, n)
          OBVIOUS
      <3>1. \A j \in 1 .. n : j \in 1 .. Last(m)
          BY <2>1
      <3>2. \A j \in 1 .. n : At(m, j, "pending")' = At(m, j, "pending")
          BY <2>1, <3>1 DEF Stages
      <3> QED
          BY <3>2 DEF PendingUpTo
    <2>3. ASSUME NEW i \in 0 .. Last(m), UndoFrom(m, i), By(m)' \subseteq PendingUpTo(m, i)
          PROVE  By(m)' \subseteq Written(m)'
      <3>1. i \in Nat /\ PendingUpTo(m, 0) = {}
          BY <2>1 DEF PendingUpTo
      <3>2. CASE i = 0
          BY <1>2, <2>3, <3>1, <3>2, UndoLeft
      <3>3. CASE i # 0
        <4>1. Written(m)' = PendingUpTo(m, i)'
            BY <1>2, <2>3, <3>1, <3>3, UndoLeft
        <4> QED
            BY <2>2, <2>3, <4>1
      <3> QED
          BY <3>2, <3>3
    <2>4. ASSUME pc[m] \in AtSidecar
          PROVE  /\ k[m] \in 1 .. Last(m) /\ k[m] - 1 \in 0 .. Last(m) /\ k[m] \in 0 .. Last(m)
                 /\ PendingUpTo(m, k[m]) = PendingUpTo(m, k[m] - 1) \cup {At(m, k[m], "pending")}
                 /\ At(m, k[m], "tmp") \in Places /\ At(m, k[m], "pending") \in Places
                 /\ At(m, k[m], "tmp") # None /\ At(m, k[m], "pending") # None
                 /\ At(m, k[m], "tmp") # At(m, k[m], "pending")
                 /\ At(m, k[m], "tmp")' = At(m, k[m], "tmp") \/ k'[m] # k[m]
      <3>1. k[m] \in 1 .. Last(m)
          BY <1>2, <2>4 DEF ShapeOf
      <3>2. k[m] - 1 \in 0 .. Last(m) /\ k[m] \in 0 .. Last(m) /\ Last(m) # 0
            /\ 1 .. k[m] = 1 .. (k[m] - 1) \cup {k[m]}
          BY <2>1, <3>1
      <3>3. PendingUpTo(m, k[m]) = PendingUpTo(m, k[m] - 1) \cup {At(m, k[m], "pending")}
          BY <3>2 DEF PendingUpTo
      <3> QED
          BY <2>1, <3>1, <3>2, <3>3, OperationPlaces DEF Stages
    <2>5. None \notin Records /\ \A p \in SidePlaces : p \in Places
        BY MoveAssumption, PlacesDiffer DEF Things
    <2>6. CASE WriteSidecar(m)
      <3>1. pc[m] = "write" /\ Written(m) = PendingUpTo(m, k[m] - 1)
          BY <2>6 DEF WriteSidecar, Written
      <3> DEFINE tmp == At(m, k[m], "tmp")
      <3>2. CASE UndoFrom(m, k[m] - 1) /\ UNCHANGED fsVars
          BY <1>7, <1>8, <2>3, <2>4, <3>1, <3>2 DEF AtSidecar, fsVars
      <3>3. CASE ~(UndoFrom(m, k[m] - 1) /\ UNCHANGED fsVars)
        <4>1. Change(None, tmp, Record(m)) /\ Goto(m, "publish")
            BY <1>4, <2>6, <3>3 DEF WriteSidecar
        <4>2. pc'[m] = "publish" /\ k'[m] = k[m] /\ Record(m) \in Things
            BY <1>2, <2>1, <4>1, RecordIsARecord DEF Goto, LocalTypes, Things
        <4>3. \A p \in Places \ {None, tmp} : dir'[p] = dir[p]
            BY <2>4, <3>1, <4>1, <4>2, OneChange DEF AtSidecar
        <4>4. By(m)' \subseteq By(m) \cup {tmp}
            BY <2>5, <4>3, PlacesDiffer DEF By
        <4>5. PICK n \in 0 .. Last(m) : n = k[m] - 1 /\ n = k'[m] - 1
            BY <2>4, <3>1, <4>2 DEF AtSidecar
        <4>6. Written(m)' = PendingUpTo(m, n)' \cup {tmp}
            BY <2>4, <3>1, <4>2, <4>5 DEF Written, AtSidecar
        <4> QED
            BY <1>7, <2>2, <3>1, <4>4, <4>5, <4>6
      <3> QED
          BY <3>2, <3>3
    <2>7. CASE PublishSidecar(m)
      <3> DEFINE tmp     == At(m, k[m], "tmp")
                 pending == At(m, k[m], "pending")
      <3>1. pc[m] = "publish" /\ Written(m) = PendingUpTo(m, k[m] - 1) \cup {tmp}
          BY <2>7 DEF PublishSidecar, Written
      <3>2. Change(tmp, pending, Record(m)) /\ Goto(m, "sync")
          BY <1>4, <2>7 DEF PublishSidecar
      <3>3. pc'[m] = "sync" /\ k'[m] = k[m] /\ Record(m) \in Things
          BY <1>2, <2>1, <3>2, RecordIsARecord DEF Goto, LocalTypes, Things
      <3>4. dir[tmp] = Record(m)
          BY <1>2, <3>1 DEF PreparingOf
      <3>5. dir'[tmp] = None /\ \A p \in Places \ {tmp, pending} : dir'[p] = dir[p]
          BY <2>4, <3>1, <3>2, <3>3, <3>4, OneChange DEF AtSidecar
      <3>6. By(m)' \subseteq (By(m) \ {tmp}) \cup {pending}
          BY <2>5, <3>5 DEF By
      <3>7. PICK n \in 0 .. Last(m) : n = k[m] /\ n = k'[m]
          BY <2>4, <3>1, <3>3 DEF AtSidecar
      <3>8. Written(m)' = PendingUpTo(m, n)'
          BY <3>3, <3>7 DEF Written
      <3> QED
          BY <1>7, <2>2, <2>4, <3>1, <3>6, <3>7, <3>8 DEF AtSidecar
    <2>8. CASE SyncSidecar(m)
      <3>1. pc[m] = "sync" /\ Sync /\ NextSidecar(m) /\ Written(m) = PendingUpTo(m, k[m])
          BY <1>4, <2>8 DEF SyncSidecar, Written
      <3>2. IF k[m] < Last(m) THEN GotoAt(m, "write", k[m] + 1) ELSE Goto(m, "stat")
          BY <2>1, <3>1 DEF NextSidecar
      <3>3. \/ pc'[m] = "write" /\ k'[m] - 1 = k[m]
            \/ pc'[m] = "stat" /\ Last(m) = k[m]
        <4>1. k[m] < Last(m) \/ k[m] = Last(m)
            BY <2>1, <2>4, <3>1 DEF AtSidecar
        <4>2. k[m] \in Nat
            BY <1>2 DEF LocalTypes
        <4> QED
            BY <1>2, <3>2, <4>1, <4>2 DEF Goto, GotoAt, LocalTypes
      <3>4. PICK n \in 0 .. Last(m) :
                n = k[m] /\ (pc'[m] = "write" => n = k'[m] - 1) /\ (pc'[m] = "stat" => n = Last(m))
          BY <2>4, <3>1, <3>3 DEF AtSidecar
      <3>5. Written(m)' = PendingUpTo(m, n)'
          BY <2>1, <3>3, <3>4 DEF Written
      <3>6. By(m)' = By(m)
          BY <1>8, <3>1 DEF Sync
      <3> QED
          BY <1>7, <2>2, <3>1, <3>4, <3>5, <3>6
    <2>9. CASE Undo(m)
      <3> DEFINE p == At(m, k[m], "pending")
      <3>1. pc[m] = "undo" /\ UndoFrom(m, k[m] - 1) /\ Written(m) = PendingUpTo(m, k[m])
          BY <2>9 DEF Undo, Written
      <3>2. p \notin By(m)' /\ By(m)' \subseteq By(m)
        <4>1. CASE dir[p] = None
          <5>1. dir' = dir
              BY <2>9, <4>1 DEF Undo, fsVars
          <5> QED
              BY <1>8, <2>5, <4>1, <5>1 DEF By
        <4>2. CASE dir[p] # None
          <5>1. Change(p, None, dir[p]) /\ dir[p] \in Things
              BY <1>2, <2>4, <2>9, <3>1, <4>2 DEF Undo, FsTypes, Dir, AtSidecar
          <5>2. dir'[p] = None /\ \A q \in Places \ {p, None} : dir'[q] = dir[q]
              BY <2>4, <3>1, <5>1, OneChange DEF AtSidecar
          <5> QED
              BY <2>5, <5>2, PlacesDiffer DEF By
        <4> QED
            BY <4>1, <4>2
      <3>3. By(m)' \subseteq PendingUpTo(m, k[m] - 1)
          BY <1>7, <2>4, <3>1, <3>2 DEF AtSidecar
      <3> QED
          BY <2>3, <2>4, <3>1, <3>3 DEF AtSidecar
    <2>10. CASE Stat(m) \/ Rename(m)
      <3>1. pc[m] \in {"stat", "rename"} /\ Written(m) = PendingUpTo(m, Last(m))
          BY <2>10 DEF Stat, Rename, Written
      <3>2. dir' = dir /\ (UndoFrom(m, Last(m)) \/ pc'[m] = "rename")
        <4>1. CASE Stat(m)
            BY <1>2, <2>1, <4>1 DEF Stat, Goto, LocalTypes, fsVars
        <4>2. CASE Rename(m)
          <5>1. ~(dir[move[m].from] # None /\ moved' = [moved EXCEPT ![m] = dir[move[m].from]])
              BY <1>1, <1>2 DEF LocalTypes, HasMoved
          <5>2. UndoFrom(m, Len(Sidecars(m))) /\ UNCHANGED fsVars
              BY <4>2, <5>1 DEF Rename
          <5> QED
              BY <2>1, <5>2 DEF fsVars
        <4> QED
            BY <2>10, <4>1, <4>2
      <3>3. Last(m) \in 0 .. Last(m) /\ By(m)' \subseteq PendingUpTo(m, Last(m))
          BY <1>7, <1>8, <2>1, <3>1, <3>2
      <3>4. CASE pc'[m] = "rename"
          BY <2>1, <2>2, <3>3, <3>4 DEF Written
      <3> QED
          BY <2>3, <3>2, <3>3, <3>4
    <2>11. \/ WriteSidecar(m) \/ PublishSidecar(m) \/ SyncSidecar(m) \/ Undo(m)
           \/ Stat(m) \/ Rename(m)
        BY <1>3, <1>10 DEF Operation, Seal, Begin, Revalidate, Open, ReadDigest, Recheck,
           Finalize, SyncFinal
    <2> QED
        BY <2>6, <2>7, <2>8, <2>9, <2>10, <2>11
  <1>11. ~Finalize(m) /\ ~SyncFinal(m)
      BY <1>2, <1>6 DEF Finalize, SyncFinal, ShapeOf
  <1>12. \/ Seal(m) \/ Revalidate(m) \/ Open(m) \/ ReadDigest(m) \/ Recheck(m)
         \/ pc[m] \in {"write", "publish", "sync", "undo", "stat", "rename"}
      BY <1>3, <1>11 DEF Operation, WriteSidecar, PublishSidecar, SyncSidecar, Undo, Stat, Rename
  <1> QED
      BY <1>9, <1>10, <1>12

-----------------------------------------------------------------------------
(* What an archive was sealed for.                                         *)

\* An artifact is only ever written to; its digest is read between the sealing
\* and the second comparison, which finds that nothing was written.
ContentOf(m) ==
    pc[m] # "idle" =>
        /\ move[m].content <= content[move[m].thing]
        /\ move[m].kind = "archive" =>
            /\ pc[m] = "recheck" => move[m].digest \in move[m].content .. content[move[m].thing]
            /\ pc[m] \in PreparingSteps \cup {"undo"} \/ HasMoved(m) =>
                  move[m].digest = move[m].content

Contents == \A m \in Moves : ContentOf(m)

LEMMA OthersKeepContent ==
    ASSUME Grounded, NEW o \in Moves, Step(o), NEW m \in Moves, m # o, ContentOf(m)
    PROVE  ContentOf(m)'
  <1>1. pc'[m] = pc[m] /\ move'[m] = move[m] /\ moved'[m] = moved[m]
      BY OperationStep DEF Apart, Step
  <1>2. content' = content
      BY OwnedBySteps DEF Step, Kill
  <1> QED
      BY <1>1, <1>2 DEF ContentOf, HasMoved

LEMMA OwnContent ==
    ASSUME Grounded, NEW m \in Moves, Step(m), ContentOf(m)
    PROVE  ContentOf(m)'
  <1>1. LocalTypes /\ ShapeOf(m) /\ content \in [Artifacts -> Nat] /\ content' = content
      BY TypesSplit, OwnedBySteps DEF Grounded, Shape, Ground, Step, Kill
  <1>2. CASE pc[m] = "idle"
    <2>1. Seal(m)
        BY <1>2 DEF Step, Operation, Kill, Active, Revalidate, Open, ReadDigest, Recheck,
           WriteSidecar, PublishSidecar, SyncSidecar, Undo, Stat, Rename, Finalize, SyncFinal
    <2>2. PICK kind, from, to : Begin(m, kind, from, to)
        BY <2>1 DEF Seal
    <2>3. /\ pc'[m] = "revalidate" /\ moved' = moved
          /\ move'[m].thing = dir[from] /\ move'[m].content = content[dir[from]]
        BY <1>1, <2>2 DEF Begin, Goto, LocalTypes
    <2>4. move'[m] \in Plans
        BY <1>1, <2>3, OperationStep DEF ShapeOf, Step
    <2>5. content[dir[from]] \in Nat /\ ~HasMoved(m)'
        BY <1>1, <1>2, <2>3, <2>4 DEF Plans, ShapeOf, HasMoved, Steps
    <2> QED
        BY <1>1, <2>3, <2>5 DEF ContentOf, PreparingSteps
  <1>3. CASE pc[m] # "idle"
    <2>1. /\ move[m] \in Plans /\ pc'[m] # "idle"
          /\ move'[m].kind = move[m].kind /\ move'[m].thing = move[m].thing
          /\ move'[m].content = move[m].content
          /\ pc[m] # "digest" => move'[m].digest = move[m].digest
        BY <1>3, Steadfast
    <2>2. /\ move[m].content \in Nat /\ content[move[m].thing] \in Nat
          /\ move[m].content <= content[move[m].thing]
        BY <1>1, <1>3, <2>1 DEF ContentOf, Plans
    <2>3. CASE pc[m] = "digest"
      <3>1. ReadDigest(m) \/ Kill(m)
          BY <2>3 DEF Step, Operation, Seal, Begin, Revalidate, Open, Recheck,
             WriteSidecar, PublishSidecar, SyncSidecar, Undo, Stat, Rename, Finalize, SyncFinal
      <3>2. moved' = moved /\ ~HasMoved(m)
          BY <1>1, <2>3, <3>1 DEF ReadDigest, Kill, ShapeOf, Steps
      <3>3. CASE ReadDigest(m)
        <4>1. pc'[m] = "recheck" /\ move'[m].digest = content[move[m].thing]
            BY <1>1, <2>1, <3>3 DEF ReadDigest, Goto, LocalTypes, Plans
        <4> QED
            BY <1>1, <2>1, <2>2, <3>2, <4>1 DEF ContentOf, PreparingSteps, HasMoved
      <3>4. CASE Kill(m)
        <4>1. pc'[m] = "done"
            BY <1>1, <3>4 DEF Kill, LocalTypes
        <4> QED
            BY <1>1, <2>1, <2>2, <3>2, <4>1 DEF ContentOf, PreparingSteps, HasMoved
      <3> QED
          BY <3>1, <3>3, <3>4
    <2>4. CASE pc[m] = "recheck"
      <3>1. Recheck(m) \/ Kill(m)
          BY <2>4 DEF Step, Operation, Seal, Begin, Revalidate, Open, ReadDigest,
             WriteSidecar, PublishSidecar, SyncSidecar, Undo, Stat, Rename, Finalize, SyncFinal
      <3>2. moved' = moved /\ ~HasMoved(m)
          BY <1>1, <2>4, <3>1 DEF Recheck, Kill, ShapeOf, Steps
      <3>3. /\ pc'[m] \in {"stat", "write", "done"}
            /\ pc'[m] # "done" => content[move[m].thing] = move[m].content
          BY <1>1, <3>1 DEF Recheck, Kill, Confirmed, Goto, Finish, LocalTypes
      <3>4. move[m].kind = "archive" => move[m].digest \in move[m].content .. content[move[m].thing]
          BY <1>3, <2>4 DEF ContentOf
      <3>5. move[m].kind = "archive" /\ pc'[m] # "done" => move[m].digest = move[m].content
          BY <2>2, <3>3, <3>4
      <3> QED
          BY <1>1, <2>1, <2>2, <2>4, <3>2, <3>3, <3>5 DEF ContentOf, PreparingSteps, HasMoved
    <2>5. CASE pc[m] \notin {"digest", "recheck"}
      <3>1. CASE Revalidate(m) \/ Open(m)
        <4>1. moved' = moved /\ ~HasMoved(m)
            BY <1>1, <3>1 DEF Revalidate, Open, ShapeOf, Steps
        <4>2. /\ pc'[m] \in {"open", "digest", "recheck", "done"}
              /\ pc'[m] = "recheck" => move[m].kind # "archive"
            BY <1>1, <3>1 DEF Revalidate, Open, Goto, Finish, LocalTypes
        <4> QED
            BY <1>1, <2>1, <2>2, <4>1, <4>2 DEF ContentOf, PreparingSteps, HasMoved
      <3>2. CASE pc[m] \in PreparingSteps \cup {"undo", "finalize", "syncfinal"}
        <4>1. move[m].kind = "archive" => move[m].digest = move[m].content
            BY <1>1, <1>3, <3>2 DEF ContentOf, ShapeOf
        <4>2. pc'[m] # "recheck"
            BY <1>1, <3>2 DEF Step, Kill, Operation, Seal, Begin, Revalidate, Open, ReadDigest,
               Recheck, WriteSidecar, PublishSidecar, SyncSidecar, Undo, Stat, Rename, Finalize,
               SyncFinal, NextSidecar, NextFinal, UndoFrom, Goto, GotoAt, Finish, LocalTypes,
               PreparingSteps
        <4> QED
            BY <1>1, <2>1, <2>2, <2>5, <4>1, <4>2 DEF ContentOf
      <3>3. CASE Kill(m)
        <4>1. pc'[m] = "done" /\ moved' = moved
            BY <1>1, <3>3 DEF Kill, LocalTypes
        <4> QED
            BY <1>1, <1>3, <2>1, <2>2, <2>5, <4>1 DEF ContentOf, PreparingSteps, HasMoved
      <3>4. \/ Revalidate(m) \/ Open(m) \/ Kill(m)
            \/ pc[m] \in PreparingSteps \cup {"undo", "finalize", "syncfinal"}
          BY <1>3, <2>5 DEF Step, Operation, Seal, Begin, ReadDigest, Recheck, WriteSidecar,
             PublishSidecar, SyncSidecar, Undo, Stat, Rename, Finalize, SyncFinal, PreparingSteps
      <3> QED
          BY <3>1, <3>2, <3>3, <3>4
    <2> QED
        BY <2>3, <2>4, <2>5
  <1> QED
      BY <1>2, <1>3

-----------------------------------------------------------------------------
(* A write in place, a power loss, and the beginning.                      *)

\* Nothing of the operations and of the directories changes.
LEMMA StillnessKeeps ==
    ASSUME Grounded, UNCHANGED <<fsVars, move, pc, k, result, faults, losses, moved>>,
           \A m \in Moves : ~shared'[m] => ~shared[m],
           Preparing, Delivered, Left
    PROVE  Preparing' /\ Delivered' /\ Left'
  <1>1. Survivors' = Survivors /\ dir' = dir
      BY NothingChanged
  <1> USE <1>1
  <1>2. \A m \in Moves : Last(m)' = Last(m) /\ Record(m)' = Record(m) /\ Durable(m)' = Durable(m)
      BY DEF Last, Sidecars, Record, Durable
  <1>3. \A m \in Moves : Mine(m)' <=> Mine(m)
      BY DEF Mine, HasRecords, HasMoved, Latest
  <1>4. Preparing'
      BY <1>2 DEF Preparing, PreparingOf, At, Sidecars
  <1>5. Left'
      BY <1>2 DEF Left, LeftOf, HasMoved, By, Written, PendingUpTo, At, Sidecars
  <1>6. Finals'
      BY DEF Delivered, Finals, HasMoved
  <1>7. ASSUME NEW m \in Moves PROVE DeliveredOf(m)'
    <2>1. DeliveredOf(m)
        BY DEF Delivered
    <2>2. ArrivedOf(m)'
        BY <1>3, <2>1 DEF DeliveredOf, ArrivedOf, Gone, Active
    <2>3. FinalizingOf(m)'
        BY <1>2, <1>3, <2>1 DEF DeliveredOf, FinalizingOf, FirstPending, At, Sidecars
    <2>4. FinalNamesOf(m)' /\ RecordedOf(m)'
        BY <1>2, <1>3, <2>1 DEF DeliveredOf, FinalNamesOf, RecordedOf, At, Sidecars
    <2>5. DurableOf(m)'
        BY <1>2, <2>1 DEF DeliveredOf, DurableOf, HasRecords, HasMoved, Latest, At, Sidecars
    <2> QED
        BY <2>2, <2>3, <2>4, <2>5 DEF DeliveredOf
  <1> QED
      BY <1>4, <1>5, <1>6, <1>7 DEF Delivered

LEMMA PowerLossKeeps ==
    ASSUME Grounded, PowerLoss, Sharing, Preparing, Delivered, Left, Contents
    PROVE  Preparing' /\ Delivered' /\ Left' /\ Contents'
  <1>1. PICK d \in Survivors : dir' = d /\ disk' = d
      BY DEF PowerLoss
  <1>2. log' = << >> /\ UNCHANGED <<content, move, k, faults, moved>> /\ losses' = losses + 1
      BY DEF PowerLoss
  <1>3. Survivors' = {d}
      BY <1>1, <1>2, KeptOfNothing DEF Survivors
  <1>4. \A m \in Moves :
            /\ pc'[m] \in {"idle", "done"} /\ (pc'[m] = "idle" <=> pc[m] = "idle")
            /\ result'[m] \in {"crashed", result[m]}
      BY DEF PowerLoss, Active
  <1>5. \A m \in Moves : ~shared'[m] => ~shared[m]
      BY MeetingIsMarked
  <1>6. \A m \in Moves : Last(m)' = Last(m) /\ Record(m)' = Record(m)
      BY <1>2 DEF Last, Sidecars, Record
  <1>7. \A m \in Moves : Mine(m)' <=> Mine(m)
      BY <1>2, <1>4 DEF Mine, HasRecords, HasMoved, Latest
  <1>8. Preparing'
      BY <1>4 DEF Preparing, PreparingOf, Durable
  <1>9. Left'
    <2>1. losses \in Nat
        BY DEF Grounded, TypeOK
    <2> QED
        BY <1>2, <2>1 DEF Left, LeftOf
  <1>10. Contents'
      BY <1>2, <1>4 DEF Contents, ContentOf, PreparingSteps, HasMoved
  <1>11. Finals'
      BY <1>2, <1>3 DEF Delivered, Finals, HasMoved
  <1>12. ASSUME NEW m \in Moves PROVE DeliveredOf(m)'
    <2>1. DeliveredOf(m)
        BY DEF Delivered
    <2>2. ArrivedOf(m)'
      <3>1. \A o \in Moves : ~Active(o)'
          BY <1>4 DEF Active
      <3> QED
          BY <1>1, <1>3, <3>1 DEF ArrivedOf, Gone
    <2>3. FinalizingOf(m)'
        BY <1>4 DEF FinalizingOf
    <2>4. FinalNamesOf(m)' /\ RecordedOf(m)'
        BY <1>2, <1>3, <1>5, <1>6, <1>7, <2>1
        DEF DeliveredOf, FinalNamesOf, RecordedOf, At, Sidecars
    <2>5. DurableOf(m)'
        BY <1>2, <1>3, <1>4, <1>5, <1>6, <2>1
        DEF DeliveredOf, DurableOf, HasRecords, HasMoved, Latest, At, Sidecars
    <2> QED
        BY <2>2, <2>3, <2>4, <2>5 DEF DeliveredOf
  <1> QED
      BY <1>8, <1>9, <1>10, <1>11, <1>12 DEF Delivered

\* The invariant.
IInv == Grounded /\ Preparing /\ Delivered /\ Left /\ Contents

LEMMA IInvInitially == Init => IInv
  <1> SUFFICES ASSUME Init PROVE IInv
      OBVIOUS
  <1>1. Grounded
      BY GroundedInitially
  <1>2. /\ \A m \in Moves : pc[m] = "idle" /\ ~HasMoved(m) /\ result[m] = "pending"
        /\ Survivors = {dir}
      BY KeptOfNothing DEF Init, HasMoved, Survivors
  <1>3. \A p \in SidePlaces : dir[p] = None
    <2>1. \A p \in SidePlaces : p \in Places /\ p \notin Homes
        BY PlacesDiffer
    <2> QED
        BY <2>1 DEF Init, Homes
  <1>4. Preparing /\ Contents
      BY <1>2 DEF Preparing, PreparingOf, Durable, Contents, ContentOf
  <1>5. Left
    <2>1. None \notin Records
        BY MoveAssumption DEF Things
    <2> QED
        BY <1>3, <2>1 DEF Left, LeftOf, By
  <1>6. Finals
    <2>1. \A e \in Dests, s \in Suffixes : Side(e, s, "final") \in SidePlaces
        BY PlacesDiffer DEF SidesOf, Stages
    <2> QED
        BY <1>2, <1>3, <2>1 DEF Finals
  <1>7. \A m \in Moves : DeliveredOf(m)
      BY <1>2 DEF DeliveredOf, ArrivedOf, FinalizingOf, FinalNamesOf, RecordedOf, DurableOf, Mine
  <1> QED
      BY <1>1, <1>4, <1>5, <1>6, <1>7 DEF IInv, Delivered

LEMMA IInvKept == IInv /\ [Next]_vars => IInv'
  <1> SUFFICES ASSUME IInv, [Next]_vars PROVE IInv'
      OBVIOUS
  <1>1. Grounded /\ Preparing /\ Delivered /\ Left /\ Contents /\ Grounded'
      BY GroundedKept DEF IInv
  <1>2. ASSUME NEW o \in Moves, Step(o), Sharing
        PROVE  Preparing' /\ Delivered' /\ Left' /\ Contents'
    <2> SUFFICES ASSUME NEW m \in Moves
                 PROVE  PreparingOf(m)' /\ DeliveredOf(m)' /\ LeftOf(m)' /\ ContentOf(m)'
        BY <1>1, <1>2, FinalsKept DEF Preparing, Delivered, Left, Contents
    <2>1. PreparingOf(m) /\ Finals /\ DeliveredOf(m) /\ LeftOf(m) /\ ContentOf(m)
        BY <1>1 DEF Preparing, Delivered, Left, Contents
    <2>2. CASE m # o
        BY <1>1, <1>2, <2>1, <2>2, OthersKeepPreparing, OthersKeepDelivery, OthersKeepLeft,
           OthersKeepContent
    <2>3. CASE m = o
      <3>1. PreparingOf(m)' /\ LeftOf(m)' /\ ContentOf(m)'
          BY <1>1, <1>2, <2>1, <2>3, OwnPreparing, OwnLeft, OwnContent
      <3>2. ArrivedOf(m)
          BY <2>1 DEF DeliveredOf
      <3>3. DeliveredOf(m)'
          BY <1>1, <1>2, <2>1, <2>3, <3>2, OwnDelivery, MoveDelivers
      <3> QED
          BY <3>1, <3>3
    <2> QED
        BY <2>2, <2>3
  <1>3. ASSUME NEW a \in Artifacts, Write(a), Sharing
        PROVE  Preparing' /\ Delivered' /\ Left' /\ Contents'
    <2>1. UNCHANGED <<fsVars, move, pc, k, result, faults, losses, moved>>
        BY <1>3 DEF Write
    <2>2. \A m \in Moves : ~shared'[m] => ~shared[m]
        BY <1>1, <1>3, MeetingIsMarked
    <2>3. Contents'
      <3>1. SUFFICES ASSUME NEW m \in Moves, pc[m] # "idle" PROVE ContentOf(m)'
          BY <2>1 DEF Contents, ContentOf
      <3>2. move[m] \in Plans /\ ContentOf(m) /\ content \in [Artifacts -> Nat]
          BY <1>1, <3>1 DEF Grounded, Shape, ShapeOf, Contents, TypeOK
      <3>3. /\ content[move[m].thing] \in Nat /\ content'[move[m].thing] \in Nat
            /\ content[move[m].thing] <= content'[move[m].thing]
            /\ move[m].content \in Nat /\ move[m].digest \in Nat
          BY <1>3, <3>2 DEF Write, Plans
      <3>4. pc' = pc /\ move' = move /\ moved' = moved
          BY <2>1
      <3> QED
          BY <3>1, <3>2, <3>3, <3>4 DEF ContentOf, HasMoved
    <2> QED
        BY <1>1, <2>1, <2>2, <2>3, StillnessKeeps
  <1>4. ASSUME UNCHANGED vars
        PROVE  Preparing' /\ Delivered' /\ Left' /\ Contents'
    <2>1. UNCHANGED <<fsVars, move, pc, k, result, faults, losses, moved>>
        BY <1>4 DEF vars
    <2>2. UNCHANGED <<content, shared, move, pc, moved>>
        BY <1>4 DEF vars
    <2>3. Contents'
        BY <1>1, <2>2 DEF Contents, ContentOf, HasMoved
    <2> QED
        BY <1>1, <2>1, <2>2, <2>3, StillnessKeeps
  <1>5. CASE PowerLoss /\ Sharing
      BY <1>1, <1>5, PowerLossKeeps DEF IInv
  <1> QED
      BY <1>1, <1>2, <1>3, <1>4, <1>5 DEF Next, Step, IInv

-----------------------------------------------------------------------------
(* The theorems.                                                           *)

\* There is no moved, unrecorded artifact: wherever the power is lost, one that
\* is found at its destination has all its sidecars.
THEOREM MovedMeansRecorded == Spec => []RecordsSurvive
  <1>1. IInv => RecordsSurvive
    <2> SUFFICES ASSUME IInv, NEW m \in Moves, NEW d \in Survivors,
                        HasRecords(m), HasMoved(m), ~shared[m], Latest(m),
                        d[move[m].to] = moved[m], NEW i \in 1 .. Len(Sidecars(m))
                 PROVE  Record(m) \in {d[At(m, i, "pending")], d[At(m, i, "final")]}
        BY DEF RecordsSurvive
    <2> QED
        BY DEF IInv, Delivered, DeliveredOf, RecordedOf, Mine, Last
  <1> QED
      BY <1>1, IInvInitially, IInvKept, PTL DEF Spec

\* A success that was reported outlives any power loss.
THEOREM SuccessStays == Spec => []SuccessIsDurable
  <1>1. IInv => SuccessIsDurable
    <2> SUFFICES ASSUME IInv, NEW m \in Moves, NEW d \in Survivors,
                        result[m] = "succeeded", HasRecords(m), ~shared[m], Latest(m)
                 PROVE  /\ d[move[m].to] = moved[m]
                        /\ \A i \in 1 .. Len(Sidecars(m)) : d[At(m, i, "final")] = Record(m)
        BY DEF SuccessIsDurable
    <2> QED
        BY DEF IInv, Delivered, DeliveredOf, DurableOf, Last
  <1> QED
      BY <1>1, IInvInitially, IInvKept, PTL DEF Spec

\* What a refused move wrote it has removed.
THEOREM RefusalLeavesNothing == Spec => []FailureLeavesNothing
  <1>1. IInv => FailureLeavesNothing
    <2> SUFFICES ASSUME IInv, NEW m \in Moves, result[m] = "failed", ~HasMoved(m), ~shared[m],
                        faults = 0, losses = 0,
                        NEW i \in 1 .. Len(Sidecars(m)), NEW stage \in Stages
                 PROVE  dir[At(m, i, stage)] # Record(m)
        BY DEF FailureLeavesNothing
    <2>1. ShapeOf(m) /\ LeftOf(m) /\ Grounded
        BY DEF IInv, Grounded, Shape, Left
    <2>2. pc[m] = "done" /\ move[m] \in Plans
        BY <2>1 DEF ShapeOf
    <2>3. By(m) = {}
        BY <2>1, <2>2 DEF LeftOf, Written
    <2>4. Record(m) \in Records /\ Record(m).by = m
        BY <2>2, RecordIsARecord DEF Record
    <2>5. i \in 1 .. Last(m) /\ Last(m) # 0
        BY <2>2, SidecarNames DEF Last
    <2>6. At(m, i, stage) \in SidePlaces
        BY <2>1, <2>2, <2>5, OperationPlaces
    <2> QED
        BY <2>3, <2>4, <2>6 DEF By
  <1> QED
      BY <1>1, IInvInitially, IInvKept, PTL DEF Spec

\* No archive verifies that was written to after its plan was sealed.
THEOREM VerifiedMeansSealed == Spec => []VerifiedIsSealed
  <1>1. IInv => VerifiedIsSealed
    <2> SUFFICES ASSUME IInv, NEW m \in Moves, HasMoved(m), ~shared[m], Latest(m),
                        move[m].kind = "archive", dir[move[m].to] = moved[m],
                        ArchiveIntegrity(move[m].to[1]) = "verified"
                 PROVE  content[move[m].thing] = move[m].content
        BY DEF VerifiedIsSealed
    <2>1. ShapeOf(m) /\ Grounded /\ FinalNamesOf(m) /\ ContentOf(m) /\ dir \in Survivors
        BY DEF IInv, Grounded, Shape, Delivered, DeliveredOf, Contents, Directories
    <2>2. pc[m] # "idle" /\ move[m] \in Plans
        BY <2>1 DEF ShapeOf, Steps
    <2>3. /\ Sidecars(m) = <<"archive-record", "archive-length", "archive-digest">>
          /\ Last(m) = 3 /\ HasRecords(m)
        BY <2>2 DEF Sidecars, SidecarsOf, Last, HasRecords
    <2>4. PICK e \in Dests : move[m].to = Vault(e) /\ move[m].to[1] = e
        BY <2>1, <2>2, PlacesDiffer DEF ShapeOf, Vaults
    <2> DEFINE digest == dir[Side(e, "archive-digest", "final")]
    <2>5. At(m, 3, "final") = Side(e, "archive-digest", "final")
        BY <2>3, <2>4 DEF At
    <2>6. digest \in {None, Record(m)}
        BY <2>1, <2>3, <2>5 DEF FinalNamesOf, Mine
    <2>7. /\ digest # None
          /\ <<dir[Vault(e)], content[dir[Vault(e)]]>> = <<digest.of, digest.content>>
        BY <2>4 DEF ArchiveIntegrity
    <2>8. dir[Vault(e)] = move[m].thing /\ content[dir[Vault(e)]] = move[m].digest
        BY <2>6, <2>7 DEF Record
    <2>9. move[m].digest = move[m].content
        BY <2>1, <2>2 DEF ContentOf
    <2> QED
        BY <2>8, <2>9
  <1> QED
      BY <1>1, IInvInitially, IInvKept, PTL DEF Spec
=============================================================================
