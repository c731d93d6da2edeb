------------------------- MODULE DeleteKernelProofs --------------------------
(***************************************************************************)
(* The safety of one deletion, for any number of concurrent deletions, any *)
(* number of inodes and any number of changes by the provider.             *)
(*                                                                         *)
(* The type invariant is not inductive alone: Seal stores the layout into  *)
(* a plan that only Bind made, so what each step may rely on (Shape) goes  *)
(* along with it.                                                          *)
(***************************************************************************)
EXTENDS DeleteKernel, TLAPS

-----------------------------------------------------------------------------
(* The inductive invariant, one operator per idea.                         *)

PlannedSteps == {"seal", "revalidate", "guard", "layout", "open", "recheck",
                 "parent", "confirm", "unlink", "corroborate"}
HeldSteps    == {"recheck", "parent", "confirm", "unlink", "corroborate"}

\* What a deletion has in hand at each of its steps.
ShapeOf(r) ==
    /\ pc[r] \in PlannedSteps => plan[r] \in Plans
    /\ pc[r] \in HeldSteps => fd[r] = plan[r].ino
    /\ pc[r] \in {"confirm", "unlink", "corroborate"} => dirfd[r] \in Dirs
    /\ removed[r] # {} => pc[r] \in {"corroborate", "done"} /\ plan[r] \in Plans
    /\ pc[r] = "corroborate" => removed[r] # {}
    /\ pc[r] # "done" => result[r] = "pending"
Shape == \A r \in Runs : ShapeOf(r)

\* A provider that ran ever since the plan was sealed still runs, and no
\* guarded deletion went past the process guard meanwhile.
GuardOf(r) ==
    /\ live[r] => running
    /\ live[r] => pc[r] \notin {"establish", "bind", "seal"}
    /\ live[r] /\ plan[r].guarded =>
          /\ removed[r] = {}
          /\ pc[r] \in {"revalidate", "guard", "done"}
Guarded == \A r \in Runs : GuardOf(r)

-----------------------------------------------------------------------------
(* Type correctness.                                                       *)

\* The invariant holds at the start.
LEMMA InitTypeOK == Init => TypeOK /\ Shape /\ Guarded
  <1> SUFFICES ASSUME Init PROVE TypeOK /\ Shape /\ Guarded
      OBVIOUS
  <1>1. TypeOK
      BY KernelAssumption DEF Init, TypeOK, Places, Dirs, Names, Objects, Steps,
                              Outcomes
  <1>2. Shape /\ Guarded
      BY DEF Init, Shape, ShapeOf, Guarded, GuardOf, PlannedSteps, HeldSteps
  <1> QED
      BY <1>1, <1>2

\* A step of the provider leaves the deletions' own variables alone.
LEMMA ProviderFrame ==
    Provider => UNCHANGED kernelVars /\ clock' = clock + 1 /\ Witness
  BY DEF Provider, Environment, Replace, Append, Remove, HardLink, Rename,
         Redirect, Drift, ProviderStartsOrStops

\* What the provider does keeps every variable in its type.
LEMMA ProviderTypeOK == TypeOK /\ Provider => TypeOK'
  <1> SUFFICES ASSUME TypeOK, Provider PROVE TypeOK'
      OBVIOUS
  <1>1. /\ pc' \in [Runs -> Steps]
        /\ approved' \in [Runs -> Dirs \cup {None}]
        /\ plan' \in [Runs -> Plans \cup {None}]
        /\ fd' \in [Runs -> Inodes \cup {None}]
        /\ dirfd' \in [Runs -> Dirs \cup {None}]
        /\ result' \in [Runs -> Outcomes]
        /\ removed' \in [Runs -> SUBSET [ino : Inodes, born : Nat, stamp : Nat]]
        /\ clock' \in Nat
      BY ProviderFrame DEF TypeOK, kernelVars
  <1>2. running' \in BOOLEAN
      BY DEF TypeOK, Provider, Environment, Replace, Append, Remove, HardLink,
             Rename, Redirect, Drift, ProviderStartsOrStops
  <1>3. /\ raced' \in [Runs -> BOOLEAN] 
        /\ touched' \in [Runs -> BOOLEAN]
        /\ live' \in [Runs -> BOOLEAN]
      BY <1>2, ProviderFrame DEF Witness, TypeOK
  <1>4. /\ entry' \in [Places -> Inodes \cup {None}]
        /\ obj' \in [Inodes -> Objects]
        /\ route' \in [root : Dirs, dir : Dirs, link : {"none", "root", "below"}]
        /\ layout' \in Nat
    <2>1. ASSUME NEW p \in Places, Replace(p) PROVE <1>4!:
        BY <1>1, <2>1 DEF TypeOK, Replace, Objects
    <2>2. ASSUME NEW p \in Places, Append(p) PROVE <1>4!:
        BY <1>1, <2>2 DEF TypeOK, Append, Objects
    <2>3. ASSUME NEW p \in Places, Remove(p) PROVE <1>4!:
        BY <2>3 DEF TypeOK, Remove
    <2>4. ASSUME NEW p \in Places, NEW q \in Places, HardLink(p, q) PROVE <1>4!:
        BY <2>4 DEF TypeOK, HardLink
    <2>5. ASSUME NEW p \in Places, NEW q \in Places, Rename(p, q) PROVE <1>4!:
        BY <2>5 DEF TypeOK, Rename
    <2>6. CASE Redirect
        BY <2>6 DEF TypeOK, Redirect, Dirs
    <2>7. CASE Drift
        BY <1>1, <2>7 DEF TypeOK, Drift
    <2>8. CASE ProviderStartsOrStops
        BY <2>8 DEF TypeOK, ProviderStartsOrStops
    <2> QED
        BY <2>1, <2>2, <2>3, <2>4, <2>5, <2>6, <2>7, <2>8 DEF Provider
  <1> QED
      BY <1>1, <1>2, <1>3, <1>4 DEF TypeOK

\* A lookup finds an inode or nothing.
LEMMA AtPathType ==
    TypeOK => \A n \in Names : AtPath(n) \in Inodes \cup {None}
  BY DEF TypeOK, AtPath, Places

\* So does every step of a deletion.
LEMMA DeleteTypeOK ==
    ASSUME NEW r \in Runs, TypeOK, Shape, Delete(r)
    PROVE  TypeOK'
  <1> USE KernelAssumption DEF TypeOK, fsVars, ghostVars, kernelVars, Goto, Finish,
                               Require, Steps, Outcomes
  <1>1. CASE Establish(r)
      BY <1>1 DEF Establish
  <1>2. CASE Bind(r)
    <2>1. \A n \in Names : AtPath(n) \in Inodes \cup {None}
        BY AtPathType
    <2>2. CASE plan' = plan
        BY <1>2, <2>2 DEF Bind
    <2>3. ASSUME NEW name \in Names, NEW guarded \in BOOLEAN, AtPath(name) # None
          PROVE  [name |-> name, ino |-> AtPath(name),
                  stamp |-> obj[AtPath(name)].stamp,
                  born |-> obj[AtPath(name)].born,
                  guarded |-> guarded, layout |-> None] \in Plans
        BY <2>1, <2>3 DEF Plans, Objects
    <2>4. {"session", "aside"} = Names
        BY DEF Names
    <2>5. plan' \in [Runs -> Plans \cup {None}]
        BY <1>2, <2>2, <2>3, <2>4 DEF Bind
    <2> QED
        BY <1>2, <2>5 DEF Bind
  <1>3. CASE Seal(r)
    <2>1. plan[r] \in Plans
        BY <1>3 DEF Seal, Shape, ShapeOf, PlannedSteps
    <2>2. \A seen \in ObservedLayouts : seen \in Layouts \cup {None}
        BY DEF ObservedLayouts, Layouts
    <2>3. \A seen \in ObservedLayouts : [plan[r] EXCEPT !.layout = seen] \in Plans
        BY <2>1, <2>2 DEF Plans
    <2>4. plan' \in [Runs -> Plans \cup {None}]
        BY <1>3, <2>3 DEF Seal
    <2> QED
        BY <1>3, <2>4 DEF Seal
  <1>4. CASE Revalidate(r)
      BY <1>4 DEF Revalidate
  <1>5. CASE ProcessGuard(r)
      BY <1>5 DEF ProcessGuard
  <1>6. CASE RevalidateLayout(r)
      BY <1>6 DEF RevalidateLayout
  <1>7. CASE Open(r)
    <2>1. plan[r] \in Plans
        BY <1>7 DEF Open, Shape, ShapeOf, PlannedSteps
    <2>2. Followed(plan[r].name) \in Inodes \cup {None}
        BY <2>1, AtPathType DEF Followed, Plans, Names
    <2> QED
        BY <1>7, <2>2 DEF Open
  <1>8. CASE Recheck(r)
      BY <1>8 DEF Recheck, Holding, Close
  <1>9. CASE BindParent(r)
      BY <1>9 DEF BindParent, Holding, Close
  <1>10. CASE Confirm(r)
      BY <1>10 DEF Confirm, Holding, Close
  <1>11. CASE Unlink(r)
    <2>1. plan[r] \in Plans /\ dirfd[r] \in Dirs
        BY <1>11 DEF Unlink, Shape, ShapeOf, PlannedSteps
    <2>2. Slot(r) \in Places
        BY <2>1 DEF Slot, Places, Plans
    <2>3. entry'[Slot(r)] \in Inodes \cup {None} /\ removed' \in
              [Runs -> SUBSET [ino : Inodes, born : Nat, stamp : Nat]]
        BY <1>11, <2>2 DEF Unlink, Objects
    <2> QED
        BY <1>11, <2>2, <2>3 DEF Unlink, Holding, Close
  <1>12. CASE Corroborate(r)
      BY <1>12 DEF Corroborate, Close
  <1> QED
      BY <1>1, <1>2, <1>3, <1>4, <1>5, <1>6, <1>7, <1>8, <1>9, <1>10, <1>11,
         <1>12 DEF Delete

-----------------------------------------------------------------------------
(* What each step has in hand.                                             *)

\* A step of one deletion leaves what another deletion holds alone.
LEMMA OtherRunsFrame ==
    ASSUME NEW r \in Runs, NEW s \in Runs, r # s, TypeOK, Delete(r)
    PROVE  /\ pc'[s] = pc[s] /\ approved'[s] = approved[s] /\ plan'[s] = plan[s]
           /\ fd'[s] = fd[s] /\ dirfd'[s] = dirfd[s] /\ result'[s] = result[s]
           /\ removed'[s] = removed[s] /\ raced'[s] = raced[s]
           /\ touched'[s] = touched[s] /\ live'[s] = live[s]
  <1> USE DEF TypeOK, fsVars, ghostVars, kernelVars, Goto, Finish, Require,
              Holding, Close
  <1>1. CASE Establish(r) \/ Bind(r) \/ Revalidate(r) \/ ProcessGuard(r)
      BY <1>1 DEF Establish, Bind, Revalidate, ProcessGuard
  <1>2. CASE Seal(r) \/ RevalidateLayout(r) \/ Open(r)
      BY <1>2 DEF Seal, RevalidateLayout, Open
  <1>3. CASE Recheck(r) \/ BindParent(r) \/ Confirm(r)
      BY <1>3 DEF Recheck, BindParent, Confirm
  <1>4. CASE Unlink(r) \/ Corroborate(r)
      BY <1>4 DEF Unlink, Corroborate
  <1> QED
      BY <1>1, <1>2, <1>3, <1>4 DEF Delete

\* Of the file system, a deletion changes only the entry it unlinks.
LEMMA DeleteFrame ==
    ASSUME NEW r \in Runs, TypeOK, Shape, Delete(r)
    PROVE  /\ UNCHANGED <<obj, route, layout, running, clock, raced, touched>>
           /\ \A p \in Places : entry'[p] \in {entry[p], None}
  <1> USE DEF TypeOK, fsVars, ghostVars
  <1>1. CASE Unlink(r)
    <2>1. plan[r] \in Plans /\ dirfd[r] \in Dirs
        BY <1>1 DEF Unlink, Shape, ShapeOf, PlannedSteps
    <2>2. Slot(r) \in Places
        BY <2>1 DEF Slot, Places, Plans
    <2> QED
        BY <1>1, <2>2 DEF Unlink
  <1>2. CASE ~Unlink(r)
      BY <1>2 DEF Delete, Establish, Bind, Seal, Revalidate, ProcessGuard,
                  RevalidateLayout, Open, Recheck, BindParent, Confirm,
                  Corroborate
  <1> QED
      BY <1>1, <1>2

\* Bind either refuses or makes a plan for the object it finds.
LEMMA BindEffect ==
    ASSUME NEW r \in Runs, TypeOK, Bind(r)
    PROVE  \/ Finish(r, "safely_skipped") /\ plan' = plan
           \/ /\ Goto(r, "seal")
              /\ \E q \in Plans :
                    /\ plan' = [plan EXCEPT ![r] = q]
                    /\ q.stamp = obj[q.ino].stamp
                    /\ q.born = obj[q.ino].born
  <1>1. CASE Finish(r, "safely_skipped") /\ plan' = plan
      BY <1>1
  <1>2. CASE ~(Finish(r, "safely_skipped") /\ plan' = plan)
    <2>1. PICK name \in Names, guarded \in BOOLEAN :
            /\ AtPath(name) # None
            /\ Goto(r, "seal")
            /\ plan' = [plan EXCEPT ![r] =
                 [name |-> name, ino |-> AtPath(name),
                  stamp |-> obj[AtPath(name)].stamp,
                  born |-> obj[AtPath(name)].born,
                  guarded |-> guarded, layout |-> None]]
        BY <1>2 DEF Bind, Names
    <2> DEFINE q == [name |-> name, ino |-> AtPath(name),
                     stamp |-> obj[AtPath(name)].stamp,
                     born |-> obj[AtPath(name)].born,
                     guarded |-> guarded, layout |-> None]
    <2>2. AtPath(name) \in Inodes
        BY <2>1, AtPathType
    <2>3. q \in Plans
        BY <2>2 DEF Plans, TypeOK, Objects
    <2>4. plan' = [plan EXCEPT ![r] = q] /\ q.ino = AtPath(name)
          /\ q.stamp = obj[AtPath(name)].stamp /\ q.born = obj[AtPath(name)].born
        BY <2>1
    <2> HIDE DEF q
    <2> QED
        BY <2>1, <2>3, <2>4
  <1> QED
      BY <1>1, <1>2

\* Seal changes nothing of the plan but the layout it expects.
LEMMA SealEffect ==
    ASSUME NEW r \in Runs, TypeOK, Shape, Seal(r)
    PROVE  /\ plan[r] \in Plans
           /\ \E q \in Plans :
                 /\ plan' = [plan EXCEPT ![r] = q]
                 /\ q.ino = plan[r].ino
                 /\ q.stamp = plan[r].stamp
                 /\ q.born = plan[r].born
                 /\ q.guarded = plan[r].guarded
  <1>1. plan[r] \in Plans
      BY DEF Seal, Shape, ShapeOf, PlannedSteps
  <1>2. PICK seen \in ObservedLayouts : plan' = [plan EXCEPT ![r].layout = seen]
      BY DEF Seal
  <1>3. seen \in Layouts \cup {None}
      BY <1>2 DEF ObservedLayouts, Layouts, TypeOK
  <1> DEFINE q == [plan[r] EXCEPT !.layout = seen]
  <1>4. q \in Plans /\ q.ino = plan[r].ino /\ q.stamp = plan[r].stamp
        /\ q.born = plan[r].born /\ q.guarded = plan[r].guarded
      BY <1>1, <1>3 DEF Plans
  <1>5. plan' = [plan EXCEPT ![r] = q]
      BY <1>2 DEF TypeOK
  <1> HIDE DEF q
  <1> QED
      BY <1>1, <1>4, <1>5

\* Unlink removes the entry that stands there, or fails when there is none.
LEMMA UnlinkEffect ==
    ASSUME NEW r \in Runs, TypeOK, Shape, Unlink(r)
    PROVE  /\ plan[r] \in Plans /\ Slot(r) \in Places
           /\ \/ /\ entry[Slot(r)] = None
                 /\ Finish(r, "failed")
                 /\ UNCHANGED <<entry, removed>>
              \/ /\ entry[Slot(r)] \in Inodes
                 /\ Goto(r, "corroborate")
                 /\ fd' = fd
                 /\ entry' = [entry EXCEPT ![Slot(r)] = None]
                 /\ \E x \in [ino : Inodes, born : Nat, stamp : Nat] :
                       /\ removed' = [removed EXCEPT ![r] = {x}]
                       /\ x.ino = entry[Slot(r)]
                       /\ x.born = obj[entry[Slot(r)]].born
                       /\ x.stamp = obj[entry[Slot(r)]].stamp
  <1>1. plan[r] \in Plans /\ dirfd[r] \in Dirs /\ removed[r] = {}
      BY DEF Unlink, Shape, ShapeOf, PlannedSteps
  <1>2. Slot(r) \in Places
      BY <1>1 DEF Slot, Places, Plans
  <1>3. CASE entry[Slot(r)] = None
      BY <1>1, <1>2, <1>3 DEF Unlink, Holding
  <1>4. CASE entry[Slot(r)] # None
    <2> DEFINE x == [ino |-> entry[Slot(r)], born |-> obj[entry[Slot(r)]].born,
                     stamp |-> obj[entry[Slot(r)]].stamp]
    <2>1. entry[Slot(r)] \in Inodes
        BY <1>2, <1>4 DEF TypeOK
    <2>2. x \in [ino : Inodes, born : Nat, stamp : Nat]
        BY <2>1 DEF TypeOK, Objects
    <2>3. removed[r] \cup {x} = {x}
        BY <1>1
    <2>4. removed' = [removed EXCEPT ![r] = {x}]
        BY <1>4, <2>3 DEF Unlink
    <2>5. Goto(r, "corroborate") /\ fd' = fd
          /\ entry' = [entry EXCEPT ![Slot(r)] = None]
        BY <1>4 DEF Unlink, Holding
    <2>6. x.ino = entry[Slot(r)] /\ x.born = obj[entry[Slot(r)]].born
          /\ x.stamp = obj[entry[Slot(r)]].stamp
        OBVIOUS
    <2> HIDE DEF x
    <2> QED
        BY <1>1, <1>2, <2>1, <2>2, <2>4, <2>5, <2>6
  <1> QED
      BY <1>3, <1>4

\* A step of a deletion leaves every deletion with what its next step needs in
\* hand: a plan, a descriptor, a directory.
LEMMA DeleteShape ==
    ASSUME NEW r \in Runs, TypeOK, Shape, Delete(r), TypeOK'
    PROVE  Shape'
  <1>1. \A s \in Runs \ {r} : ShapeOf(s)'
      BY OtherRunsFrame DEF Shape, ShapeOf
  <1>2. Bind(r) => \/ /\ result'[r] = result[r]
                      /\ pc'[r] = "seal"
                      /\ plan'[r] \in Plans
                   \/ pc'[r] = "done" /\ plan'[r] = plan[r]
    <2> SUFFICES ASSUME Bind(r) PROVE <1>2!2
        OBVIOUS
    <2>1. CASE Finish(r, "safely_skipped") /\ plan' = plan
        BY <2>1 DEF Finish, TypeOK
    <2>2. CASE Goto(r, "seal") /\ \E q \in Plans : plan' = [plan EXCEPT ![r] = q]
        BY <2>2 DEF Goto, TypeOK
    <2> QED
        BY <2>1, <2>2, BindEffect
  <1>3. Seal(r) => plan'[r] \in Plans
    <2> SUFFICES ASSUME Seal(r) PROVE plan'[r] \in Plans
        OBVIOUS
    <2>1. \E q \in Plans : plan' = [plan EXCEPT ![r] = q]
        BY SealEffect
    <2> QED
        BY <2>1 DEF TypeOK
  <1>4. Unlink(r) => \/ pc'[r] = "done" /\ removed'[r] = removed[r]
                     \/ /\ pc'[r] = "corroborate"
                        /\ removed'[r] # {}
                        /\ fd'[r] = fd[r]
                        /\ result'[r] = result[r]
    <2> SUFFICES ASSUME Unlink(r) PROVE <1>4!2
        OBVIOUS
    <2>1. CASE Finish(r, "failed") /\ UNCHANGED <<entry, removed>>
        BY <2>1 DEF Finish, TypeOK
    <2>2. CASE /\ Goto(r, "corroborate")
               /\ fd' = fd
               /\ \E x \in [ino : Inodes, born : Nat, stamp : Nat] :
                     removed' = [removed EXCEPT ![r] = {x}]
        BY <2>2 DEF Goto, TypeOK
    <2> QED
        BY <2>1, <2>2, UnlinkEffect
  <1>5. ShapeOf(r)'
    <2> USE DEF TypeOK, fsVars, ghostVars, kernelVars, Goto, Finish, Require,
                PlannedSteps, HeldSteps
    <2> DEFINE Kept == ShapeOf(r)
    <2>0. Kept
        BY DEF Shape
    <2> USE DEF ShapeOf
    <2>1. CASE Establish(r)
        BY <2>0, <2>1 DEF Establish
    <2>2. CASE Bind(r)
        BY <2>0, <2>2, <1>2 DEF Bind
    <2>3. CASE Seal(r)
        BY <2>0, <2>3, <1>3 DEF Seal
    <2>4. CASE Revalidate(r)
        BY <2>0, <2>4 DEF Revalidate
    <2>5. CASE ProcessGuard(r)
        BY <2>0, <2>5 DEF ProcessGuard
    <2>6. CASE RevalidateLayout(r)
        BY <2>0, <2>6 DEF RevalidateLayout
    <2>7. CASE Open(r)
        BY <2>0, <2>7 DEF Open, StillAt
    <2>8. CASE Recheck(r)
        BY <2>0, <2>8 DEF Recheck, Holding
    <2>9. CASE BindParent(r)
        BY <2>0, <2>9 DEF BindParent, Holding
    <2>10. CASE Confirm(r)
        BY <2>0, <2>10 DEF Confirm, Holding
    <2>11. CASE Unlink(r)
      <3>1. plan' = plan /\ dirfd' = dirfd /\ pc[r] = "unlink"
          BY <2>11 DEF Unlink
      <3> QED
          BY <2>0, <2>11, <1>4, <3>1
    <2>12. CASE Corroborate(r)
        BY <2>0, <2>12 DEF Corroborate
    <2> QED
        BY <2>1, <2>2, <2>3, <2>4, <2>5, <2>6, <2>7, <2>8, <2>9, <2>10, <2>11,
           <2>12 DEF Delete
  <1> QED
      BY <1>1, <1>5 DEF Shape

\* The provider takes none of that away.
LEMMA ProviderShape == TypeOK /\ Shape /\ Guarded /\ Provider => Shape' /\ Guarded'
  <1> SUFFICES ASSUME TypeOK, Shape, Guarded, Provider PROVE Shape' /\ Guarded'
      OBVIOUS
  <1>1. Shape'
      BY ProviderFrame DEF kernelVars, Shape, ShapeOf
  <1>2. \A r \in Runs : live'[r] => live[r] /\ running'
      BY ProviderFrame DEF Witness, TypeOK
  <1>3. Guarded'
      BY <1>2, ProviderFrame DEF kernelVars, Guarded, GuardOf
  <1> QED
      BY <1>1, <1>3

\* A deletion passes its process guard only when no provider is running.
LEMMA DeleteGuarded ==
    ASSUME NEW r \in Runs, TypeOK, Shape, Guarded, Delete(r)
    PROVE  Guarded'
  <1>1. running' = running
      BY DeleteFrame
  <1>2. \A s \in Runs \ {r} : GuardOf(s)'
      BY <1>1, OtherRunsFrame DEF Guarded, GuardOf
  <1>3. CASE Seal(r)
    <2>1. removed'[r] = {} /\ pc'[r] = "revalidate" /\ live'[r] = running
        BY <1>3 DEF Seal, Goto, Shape, ShapeOf, TypeOK, PlannedSteps
    <2>2. GuardOf(r)'
        BY <1>1, <2>1 DEF GuardOf
    <2> QED
        BY <1>2, <2>2 DEF Guarded
  <1>4. CASE Establish(r) \/ Bind(r)
    <2>1. live[r] = FALSE /\ live' = live
        BY <1>4 DEF Establish, Bind, ghostVars, Guarded, GuardOf, TypeOK
    <2>2. GuardOf(r)'
        BY <1>1, <2>1 DEF GuardOf
    <2> QED
        BY <1>2, <2>2 DEF Guarded
  <1>5. CASE Revalidate(r) \/ ProcessGuard(r)
    <2>1. /\ live' = live /\ plan' = plan /\ removed' = removed
          /\ pc'[r] \in {"guard", "layout", "done"}
          /\ pc'[r] = "layout" => (plan[r].guarded => ~running)
        BY <1>5 DEF Revalidate, ProcessGuard, Require, Goto, Finish, ghostVars,
                    TypeOK
    <2>2. GuardOf(r)'
        BY <1>1, <2>1 DEF GuardOf, Guarded
    <2> QED
        BY <1>2, <2>2 DEF Guarded
  <1>6. CASE \/ RevalidateLayout(r) \/ Open(r) \/ Recheck(r) \/ BindParent(r)
             \/ Confirm(r) \/ Unlink(r) \/ Corroborate(r)
    <2>1. /\ live' = live /\ plan' = plan
          /\ pc[r] \notin {"establish", "bind", "seal", "revalidate", "guard", "done"}
        BY <1>6 DEF RevalidateLayout, Open, Recheck, BindParent, Confirm, Unlink,
                    Corroborate, ghostVars
    <2>2. pc'[r] \notin {"establish", "bind", "seal"}
        BY <1>6 DEF RevalidateLayout, Open, Recheck, BindParent, Confirm, Unlink,
                    Corroborate, Require, Holding, Goto, Finish, TypeOK
    <2>3. GuardOf(r)'
        BY <1>1, <2>1, <2>2 DEF GuardOf, Guarded
    <2> QED
        BY <1>2, <2>3 DEF Guarded
  <1> QED
      BY <1>3, <1>4, <1>5, <1>6 DEF Delete

\* The inductive part the two theorems below share.
LEMMA CoreInvariant == Spec => [](TypeOK /\ Shape /\ Guarded)
  <1>1. TypeOK /\ Shape /\ Guarded /\ [Next]_vars => (TypeOK /\ Shape /\ Guarded)'
      <2> SUFFICES ASSUME TypeOK, Shape, Guarded, [Next]_vars
                   PROVE  (TypeOK /\ Shape /\ Guarded)'
          OBVIOUS
      <2>1. CASE UNCHANGED vars
        <3>1. TypeOK'
            BY <2>1 DEF TypeOK, vars, fsVars, kernelVars, ghostVars
        <3>2. Shape' /\ Guarded'
            BY <2>1 DEF Shape, ShapeOf, Guarded, GuardOf, vars, fsVars, kernelVars,
                        ghostVars
        <3> QED
            BY <3>1, <3>2
      <2>2. CASE Provider
          BY <2>2, ProviderTypeOK, ProviderShape
      <2>3. ASSUME NEW r \in Runs, Delete(r) PROVE (TypeOK /\ Shape /\ Guarded)'
          BY <2>3, DeleteTypeOK, DeleteShape, DeleteGuarded
      <2> QED
          BY <2>1, <2>2, <2>3 DEF Next
  <1> QED
      BY InitTypeOK, <1>1, PTL DEF Spec

\* Every variable keeps its type: no step leaves a descriptor, a plan or an
\* outcome that the code has no value for.
THEOREM TypeCorrect == Spec => []TypeOK
  BY CoreInvariant, PTL

\* No guarded deletion unlinks anything while the provider's process has been
\* running ever since the plan was sealed (mutation_executor.rs 160-169).
THEOREM ProviderIsLeftAlone == Spec => []LiveProviderUntouched
  <1>1. TypeOK /\ Shape /\ Guarded => LiveProviderUntouched
      BY DEF Guarded, GuardOf, LiveProviderUntouched, TypeOK
  <1> QED
      BY CoreInvariant, <1>1, PTL

-----------------------------------------------------------------------------
(* What a deletion may remove.  The argument:                              *)
(*                                                                         *)
(*   Clocks    nothing is younger than the clock, so what the provider     *)
(*             creates or writes next differs from every sealed plan;      *)
(*   Identity  an inode number that was given to another object since the  *)
(*             plan was sealed carries a later modification time, so the   *)
(*             open-time check finds the planned object or nothing, and    *)
(*             the open descriptor keeps its number from being reused;     *)
(*   Window    between fstatat and unlinkat, only the provider can put     *)
(*             another object, or another name, where the check looked;    *)
(*   Removal   what was unlinked, and what is left of it.                  *)

Clocks ==
    /\ \A i \in Inodes : obj[i].born <= obj[i].stamp /\ obj[i].stamp <= clock
    /\ \A r \in Runs : plan[r] \in Plans =>
          plan[r].born <= clock /\ plan[r].stamp <= clock

IdentityOf(r) ==
    /\ plan[r] \in Plans =>
          \/ obj[plan[r].ino].born = plan[r].born
          \/ obj[plan[r].ino].stamp > plan[r].stamp
    /\ pc[r] \in HeldSteps => obj[plan[r].ino].born = plan[r].born
    /\ pc[r] \in {"parent", "confirm", "unlink"} /\ ~touched[r] =>
          obj[plan[r].ino].stamp = plan[r].stamp

WindowOf(r) ==
    pc[r] = "unlink" /\ ~raced[r] =>
        /\ entry[Slot(r)] \in {plan[r].ino, None}
        /\ \A p \in Places : entry[p] = plan[r].ino => p = Slot(r)

RemovalOf(r) ==
    /\ ~raced[r] => \A x \in removed[r] : Object(x) = Planned(r)
    /\ ~raced[r] /\ ~touched[r] => \A x \in removed[r] : x.stamp = plan[r].stamp
    /\ removed[r] # {} /\ ~raced[r] => PlannedIsGone(r)
    /\ result[r] = "safely_skipped" => removed[r] = {}
    /\ result[r] = "succeeded" => removed[r] # {} /\ PlannedIsGone(r)
    /\ result[r] = "failed" /\ removed[r] # {} => raced[r]
    /\ result[r] = "unknown" => removed[r] # {}

Rivals ==
    \A r, s \in Runs :
        /\ r # s
        /\ removed[r] # {} /\ ~raced[r]
        /\ removed[s] # {} /\ ~raced[s]
        => Planned(r) # Planned(s)

Safe == \A r \in Runs : IdentityOf(r) /\ WindowOf(r) /\ RemovalOf(r)
Core == TypeOK /\ Shape
IInv == Core /\ Clocks /\ Safe /\ Rivals

-----------------------------------------------------------------------------
(* The provider.                                                           *)

\* What the provider does to the objects and to the entries, in one formula:
\* an object is left alone, written to, or made anew from a free number, and
\* an entry then holds nothing, an object that had a name, or a new one.
LEMMA ProviderEffect ==
    ASSUME TypeOK, Provider
    PROVE  /\ \A i \in Inodes :
                 \/ obj'[i] = obj[i]
                 \/ obj'[i].born = obj[i].born /\ obj'[i].stamp = clock'
                 \/ Free(i) /\ obj'[i].born = clock' /\ obj'[i].stamp = clock'
           /\ \A p \in Places :
                 \/ entry'[p] = None
                 \/ \E q \in Places : entry'[p] = entry[q]
                 \/ entry'[p] \in Inodes /\ obj'[entry'[p]].born = clock'
  <1> DEFINE Goal ==
        /\ \A i \in Inodes :
              \/ obj'[i] = obj[i]
              \/ obj'[i].born = obj[i].born /\ obj'[i].stamp = clock'
              \/ Free(i) /\ obj'[i].born = clock' /\ obj'[i].stamp = clock'
        /\ \A p \in Places :
              \/ entry'[p] = None
              \/ \E q \in Places : entry'[p] = entry[q]
              \/ entry'[p] \in Inodes /\ obj'[entry'[p]].born = clock'
  <1>1. ASSUME NEW p \in Places, Replace(p) PROVE Goal
    <2>1. PICK i \in Inodes, k \in {"file", "symlink"} :
            /\ Free(i)
            /\ entry' = [entry EXCEPT ![p] = i]
            /\ obj' = [obj EXCEPT ![i] =
                          [born |-> clock', stamp |-> clock', kind |-> k]]
        BY <1>1 DEF Replace
    <2>2. \A j \in Inodes : j # i => obj'[j] = obj[j]
        BY <2>1 DEF TypeOK
    <2>3. obj'[i].born = clock' /\ obj'[i].stamp = clock'
        BY <2>1 DEF TypeOK
    <2>4. \A q \in Places : entry'[q] = entry[q] \/ entry'[q] = i
        BY <2>1 DEF TypeOK
    <2> QED
        BY <2>1, <2>2, <2>3, <2>4
  <1>2. ASSUME NEW p \in Places, Append(p) PROVE Goal
    <2>1. entry[p] \in Inodes /\ entry' = entry
        BY <1>2 DEF Append, TypeOK
    <2>2. \A j \in Inodes : j # entry[p] => obj'[j] = obj[j]
        BY <1>2, <2>1 DEF Append, TypeOK
    <2>3. obj'[entry[p]].born = obj[entry[p]].born /\ obj'[entry[p]].stamp = clock'
        BY <1>2, <2>1 DEF Append, TypeOK, Objects
    <2> QED
        BY <2>1, <2>2, <2>3
  <1>3. ASSUME NEW p \in Places, Remove(p) PROVE Goal
      BY <1>3 DEF Remove, TypeOK
  <1>4. ASSUME NEW p \in Places, NEW q \in Places, HardLink(p, q) \/ Rename(p, q)
        PROVE  Goal
      BY <1>4 DEF HardLink, Rename, TypeOK
  <1>5. CASE Redirect \/ Drift \/ ProviderStartsOrStops
      BY <1>5 DEF Redirect, Drift, ProviderStartsOrStops
  <1> QED
      BY <1>1, <1>2, <1>3, <1>4, <1>5 DEF Provider

\* What the provider makes or writes is younger than all there was.
LEMMA ProviderClocks == Core /\ Clocks /\ Provider => Clocks'
  <1> SUFFICES ASSUME Core, Clocks, Provider PROVE Clocks'
      OBVIOUS
  <1> USE DEF Core
  <1>1. clock \in Nat /\ clock' = clock + 1 /\ plan' = plan
      BY ProviderFrame DEF TypeOK, kernelVars
  <1>2. ASSUME NEW i \in Inodes
        PROVE  obj'[i].born <= obj'[i].stamp /\ obj'[i].stamp <= clock'
    <2>1. obj[i].born \in Nat /\ obj[i].stamp \in Nat
        BY DEF TypeOK, Objects
    <2> QED
        BY <1>1, <2>1, ProviderEffect DEF Clocks
  <1>3. ASSUME NEW r \in Runs, plan'[r] \in Plans
        PROVE  plan'[r].born <= clock' /\ plan'[r].stamp <= clock'
    <2>1. plan[r].born \in Nat /\ plan[r].stamp \in Nat
        BY <1>1, <1>3 DEF Plans
    <2> QED
        BY <1>1, <1>3, <2>1 DEF Clocks
  <1> QED
      BY <1>2, <1>3 DEF Clocks

\* A number the provider reuses belongs to a later object.
LEMMA ProviderIdentity ==
    ASSUME Core, Clocks, Provider, NEW r \in Runs, IdentityOf(r)
    PROVE  IdentityOf(r)'
  <1> USE DEF Core
  <1> DEFINE i == plan[r].ino
  <1>1. clock \in Nat /\ clock' = clock + 1 /\ plan' = plan /\ pc' = pc /\ fd' = fd
      BY ProviderFrame DEF TypeOK, kernelVars
  <1>2. CASE plan[r] \notin Plans
      BY <1>1, <1>2 DEF IdentityOf, Shape, ShapeOf, PlannedSteps, HeldSteps
  <1>3. CASE plan[r] \in Plans
    <2>1. /\ i \in Inodes /\ plan[r].stamp \in Nat /\ plan[r].born \in Nat
          /\ plan[r].stamp <= clock
        BY <1>3 DEF Plans, Clocks
    <2>2. /\ obj[i].stamp \in Nat /\ obj[i].born \in Nat
        BY <2>1 DEF TypeOK, Objects
    <2>3. \/ obj'[i] = obj[i]
          \/ obj'[i].born = obj[i].born /\ obj'[i].stamp = clock'
          \/ Free(i) /\ obj'[i].born = clock' /\ obj'[i].stamp = clock'
        BY <2>1, ProviderEffect
    <2>4. obj'[i].born = plan[r].born \/ obj'[i].stamp > plan[r].stamp
        BY <1>1, <1>3, <2>1, <2>2, <2>3 DEF IdentityOf
    <2>5. ASSUME pc[r] \in HeldSteps PROVE obj'[i].born = plan[r].born
      <3>1. fd[r] = i
          BY <2>5 DEF Shape, ShapeOf
      <3> QED
          BY <2>3, <2>5, <3>1 DEF IdentityOf, Free
    <2>6. ASSUME pc[r] \in {"parent", "confirm", "unlink"}, ~touched'[r]
          PROVE  obj'[i].stamp = plan[r].stamp
      <3>1. fd[r] = i
          BY <2>6 DEF Shape, ShapeOf, HeldSteps
      <3>2. ~touched[r] /\ obj'[fd[r]].stamp = obj[fd[r]].stamp
          BY <2>6, ProviderFrame DEF Witness, TypeOK
      <3> QED
          BY <2>6, <3>1, <3>2 DEF IdentityOf
    <2> QED
        BY <1>1, <2>4, <2>5, <2>6 DEF IdentityOf
  <1> QED
      BY <1>2, <1>3

\* What the provider does to an entry in a last window, the ghosts record.
LEMMA ProviderWindow ==
    ASSUME Core, Provider, NEW r \in Runs, WindowOf(r)
    PROVE  WindowOf(r)'
  <1> SUFFICES ASSUME pc'[r] = "unlink", ~raced'[r]
               PROVE  /\ entry'[Slot(r)'] \in {plan'[r].ino, None}
                      /\ \A p \in Places : entry'[p] = plan'[r].ino => p = Slot(r)'
      BY DEF WindowOf
  <1> USE DEF Core
  <1>1. plan' = plan /\ pc' = pc /\ dirfd' = dirfd
      BY ProviderFrame DEF kernelVars
  <1>2. Slot(r)' = Slot(r) /\ fd[r] = plan[r].ino
      BY <1>1 DEF Slot, Shape, ShapeOf, HeldSteps
  <1>3. /\ ~raced[r]
        /\ entry'[Slot(r)] = entry[Slot(r)]
        /\ {p \in Places : entry'[p] = fd[r]} = Links(fd[r])
      BY <1>1, ProviderFrame DEF Witness, TypeOK
  <1>4. \A p \in Places : entry'[p] = fd[r] => entry[p] = fd[r]
      BY <1>3 DEF Links
  <1> QED
      BY <1>1, <1>2, <1>3, <1>4 DEF WindowOf

\* A name the provider gives to an object never brings the planned one back.
LEMMA ProviderKeepsGone ==
    ASSUME Core, Clocks, Provider, NEW r \in Runs, plan[r] \in Plans,
           PlannedIsGone(r)
    PROVE  PlannedIsGone(r)'
  <1> USE DEF Core
  <1> DEFINE i == plan[r].ino
  <1>1. clock \in Nat /\ clock' = clock + 1 /\ plan' = plan
      BY ProviderFrame DEF TypeOK, kernelVars
  <1>2. i \in Inodes /\ plan[r].born \in Nat /\ plan[r].born <= clock
      BY DEF Plans, Clocks
  <1>3. ASSUME NEW p \in Places, entry'[p] = i PROVE obj'[i].born # plan[r].born
    <2>1. i # None
        BY <1>2, KernelAssumption
    <2>2. CASE obj'[i].born = clock'
        BY <1>1, <1>2, <2>2
    <2>3. CASE obj'[i].born # clock'
      <3>1. obj'[i].born = obj[i].born
          BY <1>2, <2>3, ProviderEffect
      <3>2. PICK q \in Places : entry[q] = i
          BY <1>3, <2>1, <2>3, ProviderEffect
      <3> QED
          BY <3>1, <3>2 DEF PlannedIsGone
    <2> QED
        BY <2>2, <2>3
  <1> QED
      BY <1>1, <1>3 DEF PlannedIsGone

\* What a deletion removed, and what it reports, stays explained.
LEMMA ProviderRemoval ==
    ASSUME Core, Clocks, Provider, NEW r \in Runs, RemovalOf(r)
    PROVE  RemovalOf(r)'
  <1>1. plan' = plan /\ pc' = pc /\ removed' = removed /\ result' = result
      BY ProviderFrame DEF kernelVars
  <1>2. (raced[r] => raced'[r]) /\ (touched[r] => touched'[r])
      BY ProviderFrame DEF Witness, Core, TypeOK
  <1>3. PlannedIsGone(r) /\ plan[r] \in Plans => PlannedIsGone(r)'
      BY ProviderKeepsGone
  <1>4. removed[r] # {} => plan[r] \in Plans
      BY DEF Core, Shape, ShapeOf
  <1>5. Planned(r)' = Planned(r)
      BY <1>1 DEF Planned
  <1> QED
      BY <1>1, <1>2, <1>3, <1>4, <1>5 DEF RemovalOf

\* Every part of the invariant survives a step of the provider.
LEMMA ProviderSafe == IInv /\ Provider => (Clocks /\ Safe /\ Rivals)'
  <1> SUFFICES ASSUME IInv, Provider PROVE (Clocks /\ Safe /\ Rivals)'
      OBVIOUS
  <1>1. Clocks'
      BY ProviderClocks DEF IInv
  <1>2. Safe'
      BY ProviderIdentity, ProviderWindow, ProviderRemoval DEF IInv, Safe
  <1>3. Rivals'
    <2>1. plan' = plan /\ removed' = removed
        BY ProviderFrame DEF kernelVars
    <2>2. \A r \in Runs : raced[r] => raced'[r]
        BY ProviderFrame DEF Witness, IInv, Core, TypeOK
    <2> QED
        BY <2>1, <2>2 DEF IInv, Rivals, Planned
  <1> QED
      BY <1>1, <1>2, <1>3

-----------------------------------------------------------------------------
(* The deletions.                                                          *)

\* A deletion makes nothing, so nothing gets younger than the clock.
LEMMA DeleteClocks ==
    ASSUME Core, Clocks, NEW r \in Runs, Delete(r)
    PROVE  Clocks'
  <1> USE DEF Core
  <1>1. UNCHANGED <<obj, clock>>
      BY DeleteFrame
  <1>2. ASSUME NEW s \in Runs, plan'[s] \in Plans
        PROVE  plan'[s].born <= clock /\ plan'[s].stamp <= clock
    <2>1. CASE plan'[s] = plan[s]
        BY <1>2, <2>1 DEF Clocks
    <2>2. CASE plan'[s] # plan[s]
      <3>1. s = r
          BY <2>2, OtherRunsFrame
      <3>2. CASE Bind(r)
        <4>1. PICK q \in Plans : /\ plan' = [plan EXCEPT ![r] = q]
                                 /\ q.stamp = obj[q.ino].stamp
                                 /\ q.born = obj[q.ino].born
            BY <2>2, <3>2, BindEffect
        <4>2. q.ino \in Inodes /\ plan'[s] = q
            BY <3>1, <4>1 DEF Plans, TypeOK
        <4>3. obj[q.ino].born \in Nat /\ obj[q.ino].stamp \in Nat /\ clock \in Nat
            BY <4>2 DEF TypeOK, Objects
        <4> QED
            BY <4>1, <4>2, <4>3 DEF Clocks
      <3>3. CASE Seal(r)
        <4>1. PICK q \in Plans : /\ plan' = [plan EXCEPT ![r] = q]
                                 /\ q.stamp = plan[r].stamp
                                 /\ q.born = plan[r].born
                                 /\ plan[r] \in Plans
            BY <3>3, SealEffect
        <4>2. plan'[s] = q
            BY <3>1, <4>1 DEF TypeOK
        <4> QED
            BY <4>1, <4>2 DEF Clocks
      <3>4. CASE ~Bind(r) /\ ~Seal(r)
          BY <2>2, <3>4 DEF Delete, Establish, Revalidate, ProcessGuard,
                            RevalidateLayout, Open, Recheck, BindParent, Confirm,
                            Unlink, Corroborate
      <3> QED
          BY <3>2, <3>3, <3>4
    <2> QED
        BY <2>1, <2>2
  <1> QED
      BY <1>1, <1>2 DEF Clocks

\* A plan, a check and a descriptor speak of one object.
LEMMA DeleteIdentity ==
    ASSUME Core, Clocks, NEW r \in Runs, Delete(r), IdentityOf(r)
    PROVE  IdentityOf(r)'
  <1> USE DEF Core
  <1>1. UNCHANGED <<obj, touched>>
      BY DeleteFrame
  <1>2. CASE Establish(r)
    <2>1. plan' = plan /\ pc'[r] \in {"bind", "done"}
        BY <1>2 DEF Establish, Goto, Finish, TypeOK
    <2> QED
        BY <1>1, <2>1 DEF IdentityOf, HeldSteps
  <1>3. CASE Bind(r)
    <2>1. CASE Finish(r, "safely_skipped") /\ plan' = plan
        BY <1>1, <2>1 DEF Finish, TypeOK, IdentityOf, HeldSteps
    <2>2. ASSUME Goto(r, "seal"),
                 NEW q \in Plans,
                 plan' = [plan EXCEPT ![r] = q],
                 q.stamp = obj[q.ino].stamp,
                 q.born = obj[q.ino].born
          PROVE  IdentityOf(r)'
      <3>1. plan'[r] = q /\ pc'[r] = "seal"
          BY <2>2 DEF TypeOK, Goto
      <3> QED
          BY <1>1, <2>2, <3>1 DEF IdentityOf, HeldSteps
    <2> QED
        BY <1>3, <2>1, <2>2, BindEffect
  <1>4. CASE Seal(r)
    <2>1. PICK q \in Plans : /\ plan' = [plan EXCEPT ![r] = q]
                             /\ q.ino = plan[r].ino
                             /\ q.stamp = plan[r].stamp
                             /\ q.born = plan[r].born
                             /\ plan[r] \in Plans
        BY <1>4, SealEffect
    <2>2. plan'[r] = q /\ pc'[r] = "revalidate"
        BY <1>4, <2>1 DEF TypeOK, Seal, Goto
    <2> QED
        BY <1>1, <2>1, <2>2 DEF IdentityOf, HeldSteps
  <1>5. CASE Revalidate(r) \/ ProcessGuard(r) \/ RevalidateLayout(r)
    <2>1. plan' = plan /\ pc'[r] \in {"guard", "layout", "open", "done"}
        BY <1>5 DEF Revalidate, ProcessGuard, RevalidateLayout, Require, Goto,
                    Finish, TypeOK
    <2> QED
        BY <1>1, <2>1 DEF IdentityOf, HeldSteps
  <1>6. CASE Open(r)
    <2>1. plan' = plan /\ plan[r] \in Plans
        BY <1>6 DEF Open, Shape, ShapeOf, PlannedSteps
    <2>2. \/ pc'[r] = "done"
          \/ pc'[r] = "recheck" /\ obj[plan[r].ino].stamp = plan[r].stamp
        BY <1>6 DEF Open, StillAt, Goto, Finish, TypeOK
    <2>3. obj[plan[r].ino].stamp \in Nat /\ plan[r].stamp \in Nat
        BY <2>1 DEF Plans, TypeOK, Objects
    <2> QED
        BY <1>1, <2>1, <2>2, <2>3 DEF IdentityOf, HeldSteps
  <1>7. CASE Recheck(r)
    <2>1. /\ plan' = plan /\ pc[r] = "recheck"
          /\ \/ pc'[r] = "done"
             \/ pc'[r] = "parent" /\ obj[plan[r].ino].stamp = plan[r].stamp
        BY <1>7 DEF Recheck, Holding, StillAt, Goto, Finish, TypeOK
    <2> QED
        BY <1>1, <2>1 DEF IdentityOf, HeldSteps
  <1>8. CASE BindParent(r) \/ Confirm(r) \/ Unlink(r) \/ Corroborate(r)
    <2>1. /\ plan' = plan
          /\ pc[r] \in HeldSteps
          /\ pc'[r] \in {"confirm", "unlink"} => pc[r] \in {"parent", "confirm"}
          /\ pc'[r] # "parent"
        BY <1>8 DEF BindParent, Confirm, Unlink, Corroborate, Holding, Goto, Finish,
                    TypeOK, HeldSteps
    <2> QED
        BY <1>1, <2>1 DEF IdentityOf, HeldSteps
  <1> QED
      BY <1>2, <1>3, <1>4, <1>5, <1>6, <1>7, <1>8 DEF Delete

\* Between fstatat and unlinkat the entry is the one that was looked at.
LEMMA DeleteWindow ==
    ASSUME Core, NEW r \in Runs, Delete(r), WindowOf(r)
    PROVE  WindowOf(r)'
  <1> USE DEF Core
  <1>1. CASE Confirm(r)
    <2>1. CASE pc'[r] = "done"
        BY <2>1 DEF WindowOf
    <2>2. CASE pc'[r] # "done"
      <3>1. /\ entry[Slot(r)] = plan[r].ino /\ SoleLink(plan[r].ino)
            /\ UNCHANGED <<entry, plan, dirfd>>
          BY <1>1, <2>2 DEF Confirm, Holding, Finish, TypeOK, fsVars
      <3>2. plan[r] \in Plans /\ dirfd[r] \in Dirs
          BY <1>1 DEF Confirm, Shape, ShapeOf, PlannedSteps
      <3>3. Slot(r) \in Places
          BY <3>2 DEF Slot, Plans, Places
      <3>4. \A p \in Places : entry[p] = plan[r].ino => p = Slot(r)
          BY <3>1, <3>3 DEF SoleLink, Links
      <3> QED
          BY <3>1, <3>4 DEF WindowOf, Slot
    <2> QED
        BY <2>1, <2>2
  <1>2. CASE ~Confirm(r)
    <2>1. pc'[r] # "unlink"
        BY <1>2 DEF Delete, Establish, Bind, Seal, Revalidate, ProcessGuard,
                    RevalidateLayout, Open, Recheck, BindParent, Unlink,
                    Corroborate, Require, Holding, Goto, Finish, TypeOK
    <2> QED
        BY <2>1 DEF WindowOf
  <1> QED
      BY <1>1, <1>2

\* A deletion, of whatever object, gives no name back.
LEMMA DeleteKeepsGone ==
    ASSUME Core, NEW r \in Runs, Delete(r), NEW s \in Runs,
           plan[s] \in Plans, PlannedIsGone(s), plan'[s] = plan[s]
    PROVE  PlannedIsGone(s)'
  <1>1. plan[s].ino # None
      BY KernelAssumption DEF Plans
  <1>2. obj' = obj /\ \A p \in Places : entry'[p] \in {entry[p], None}
      BY DeleteFrame DEF Core
  <1> QED
      BY <1>1, <1>2 DEF PlannedIsGone

\* A removal is of the planned object, and the report follows from it.
LEMMA DeleteRemoval ==
    ASSUME Core, Clocks, NEW r \in Runs, Delete(r),
           IdentityOf(r), WindowOf(r), RemovalOf(r)
    PROVE  RemovalOf(r)'
  <1> USE DEF Core
  <1>1. UNCHANGED <<obj, raced, touched>>
      BY DeleteFrame
  <1>2. CASE Unlink(r)
    <2>1. /\ plan' = plan /\ pc[r] = "unlink" /\ plan[r] \in Plans
          /\ removed[r] = {} /\ Slot(r) \in Places /\ result[r] = "pending"
        BY <1>2, UnlinkEffect DEF Unlink, Shape, ShapeOf
    <2>2. CASE Finish(r, "failed") /\ removed' = removed
      <3>1. removed'[r] = {} /\ result'[r] = "failed"
          BY <2>1, <2>2 DEF Finish, TypeOK
      <3> QED
          BY <3>1 DEF RemovalOf
    <2>3. ASSUME Goto(r, "corroborate"),
                 entry' = [entry EXCEPT ![Slot(r)] = None],
                 NEW x \in [ino : Inodes, born : Nat, stamp : Nat],
                 removed' = [removed EXCEPT ![r] = {x}],
                 entry[Slot(r)] \in Inodes,
                 x.ino = entry[Slot(r)],
                 x.born = obj[entry[Slot(r)]].born,
                 x.stamp = obj[entry[Slot(r)]].stamp
          PROVE  RemovalOf(r)'
      <3>1. removed'[r] = {x} /\ result'[r] = "pending"
          BY <2>1, <2>3 DEF Goto, TypeOK
      <3>2. ASSUME ~raced[r]
            PROVE  /\ Object(x) = Planned(r) /\ PlannedIsGone(r)'
                   /\ ~touched[r] => x.stamp = plan[r].stamp
        <4>1. /\ entry[Slot(r)] = plan[r].ino
              /\ \A p \in Places : entry[p] = plan[r].ino => p = Slot(r)
            BY <2>1, <2>3, <3>2, KernelAssumption DEF WindowOf
        <4>2. obj[plan[r].ino].born = plan[r].born
            BY <2>1 DEF IdentityOf, HeldSteps
        <4>3. ~touched[r] => obj[plan[r].ino].stamp = plan[r].stamp
            BY <2>1 DEF IdentityOf
        <4>4. Object(x) = Planned(r)
            BY <2>3, <4>1, <4>2 DEF Object, Planned
        <4>5. \A p \in Places : entry'[p] # plan[r].ino
            BY <2>1, <2>3, <4>1, KernelAssumption DEF TypeOK
        <4>6. PlannedIsGone(r)'
            BY <2>1, <4>5 DEF PlannedIsGone
        <4> QED
            BY <2>3, <4>1, <4>3, <4>4, <4>6
      <3>3. Planned(r)' = Planned(r)
          BY <2>1 DEF Planned
      <3> QED
          BY <1>1, <2>1, <3>1, <3>2, <3>3 DEF RemovalOf
    <2> QED
        BY <1>2, <2>2, <2>3, UnlinkEffect
  <1>3. CASE Corroborate(r)
    <2>1. /\ plan' = plan /\ removed' = removed /\ entry' = entry
          /\ removed[r] # {} /\ plan[r] \in Plans /\ fd[r] = plan[r].ino
        BY <1>3 DEF Corroborate, Shape, ShapeOf, PlannedSteps, HeldSteps, fsVars
    <2>2. PlannedIsGone(r)' <=> PlannedIsGone(r)
        BY <1>1, <2>1 DEF PlannedIsGone
    <2>3. CASE Links(fd[r]) = {}
      <3>1. PlannedIsGone(r)
          BY <2>1, <2>3 DEF Links, PlannedIsGone
      <3>2. result'[r] \in {"succeeded", "unknown"}
          BY <1>3, <2>3 DEF Corroborate, Finish, TypeOK
      <3> QED
          BY <1>1, <2>1, <2>2, <3>1, <3>2 DEF RemovalOf, Planned
    <2>4. CASE Links(fd[r]) # {}
      <3>1. ~PlannedIsGone(r)
          BY <1>3, <2>1, <2>4 DEF Links, PlannedIsGone, IdentityOf, HeldSteps,
                                  Corroborate
      <3>2. raced[r]
          BY <2>1, <3>1 DEF RemovalOf
      <3>3. result'[r] \in {"failed", "unknown"}
          BY <1>3, <2>4 DEF Corroborate, Finish, TypeOK
      <3> QED
          BY <1>1, <2>1, <3>2, <3>3 DEF RemovalOf
    <2> QED
        BY <2>3, <2>4
  <1>4. CASE ~Unlink(r) /\ ~Corroborate(r)
    <2>1. removed' = removed /\ pc[r] \notin {"corroborate", "done"}
        BY <1>4 DEF Delete, Establish, Bind, Seal, Revalidate, ProcessGuard,
                    RevalidateLayout, Open, Recheck, BindParent, Confirm
    <2>2. removed[r] = {} /\ result[r] = "pending"
        BY <2>1 DEF Shape, ShapeOf
    <2>3. result'[r] \in {"pending", "safely_skipped", "failed"}
        BY <1>4, <2>2 DEF Delete, Establish, Bind, Seal, Revalidate, ProcessGuard,
                    RevalidateLayout, Open, Recheck, BindParent, Confirm, Require,
                    Holding, Goto, Finish, TypeOK
    <2> QED
        BY <2>1, <2>2, <2>3 DEF RemovalOf
  <1> QED
      BY <1>2, <1>3, <1>4

\* What another deletion does leaves a deletion's own facts alone: it only
\* takes names away, and never the number of a descriptor held open.
LEMMA OtherRunsSafe ==
    ASSUME Core, NEW r \in Runs, Delete(r), NEW s \in Runs, r # s,
           IdentityOf(s), WindowOf(s), RemovalOf(s)
    PROVE  (IdentityOf(s) /\ WindowOf(s) /\ RemovalOf(s))'
  <1> USE DEF Core
  <1>1. /\ pc'[s] = pc[s] /\ plan'[s] = plan[s] /\ fd'[s] = fd[s]
        /\ dirfd'[s] = dirfd[s] /\ result'[s] = result[s]
        /\ removed'[s] = removed[s] /\ raced'[s] = raced[s]
        /\ touched'[s] = touched[s] /\ obj' = obj
        /\ \A p \in Places : entry'[p] \in {entry[p], None}
      BY OtherRunsFrame, DeleteFrame
  <1>2. IdentityOf(s)'
      BY <1>1 DEF IdentityOf
  <1>3. WindowOf(s)'
    <2>1. Slot(s)' = Slot(s)
        BY <1>1 DEF Slot
    <2>2. ASSUME pc[s] = "unlink" PROVE plan[s].ino # None /\ Slot(s) \in Places
      <3>1. plan[s] \in Plans /\ dirfd[s] \in Dirs
          BY <2>2 DEF Shape, ShapeOf, PlannedSteps
      <3> QED
          BY <3>1, KernelAssumption DEF Plans, Slot, Places
    <2> QED
        BY <1>1, <2>1, <2>2 DEF WindowOf
  <1>4. RemovalOf(s)'
    <2>1. PlannedIsGone(s) /\ plan[s] \in Plans => PlannedIsGone(s)'
        BY <1>1, DeleteKeepsGone
    <2>2. Planned(s)' = Planned(s)
        BY <1>1 DEF Planned
    <2>3. removed[s] # {} => plan[s] \in Plans
        BY DEF Shape, ShapeOf
    <2> QED
        BY <1>1, <2>1, <2>2, <2>3 DEF RemovalOf
  <1> QED
      BY <1>2, <1>3, <1>4

\* The second of two deletions of one object finds no name of it to unlink.
LEMMA DeleteRivals ==
    ASSUME IInv, NEW r \in Runs, Delete(r)
    PROVE  Rivals'
  <1> USE DEF IInv, Core
  <1>1. UNCHANGED <<obj, raced>>
      BY DeleteFrame
  <1>2. \A s \in Runs \ {r} :
            removed'[s] = removed[s] /\ Planned(s)' = Planned(s)
      BY OtherRunsFrame DEF Planned
  <1>3. CASE removed'[r] = {}
      BY <1>1, <1>2, <1>3 DEF Rivals
  <1>4. CASE removed'[r] # {} /\ removed' = removed
    <2>1. pc[r] = "corroborate"
        BY <1>4 DEF Shape, ShapeOf, Delete, Establish, Bind, Seal, Revalidate,
                    ProcessGuard, RevalidateLayout, Open, Recheck, BindParent,
                    Confirm, Unlink, Corroborate
    <2>2. plan' = plan
        BY <2>1 DEF Delete, Establish, Bind, Seal, Revalidate, ProcessGuard,
                    RevalidateLayout, Open, Recheck, BindParent, Confirm, Unlink,
                    Corroborate
    <2> QED
        BY <1>1, <1>4, <2>2 DEF Rivals, Planned
  <1>5. CASE removed'[r] # {} /\ removed' # removed
    <2>1. Unlink(r) /\ plan' = plan /\ pc[r] = "unlink"
        BY <1>5 DEF Delete, Establish, Bind, Seal, Revalidate, ProcessGuard,
                    RevalidateLayout, Open, Recheck, BindParent, Confirm, Unlink,
                    Corroborate
    <2>2. /\ plan[r] \in Plans /\ Slot(r) \in Places
          /\ entry[Slot(r)] # None
      <3>1. TypeOK /\ Shape /\ Unlink(r)
          BY <2>1
      <3>2. entry[Slot(r)] = None => removed' = removed
          BY <2>1 DEF Unlink
      <3>3. plan[r] \in Plans /\ Slot(r) \in Places
          BY <3>1, UnlinkEffect
      <3> QED
          BY <1>5, <3>2, <3>3
    <2>3. ASSUME NEW s \in Runs, s # r, removed[s] # {}, ~raced[s], ~raced[r]
          PROVE  Planned(r) # Planned(s)
      <3>1. /\ entry[Slot(r)] = plan[r].ino
            /\ obj[plan[r].ino].born = plan[r].born
          BY <2>1, <2>2, <2>3 DEF Safe, WindowOf, IdentityOf, HeldSteps
      <3>2. PlannedIsGone(s)
          BY <2>3 DEF Safe, RemovalOf
      <3> QED
          BY <2>2, <3>1, <3>2 DEF PlannedIsGone, Planned
    <2>4. Planned(r)' = Planned(r)
        BY <2>1 DEF Planned
    <2> QED
        BY <1>1, <1>2, <2>3, <2>4 DEF Rivals
  <1> QED
      BY <1>3, <1>4, <1>5

\* Every part of the invariant survives a step of a deletion.
LEMMA DeleteSafe == ASSUME IInv, NEW r \in Runs, Delete(r) PROVE (Clocks /\ Safe /\ Rivals)'
  <1>1. Clocks'
      BY DeleteClocks DEF IInv
  <1>2. ASSUME NEW s \in Runs PROVE (IdentityOf(s) /\ WindowOf(s) /\ RemovalOf(s))'
    <2>1. CASE s = r
        BY <2>1, DeleteIdentity, DeleteWindow, DeleteRemoval DEF IInv, Safe
    <2>2. CASE s # r
        BY <2>2, OtherRunsSafe DEF IInv, Safe
    <2> QED
        BY <2>1, <2>2
  <1>3. Safe'
      BY <1>2 DEF Safe
  <1> QED
      BY <1>1, <1>3, DeleteRivals

-----------------------------------------------------------------------------
(* The theorems.                                                           *)

\* The invariant holds at the start.
LEMMA InitSafe == Init => IInv
  <1> SUFFICES ASSUME Init PROVE IInv
      OBVIOUS
  <1>1. Core
      BY InitTypeOK DEF Core
  <1>2. Clocks
    <2>1. \A r \in Runs : plan[r] \notin Plans
        BY NoPlanAssumption DEF Init
    <2>2. \A i \in Inodes : obj[i].born = 0 /\ obj[i].stamp = 0
        BY DEF Init
    <2> QED
        BY <2>1, <2>2 DEF Init, Clocks
  <1>3. Safe
      BY NoPlanAssumption DEF Init, Safe, IdentityOf, WindowOf, RemovalOf, HeldSteps
  <1>4. Rivals
      BY DEF Init, Rivals
  <1> QED
      BY <1>1, <1>2, <1>3, <1>4 DEF IInv

\* The invariant is inductive, given that the core is one.
LEMMA StepSafe == Core' /\ IInv /\ [Next]_vars => IInv'
  <1> SUFFICES ASSUME Core', IInv, [Next]_vars PROVE IInv'
      OBVIOUS
  <1>1. CASE UNCHANGED vars
      BY <1>1 DEF IInv, Clocks, Safe, IdentityOf, WindowOf, RemovalOf, Rivals,
                  PlannedIsGone, Planned, Slot, vars, fsVars, kernelVars, ghostVars
  <1>2. CASE Provider
      BY <1>2, ProviderSafe DEF IInv
  <1>3. ASSUME NEW r \in Runs, Delete(r) PROVE IInv'
      BY <1>3, DeleteSafe DEF IInv
  <1> QED
      BY <1>1, <1>2, <1>3 DEF Next

\* The inductive invariant: a plan's identity, the descriptor that pins it and
\* the entry looked at last agree, whatever the provider has done since.
THEOREM Inductive == Spec => []IInv
  <1>1. Spec => []Core
      BY CoreInvariant, PTL DEF Core
  <1> QED
      BY <1>1, InitSafe, StepSafe, PTL DEF Spec

\* The only object a deletion unlinks is the one its plan was sealed for,
\* unless the provider moved a name in the window between the last look at the
\* entry and the unlink (mutation.rs 258-385, sealedfs lib.rs 648-693).
THEOREM OnlyTheConfirmedObject == Spec => []OnlyConfirmedRemoved
  <1>1. IInv => OnlyConfirmedRemoved
      BY DEF IInv, Safe, RemovalOf, OnlyConfirmedRemoved
  <1> QED
      BY Inductive, <1>1, PTL

\* A session written to between binding and the last look is never removed.
THEOREM WritesSurvive == Spec => []UnseenWritesSurvive
  <1>1. IInv => UnseenWritesSurvive
      BY DEF IInv, Safe, RemovalOf, UnseenWritesSurvive
  <1> QED
      BY Inductive, <1>1, PTL

\* Outside the last window, an object that was unlinked has no name left.
THEOREM NoOtherNameIsLost == Spec => []NeverOneOfSeveralNames
  <1>1. IInv => NeverOneOfSeveralNames
      BY DEF IInv, Safe, RemovalOf, NeverOneOfSeveralNames
  <1> QED
      BY Inductive, <1>1, PTL

\* A skip removed nothing, a success left no name of the planned object, and a
\* failure that removed something follows interference in the last window, or a
\* look afterwards that itself failed.
THEOREM ReportedOutcomes == Spec => []OutcomeTruth
  <1>1. IInv => OutcomeTruth
      BY DEF IInv, Safe, RemovalOf, OutcomeTruth
  <1> QED
      BY Inductive, <1>1, PTL

\* Two runs never both report the deletion of one object, unless the provider
\* interfered in the last window of one of them.
THEOREM DeletedOnce == Spec => []OneWinner
  <1>1. IInv => OneWinner
      BY DEF IInv, Core, Safe, RemovalOf, Rivals, OneWinner
  <1> QED
      BY Inductive, <1>1, PTL
=============================================================================
