-------------------------- MODULE BuildQueueProofs --------------------------
(***************************************************************************)
(* The Builds of a layout never all wait for one another, and two Builds   *)
(* that need the same image are not built at the same time, for any number *)
(* of Builds and any attributes.                                           *)
(***************************************************************************)
EXTENDS BuildQueue, FiniteSetTheorems, WellFoundedInduction, TLAPS

(* A non-empty set of natural numbers has a least element. *)
LEMMA NatLeast ==
  ASSUME NEW S \in SUBSET Nat, S # {}
  PROVE  \E x \in S : \A y \in S : x <= y
<1>1. PICK x \in S : \A y \in S : ~(<<y, x>> \in OpToRel(<, Nat))
  BY WFMin, NatLessThanWellFounded
<1>2. ASSUME NEW y \in S, y < x PROVE FALSE
  <2>1. <<y, x>> \in {p \in Nat \X Nat : p[1] < p[2]}
    BY <1>2
  <2>2. <<y, x>> \in OpToRel(<, Nat)
    BY <2>1, Zenon DEF OpToRel
  <2> QED BY <1>1, <2>2
<1> QED BY <1>2

(* TypeOK is an invariant: names stay unique and timestamps are numbers. *)
THEOREM QueueTypeInvariant == Spec => []TypeOK
<1>1. Init => TypeOK
  BY DEF Init, TypeOK
<1>2. TypeOK /\ [Next]_vars => TypeOK'
  <2> SUFFICES ASSUME TypeOK, [Next]_vars PROVE TypeOK'
    OBVIOUS
  <2> USE DEF TypeOK
  <2>1. ASSUME NEW name \in Names, Arrive(name) PROVE TypeOK'
    <3>1. clock' \in Nat
      BY <2>1 DEF Arrive
    <3> QED BY <2>1, <3>1 DEF Arrive, BuildPhases
  <2>2. ASSUME NEW b \in items, NEW phase \in BuildPhases, Move(b, phase) PROVE TypeOK'
    BY <2>2 DEF Move
  <2>3. ASSUME NEW b \in items, Initialize(b) \/ Admit(b) \/ Start(b) \/ End(b)
        PROVE  TypeOK'
    <3>1. PICK phase \in BuildPhases : Move(b, phase)
      BY <2>3 DEF Initialize, Admit, Start, End, BuildPhases
    <3> QED BY <3>1, <2>2
  <2>4. CASE UNCHANGED vars
    BY <2>4 DEF vars
  <2> QED BY <2>1, <2>3, <2>4 DEF Next
<1> QED BY <1>1, <1>2, PTL DEF Spec

(* Among the Builds of a set there is one that no other has precedence     *)
(* over: least in creation time and, for that time, in name.               *)
LEMMA FirstBuild ==
  ASSUME TypeOK, NEW S \in SUBSET items, S # {}
  PROVE  \E c \in S : \A b \in S : b.name # c.name => ~(compareBuilds(b, c) < 0)
<1> DEFINE Times == {b.created : b \in S}
<1>1. \A b \in S : b.created \in Nat /\ b.name \in Nat
  BY QueueAssumption DEF TypeOK
<1>2. PICK t \in Times : \A u \in Times : t <= u
  <2>1. Times \in SUBSET Nat /\ Times # {}
    BY <1>1
  <2> HIDE DEF Times
  <2> QED BY <2>1, NatLeast
<1> DEFINE Oldest == {b \in S : b.created = t}
           OldestNames == {b.name : b \in Oldest}
<1>3. PICK n \in OldestNames : \A k \in OldestNames : n <= k
  <2>1. OldestNames \in SUBSET Nat /\ OldestNames # {}
    BY <1>1, <1>2
  <2> HIDE DEF OldestNames
  <2> QED BY <2>1, NatLeast
<1>4. PICK c \in Oldest : c.name = n
  BY <1>3
<1>5. ASSUME NEW b \in S, b.name # c.name PROVE ~(compareBuilds(b, c) < 0)
  <2>1. c.created <= b.created /\ c.created = t
    BY <1>2, <1>4
  <2>2. b.created = t => c.name <= b.name
    BY <1>3, <1>4
  <2>3. b.created \in Nat /\ c.created \in Nat /\ b.name \in Nat /\ c.name \in Nat
    BY <1>1, <1>4
  <2> QED BY <2>1, <2>2, <2>3, <1>5 DEF compareBuilds
<1> QED BY <1>4, <1>5

(* Among the Builds of a set there is one whose dependencies include those *)
(* of no other.                                                            *)
LEMMA SmallestBuild ==
  ASSUME TypeOK, NEW S \in SUBSET items, S # {}
  PROVE  \E c \in S : \A b \in S : b.deps \subseteq c.deps => b.deps = c.deps
<1> DEFINE Sizes == {Cardinality(b.deps) : b \in S}
<1>1. \A b \in S : IsFiniteSet(b.deps) /\ Cardinality(b.deps) \in Nat
  BY QueueAssumption, FS_CardinalityType DEF TypeOK
<1>2. PICK n \in Sizes : \A k \in Sizes : n <= k
  <2>1. Sizes \in SUBSET Nat /\ Sizes # {}
    BY <1>1
  <2> HIDE DEF Sizes
  <2> QED BY <2>1, NatLeast
<1>3. PICK c \in S : Cardinality(c.deps) = n
  BY <1>2
<1>4. ASSUME NEW b \in S, b.deps \subseteq c.deps PROVE b.deps = c.deps
  <2>1. Cardinality(c.deps) <= Cardinality(b.deps)
    BY <1>2, <1>3
  <2>2. /\ Cardinality(b.deps) <= Cardinality(c.deps)
        /\ Cardinality(c.deps) = Cardinality(b.deps) => c.deps = b.deps
    BY <1>1, <1>4, FS_Subset
  <2> QED BY <2>1, <2>2, <1>1
<1> QED BY <1>3, <1>4

(***************************************************************************)
(* Whatever the attributes of the queued Builds, the order admits one.     *)
(***************************************************************************)
LEMMA SomeoneGoes == TypeOK => NoStandstill
<1> SUFFICES ASSUME TypeOK, NEW b \in Queued,
                    \A c \in Peers(b) : c.phase = "Scheduling" \/ IsFinished(c)
             PROVE  \E c \in Queued \cap Peers(b) :
                      orderAllows(strategy, withCompatibleLayout(items, c), c)
  BY DEF NoStandstill
<1> DEFINE S == Queued \cap Peers(b)
<1>1. S \in SUBSET items /\ b \in S
  BY DEF Queued, Peers
<1>2. \A c \in S : withCompatibleLayout(items, c) \subseteq Peers(b)
  BY DEF withCompatibleLayout, Peers
<1>3. \A c \in Peers(b) : c.phase \notin {"Pending", "Running", "Initialization", "None"}
  BY DEF IsFinished
<1>4. \A c \in Peers(b) : c.phase = "Scheduling" => c \in S
  BY DEF Queued, Peers
<1>5. CASE strategy = "sequential"
  BY <1>5, <1>1, <1>2, <1>3 DEF orderAllows, HasRunningBuilds
<1>6. CASE strategy = "fifo"
  <2>1. PICK c \in S : \A d \in S : d.name # c.name => ~(compareBuilds(d, c) < 0)
    <3> HIDE DEF S
    <3> QED BY <1>1, FirstBuild
  <2>2. ASSUME NEW d \in withCompatibleLayout(items, c), d.name # c.name,
               d.phase \in {"Initialization", "Scheduling"}
        PROVE  ~(d.created < c.created)
    <3>1. d \in S
      BY <2>2, <1>2, <1>3, <1>4
    <3> QED BY <2>1, <2>2, <3>1 DEF compareBuilds
  <2> QED BY <2>1, <2>2, <1>6 DEF orderAllows, HasScheduledBuildsBefore
<1>7. CASE strategy = "dependencies"
  <2>1. PICK e \in S : \A d \in S : d.deps \subseteq e.deps => d.deps = e.deps
    <3> HIDE DEF S
    <3> QED BY <1>1, SmallestBuild
  <2> DEFINE T == {d \in S : d.deps = e.deps}
  <2>2. PICK c \in T : \A d \in T : d.name # c.name => ~(compareBuilds(d, c) < 0)
    <3>1. T \in SUBSET items /\ T # {}
      BY <1>1, <2>1
    <3> HIDE DEF T
    <3> QED BY <3>1, FirstBuild
  <2>3. ASSUME NEW d \in withCompatibleLayout(items, c), WaitsFor(c, d) PROVE FALSE
    <3>1. d.phase \in {"Initialization", "Scheduling"}
      BY <2>3, <1>2, <1>3, <2>2 DEF WaitsFor
    <3>2. d \in S
      BY <3>1, <2>3, <1>2, <1>3, <1>4, <2>2
    <3>3. d.name # c.name /\ d.deps \subseteq c.deps
      BY <2>3 DEF WaitsFor, Suitable
    <3>4. d \in T
      BY <3>2, <3>3, <2>1, <2>2
    <3> QED BY <3>1, <3>3, <3>4, <2>2, <2>3 DEF WaitsFor
  <2> QED BY <2>2, <2>3, <1>7 DEF orderAllows, HasMatchingBuild
<1> QED BY <1>5, <1>6, <1>7 DEF TypeOK, Strategies

(* The queue never stands still, for any number of Builds. *)
THEOREM QueueNoStandstill == Spec => []NoStandstill
BY QueueTypeInvariant, SomeoneGoes, PTL

(***************************************************************************)
(* A step that lets no Build start keeps SameImageOnce: whatever runs      *)
(* after it ran before it, with the same attributes.                       *)
(***************************************************************************)
LEMMA NothingStarts ==
  ASSUME SameImageOnce, strategy' = strategy,
         \A c \in Running' : \E d \in Running :
           /\ d.name = c.name /\ d.layout = c.layout
           /\ d.version = c.version /\ d.deps = c.deps
  PROVE  SameImageOnce'
BY DEF SameImageOnce

(***************************************************************************)
(* In the dependencies order, two Builds that need the same image are not  *)
(* built at the same time, for any number of Builds.                       *)
(***************************************************************************)
THEOREM QueueSameImageOnce == Spec => []SameImageOnce
<1>1. Init => SameImageOnce
  BY DEF Init, SameImageOnce, Running
<1>2. TypeOK /\ SameImageOnce /\ [Next]_vars => SameImageOnce'
  <2> SUFFICES ASSUME TypeOK, SameImageOnce, [Next]_vars PROVE SameImageOnce'
    OBVIOUS
  <2>1. ASSUME NEW name \in Names, Arrive(name) PROVE SameImageOnce'
    <3>1. Running' = Running
      BY <2>1 DEF Arrive, Running
    <3> QED BY <2>1, <3>1, NothingStarts DEF Arrive
  <2>2. ASSUME NEW b \in items, NEW phase, Move(b, phase),
               phase \in {"Pending", "Running"} => b \in Running
        PROVE  SameImageOnce'
    <3>1. \A c \in Running' : \E d \in Running :
            /\ d.name = c.name /\ d.layout = c.layout
            /\ d.version = c.version /\ d.deps = c.deps
      <4> TAKE c \in Running'
      <4>1. CASE c = [b EXCEPT !.phase = phase]
        <5>1. c.phase = phase /\ phase \in {"Pending", "Running"}
          BY <4>1 DEF Running, TypeOK
        <5> QED BY <5>1, <4>1, <2>2 DEF TypeOK
      <4>2. CASE c \in items \ {b}
        BY <4>2 DEF Running
      <4> QED BY <4>1, <4>2, <2>2 DEF Move, Running
    <3> QED BY <2>2, <3>1, NothingStarts DEF Move
  <2>3. ASSUME NEW b \in items, Initialize(b) \/ Start(b) \/ End(b)
        PROVE  SameImageOnce'
    BY <2>2, <2>3 DEF Initialize, Start, End, Running
  <2>4. ASSUME NEW b \in items, Admit(b) PROVE SameImageOnce'
    <3> DEFINE bb == [b EXCEPT !.phase = "Pending"]
    <3>1. Running' \subseteq Running \cup {bb}
      BY <2>4 DEF Admit, Move, Running
    <3>2. /\ bb.name = b.name /\ bb.layout = b.layout
          /\ bb.version = b.version /\ bb.deps = b.deps
      BY DEF TypeOK
    <3> HIDE DEF bb
    <3>3. ASSUME strategy = "dependencies", NEW c \in Running,
                 b.name # c.name, b.layout = c.layout,
                 b.layout \notin {NoLayout, NativeSources},
                 b.version = c.version, b.deps = c.deps, b.deps # {}
          PROVE  FALSE
      <4>1. c \in withCompatibleLayout(items, b)
        BY <3>3 DEF withCompatibleLayout, Running
      <4>2. ~HasMatchingBuild(withCompatibleLayout(items, b), b)
        BY <2>4, <3>3 DEF Admit, canSchedule, orderAllows
      <4>3. WaitsFor(b, c)
        BY <3>3 DEF WaitsFor, Suitable, IsFinished, Running
      <4> QED BY <4>1, <4>2, <4>3 DEF HasMatchingBuild
    <3>4. strategy' = strategy
      BY <2>4 DEF Admit, Move
    <3> QED BY <3>1, <3>2, <3>3, <3>4 DEF SameImageOnce
  <2>5. CASE UNCHANGED vars
    BY <2>5 DEF vars, SameImageOnce, Running
  <2> QED BY <2>1, <2>3, <2>4, <2>5 DEF Next
<1> QED BY <1>1, <1>2, QueueTypeInvariant, PTL DEF Spec
=============================================================================
