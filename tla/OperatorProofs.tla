--------------------------- MODULE OperatorProofs ---------------------------
(***************************************************************************)
(* What the operators of PageImage, Scan and PathQuery do, for all         *)
(* capacities, files and paths: how adding and deleting an item change a   *)
(* page, and what Way and Reached say of the nodes on a path.  The proofs  *)
(* about the modules above cite these facts.                               *)
(***************************************************************************)
EXTENDS PathQuery, ParsedQuery, FiniteSetTheorems, WellFoundedInduction, SequenceTheorems, TLAPS

LiveMaps(P) == UNION {[S -> P] : S \in SUBSET (0..Capacity - 1)}

(* The images of the pages, full or not, of items with payloads in P. *)
ImageSet(P) == [id : Nat, next : 0..Capacity, room : Int, live : LiveMaps(P)]

-----------------------------------------------------------------------------
(* Every nonempty set of natural numbers has a least one. *)
LEMMA LeastNumber ==
  ASSUME NEW T, T \subseteq Nat, T # {}
  PROVE  \E m \in T : \A n \in T : m <= n
<1> DEFINE R == {r \in Nat \X Nat : r[1] < r[2]}
<1>1. IsWellFoundedOn(R, Nat)
  BY NatLessThanWellFounded DEF OpToRel
<1> HIDE DEF R
<1>2. PICK m \in T : \A n \in T : <<n, m>> \notin R
  BY <1>1, WFMin
<1>3. \A n \in T : n \in Nat /\ m \in Nat /\ ~(n < m)
  BY <1>2 DEF R
<1> QED
  BY <1>2, <1>3

(* ... and one that is bounded has a greatest. *)
LEMMA GreatestNumber ==
  ASSUME NEW n \in Nat, NEW T, T \subseteq 0..n, T # {}
  PROVE  \E m \in T : \A k \in T : k <= m
<1> DEFINE C == {n - k : k \in T}
<1>1. C \subseteq Nat /\ C # {}
  <2>1. \A k \in T : n - k \in Nat
    OBVIOUS
  <2> QED
    BY <2>1
<1>2. PICK c \in C : \A d \in C : c <= d
  <2> HIDE DEF C
  <2> QED
    BY <1>1, LeastNumber
<1>3. PICK m \in T : c = n - m
  BY <1>2
<1>4. ASSUME NEW k \in T PROVE k <= m
  <2>1. n - k \in C
    OBVIOUS
  <2>2. n - m <= n - k
    BY <1>2, <1>3, <2>1
  <2> QED
    BY <2>2
<1> QED
  BY <1>4

(* A function on 1..n is a sequence of length n. *)
LEMMA LengthIs ==
  ASSUME NEW n \in Nat, NEW s, s = [i \in 1..n |-> s[i]]
  PROVE  Len(s) = n /\ DOMAIN s = 1..n
<1> DEFINE S == {s[i] : i \in 1..n}
<1>1. \A i \in 1..n : s[i] \in S
  OBVIOUS
<1>2. s \in [1..n -> S]
  <2> HIDE DEF S
  <2> QED
    BY <1>1
<1>3. s \in Seq(S)
  <2> HIDE DEF S
  <2> QED
    BY <1>2, SeqDef
<1> QED
  BY <1>2, <1>3, LenProperties

(* ... and of its values. *)
LEMMA SequenceOf ==
  ASSUME NEW n \in Nat, NEW S, NEW s \in [1..n -> S]
  PROVE  s \in Seq(S) /\ Len(s) = n /\ DOMAIN s = 1..n
<1>1. s \in Seq(S)
  BY SeqDef
<1> QED
  BY <1>1, LenProperties

(* The first of a set of ids exists: it is one of them, before all others. *)
LEMMA FirstIs ==
  ASSUME NEW S, S \subseteq Nat \X Nat, S # {}
  PROVE  First(S) \in S /\ \A y \in S : y = First(S) \/ Before(First(S), y)
<1>1. \A x \in S : x = <<x[1], x[2]>> /\ x[1] \in Nat /\ x[2] \in Nat
  OBVIOUS
<1> DEFINE P == {x[1] : x \in S}
<1>2. PICK p \in P : \A n \in P : p <= n
  <2>1. P \subseteq Nat /\ P # {}
    BY <1>1
  <2> HIDE DEF P
  <2> QED
    BY <2>1, LeastNumber
<1> DEFINE Q == {x[2] : x \in {y \in S : y[1] = p}}
<1>3. PICK q \in Q : \A n \in Q : q <= n
  <2>1. Q \subseteq Nat
    BY <1>1
  <2>2. Q # {}
    BY <1>2
  <2> HIDE DEF P, Q
  <2> QED
    BY <2>1, <2>2, LeastNumber
<1>4. PICK x \in S : x[1] = p /\ x[2] = q
  BY <1>3
<1>5. ASSUME NEW y \in S PROVE y = x \/ Before(x, y)
  <2>1. p <= y[1]
    BY <1>2
  <2>2. y[1] = p => q <= y[2]
    BY <1>3
  <2> QED
    BY <1>1, <1>4, <2>1, <2>2 DEF Before
<1> QED
  BY <1>4, <1>5 DEF First

-----------------------------------------------------------------------------
(* The live items of a page have ids below Capacity and payloads in P. *)
LEMMA LiveMapsAre ==
  ASSUME NEW P, NEW f \in LiveMaps(P)
  PROVE  /\ f = [s \in DOMAIN f |-> f[s]]
         /\ DOMAIN f \subseteq 0..Capacity - 1
         /\ \A s \in DOMAIN f : f[s] \in P
  BY DEF LiveMaps

(* A map whose ids are below Capacity and whose payloads are in P is one.  *)
LEMMA LiveMapsAll ==
  ASSUME NEW P, NEW S \in SUBSET (0..Capacity - 1), NEW f \in [S -> P]
  PROVE  f \in LiveMaps(P)
  BY DEF LiveMaps

(* A new page has no items and all its room. *)
LEMMA NewPageIs ==
  ASSUME NEW P, NEW id \in Nat
  PROVE  /\ NewPage(id) \in ImageSet(P)
         /\ NewPage(id).id = id /\ NewPage(id).next = 0
         /\ NewPage(id).room = Capacity /\ NewPage(id).live = NoItems
         /\ DOMAIN NoItems = {}
<1>1. NoItems \in [{} -> P]
  BY DEF NoItems
<1>2. NoItems \in LiveMaps(P)
  BY <1>1, LiveMapsAll
<1>3. Capacity \in Int /\ 0 \in 0..Capacity
  BY CapacityAssumption
<1> QED
  BY <1>2, <1>3 DEF NewPage, ImageSet, NoItems

(* An item is added under the next id, which grows by one, and takes one   *)
(* payload's room; the others stay.                                        *)
LEMMA WithItemIs ==
  ASSUME NEW P, NEW page \in ImageSet(P), NEW p \in P, page.next < Capacity
  PROVE  /\ WithItem(page, p) \in ImageSet(P)
         /\ WithItem(page, p).id = page.id
         /\ WithItem(page, p).next = page.next + 1
         /\ WithItem(page, p).room = page.room - 1
         /\ DOMAIN WithItem(page, p).live = DOMAIN page.live \cup {page.next}
         /\ \A s \in DOMAIN page.live \cup {page.next} :
              WithItem(page, p).live[s] = IF s = page.next THEN p ELSE page.live[s]
<1> DEFINE live == [s \in DOMAIN page.live \cup {page.next} |->
                      IF s = page.next THEN p ELSE page.live[s]]
<1>1. /\ page.id \in Nat /\ page.next \in 0..Capacity /\ page.room \in Int
      /\ page.live \in LiveMaps(P)
      /\ page = [id |-> page.id, next |-> page.next, room |-> page.room, live |-> page.live]
  BY DEF ImageSet
<1>2. WithItem(page, p) =
        [id |-> page.id, next |-> page.next + 1, room |-> page.room - 1, live |-> live]
  <2>1. WithItem(page, p) =
          [page EXCEPT !.next = page.next + 1, !.room = page.room - 1, !.live = live]
    BY DEF WithItem
  <2> HIDE DEF live
  <2> QED BY <1>1, <2>1
<1>3. DOMAIN page.live \cup {page.next} \in SUBSET (0..Capacity - 1)
  BY <1>1, LiveMapsAre, CapacityAssumption
<1>4. live \in [DOMAIN page.live \cup {page.next} -> P]
  BY <1>1, LiveMapsAre
<1>5. live \in LiveMaps(P)
  <2> HIDE DEF live
  <2> QED BY <1>3, <1>4, LiveMapsAll
<1>6. page.next + 1 \in 0..Capacity /\ page.room - 1 \in Int
  BY <1>1, CapacityAssumption
<1>7. /\ DOMAIN live = DOMAIN page.live \cup {page.next}
      /\ \A s \in DOMAIN page.live \cup {page.next} :
           live[s] = IF s = page.next THEN p ELSE page.live[s]
  OBVIOUS
<1> HIDE DEF live
<1>8. WithItem(page, p) \in ImageSet(P)
  BY <1>1, <1>2, <1>5, <1>6 DEF ImageSet
<1> QED
  BY <1>2, <1>7, <1>8

(* A deleted item is gone and the others stay; next_item_id is at least    *)
(* above all of them, and with the room it is either as before or one      *)
(* step back, over the deleted item.                                       *)
LEMMA WithoutItemIs ==
  ASSUME NEW P, NEW page \in ImageSet(P), NEW s \in DOMAIN page.live,
         \A t \in DOMAIN page.live : t < page.next
  PROVE  /\ WithoutItem(page, s) \in ImageSet(P)
         /\ WithoutItem(page, s).id = page.id
         /\ IF s = page.next - 1
              THEN /\ WithoutItem(page, s).next = page.next - 1
                   /\ WithoutItem(page, s).room = page.room + 1
              ELSE /\ WithoutItem(page, s).next = page.next
                   /\ WithoutItem(page, s).room = page.room
         /\ DOMAIN WithoutItem(page, s).live = DOMAIN page.live \ {s}
         /\ \A t \in DOMAIN page.live \ {s} : WithoutItem(page, s).live[t] = page.live[t]
<1> DEFINE live == [t \in DOMAIN page.live \ {s} |-> page.live[t]]
<1>1. /\ page.id \in Nat /\ page.next \in 0..Capacity /\ page.room \in Int
      /\ page.live \in LiveMaps(P)
      /\ page = [id |-> page.id, next |-> page.next, room |-> page.room, live |-> page.live]
  BY DEF ImageSet
<1>2. WithoutItem(page, s) =
        IF s = page.next - 1
          THEN [id |-> page.id, next |-> page.next - 1, room |-> page.room + 1, live |-> live]
          ELSE [id |-> page.id, next |-> page.next, room |-> page.room, live |-> live]
  <2>1. WithoutItem(page, s) =
          LET marked == [page EXCEPT !.live = live]
          IN  IF s = page.next - 1
                THEN [marked EXCEPT !.next = @ - 1, !.room = @ + 1]
                ELSE marked
    BY DEF WithoutItem
  <2> HIDE DEF live
  <2>2. [page EXCEPT !.live = live] =
          [id |-> page.id, next |-> page.next, room |-> page.room, live |-> live]
    BY <1>1
  <2> QED BY <2>1, <2>2
<1>3. DOMAIN page.live \ {s} \in SUBSET (0..Capacity - 1)
  BY <1>1, LiveMapsAre
<1>4. live \in [DOMAIN page.live \ {s} -> P]
  BY <1>1, LiveMapsAre
<1>5. live \in LiveMaps(P)
  <2> HIDE DEF live
  <2> QED BY <1>3, <1>4, LiveMapsAll
<1>6. s \in 0..Capacity - 1 /\ s < page.next
  BY <1>1, LiveMapsAre
<1>7. page.next - 1 \in 0..Capacity /\ page.room + 1 \in Int
  BY <1>1, <1>6, CapacityAssumption
<1>8. /\ DOMAIN live = DOMAIN page.live \ {s}
      /\ \A t \in DOMAIN page.live \ {s} : live[t] = page.live[t]
  OBVIOUS
<1> HIDE DEF live
<1>9. WithoutItem(page, s) \in ImageSet(P)
  BY <1>1, <1>2, <1>5, <1>7 DEF ImageSet
<1> QED
  BY <1>2, <1>8, <1>9

-----------------------------------------------------------------------------
(* Matchers. *)

(* A matcher matches a node when all its conditions are met. *)
LEMMA DecideIs ==
  ASSUME NEW n \in Nat, NEW matcher, DOMAIN matcher = 1..n, NEW node
  PROVE  Decide(matcher, node) = "yes" <=> \A i \in 1..n : Evaluate(matcher[i], node) = "yes"
<1> DEFINE unmet == {i \in DOMAIN matcher : Evaluate(matcher[i], node) # "yes"}
<1>1. CASE unmet = {}
  BY <1>1 DEF Decide
<1>2. CASE unmet # {}
  <2>1. unmet \in SUBSET Nat
    OBVIOUS
  <2>2. \E i \in unmet : \A j \in unmet : i <= j
    <3> HIDE DEF unmet
    <3> QED
      BY <1>2, <2>1, LeastNumber
  <2>3. (CHOOSE i \in unmet : \A j \in unmet : i <= j) \in unmet
    BY <2>2
  <2> QED
    BY <1>2, <2>3 DEF Decide
<1> QED
  BY <1>1, <1>2

(* A condition on the parent is met or not; it never ends the process. *)
LEMMA ParentVerdict ==
  ASSUME NEW p, NEW node
  PROVE  /\ Evaluate(ParentIs(p), node) = "yes" <=> node.parent = p
         /\ Evaluate(ParentIs(p), node) # "crash"
<1>1. ParentIs(p).kind = "parent" /\ ParentIs(p).id = p
  BY DEF ParentIs
<1>2. Evaluate(ParentIs(p), node) = Verdict(node.parent = p)
  BY <1>1 DEF Evaluate
<1> QED
  BY <1>2 DEF Verdict

(* ... so a scan ends the process when the condition before it does. *)
LEMMA DecideCrashes ==
  ASSUME NEW n \in Nat, n >= 1, NEW matcher, DOMAIN matcher = 1..n, NEW node,
         \A i \in 2..n : Evaluate(matcher[i], node) # "crash"
  PROVE  Decide(matcher, node) = "crash" <=> Evaluate(matcher[1], node) = "crash"
<1> DEFINE unmet == {i \in DOMAIN matcher : Evaluate(matcher[i], node) # "yes"}
           least == CHOOSE i \in unmet : \A j \in unmet : i <= j
<1>1. CASE unmet = {}
  <2>1. Decide(matcher, node) = "yes" /\ 1 \in DOMAIN matcher
    BY <1>1 DEF Decide
  <2> QED
    BY <1>1, <2>1
<1>2. CASE unmet # {}
  <2>1. unmet \in SUBSET Nat
    OBVIOUS
  <2>2. \E i \in unmet : \A j \in unmet : i <= j
    <3> HIDE DEF unmet
    <3> QED
      BY <1>2, <2>1, LeastNumber
  <2>3. least \in unmet /\ \A j \in unmet : least <= j
    BY <2>2
  <2>4. Decide(matcher, node) = Evaluate(matcher[least], node)
    BY <1>2 DEF Decide
  <2> HIDE DEF least
  <2>5. CASE Evaluate(matcher[1], node) = "crash"
    <3>1. 1 \in unmet
      BY <2>5
    <3>2. least \in 1..n /\ least <= 1
      BY <2>3, <3>1
    <3>3. least = 1
      BY <3>2
    <3> QED
      BY <2>4, <2>5, <3>3
  <2>6. CASE Evaluate(matcher[1], node) # "crash"
    <3>1. least = 1 \/ least \in 2..n
      BY <2>3
    <3> QED
      BY <2>4, <2>6, <3>1
  <2> QED
    BY <2>5, <2>6
<1> QED
  BY <1>1, <1>2

-----------------------------------------------------------------------------
(* Paths: what PathQuery defines for every node of the way, one after the  *)
(* other.                                                                  *)

(* A function on 0..n may be defined step by step. *)
StepsFrom(f, n, U, first, G) ==
  f \in [0..n -> U] /\ f[0] = first /\ \A k \in 1..n : f[k] = G[k][f[k - 1]]

LEMMA StepByStep ==
  ASSUME NEW n \in Nat, NEW U, NEW first \in U, NEW G \in [1..n -> [U -> U]]
  PROVE  \E f : StepsFrom(f, n, U, first, G)
<1> DEFINE Upto(m, f) == f[0] = first /\ \A k \in 1..m : f[k] = G[k][f[k - 1]]
           None == {m \in 0..n : ~\E f \in [0..m -> U] : Upto(m, f)}
<1>1. None = {}
  <2> SUFFICES ASSUME None # {} PROVE FALSE
    OBVIOUS
  <2>1. PICK m \in None : \A k \in None : m <= k
    <3>1. None \subseteq Nat
      OBVIOUS
    <3> HIDE DEF None
    <3> QED
      BY <3>1, LeastNumber
  <2>2. m \in 0..n /\ ~\E f \in [0..m -> U] : Upto(m, f)
    BY <2>1
  <2>3. CASE m = 0
    <3> DEFINE g == [k \in 0..0 |-> first]
    <3>1. g \in [0..m -> U]
      BY <2>3
    <3>2. Upto(m, g)
      BY <2>3
    <3> HIDE DEF g, Upto
    <3> QED
      BY <2>2, <3>1, <3>2
  <2>4. CASE m # 0
    <3>1. m - 1 \in 0..n /\ m - 1 \notin None /\ m \in 1..n
      <4> HIDE DEF None
      <4>1. m - 1 \in 0..n /\ m \in 1..n /\ ~(m <= m - 1)
        BY <2>2, <2>4
      <4> QED
        BY <2>1, <4>1
    <3>2. PICK f \in [0..(m - 1) -> U] : Upto(m - 1, f)
      BY <3>1
    <3> DEFINE g == [k \in 0..m |-> IF k = m THEN G[m][f[m - 1]] ELSE f[k]]
    <3>3. f[m - 1] \in U /\ G[m][f[m - 1]] \in U
      BY <3>1
    <3>4. g \in [0..m -> U]
      BY <2>2, <3>3
    <3>5. g[0] = first
      BY <2>2, <2>4, <3>2
    <3>6. ASSUME NEW k \in 1..m PROVE g[k] = G[k][g[k - 1]]
      <4>1. g[k - 1] = f[k - 1] /\ k - 1 \in 0..(m - 1)
        BY <3>1
      <4>2. CASE k = m
        BY <3>1, <4>1, <4>2
      <4>3. CASE k # m
        <5>1. k \in 1..(m - 1)
          BY <3>1, <4>3
        <5>2. f[k] = G[k][f[k - 1]]
          BY <3>2, <5>1
        <5>3. g[k] = f[k]
          BY <4>3
        <5> QED
          BY <4>1, <5>2, <5>3
      <4> QED
        BY <4>2, <4>3
    <3> HIDE DEF g
    <3> QED
      BY <2>2, <3>4, <3>5, <3>6
  <2> QED
    BY <2>3, <2>4
<1>2. \E f \in [0..n -> U] : Upto(n, f)
  BY <1>1
<1> QED
  BY <1>2 DEF StepsFrom

(* The nodes below some parents are their children that meet the condition. *)
LEMMA BelowIs ==
  ASSUME NEW ns, NEW c, NEW parents
  PROVE  Below(ns, c, parents) =
           {x \in DOMAIN ns : ns[x].parent \in parents /\ Evaluate(c, ns[x]) = "yes"}
<1>1. ASSUME NEW p, NEW node
      PROVE  Decide(<<c, ParentIs(p)>>, node) = "yes"
               <=> Evaluate(c, node) = "yes" /\ node.parent = p
  <2> DEFINE d == ParentIs(p)
  <2>1. Evaluate(d, node) = "yes" <=> node.parent = p
    BY ParentVerdict
  <2> HIDE DEF d
  <2>2. DOMAIN <<c, d>> = 1..2
    OBVIOUS
  <2>3. Decide(<<c, d>>, node) = "yes" <=> \A i \in 1..2 : Evaluate(<<c, d>>[i], node) = "yes"
    BY <2>2, DecideIs
  <2>4. (\A i \in 1..2 : Evaluate(<<c, d>>[i], node) = "yes")
          <=> Evaluate(c, node) = "yes" /\ Evaluate(d, node) = "yes"
    OBVIOUS
  <2>5. Decide(<<c, d>>, node) = "yes" <=> Evaluate(c, node) = "yes" /\ node.parent = p
    BY <2>1, <2>3, <2>4
  <2> QED
    BY <2>5 DEF d
<1> DEFINE chosen(p) == {x \in DOMAIN ns : Decide(<<c, ParentIs(p)>>, ns[x]) = "yes"}
<1>2. ASSUME NEW p
      PROVE  chosen(p) = {x \in DOMAIN ns : ns[x].parent = p /\ Evaluate(c, ns[x]) = "yes"}
  BY <1>1
<1>3. Below(ns, c, parents) = UNION {chosen(p) : p \in parents}
  BY DEF Below
<1> HIDE DEF chosen
<1> QED
  BY <1>2, <1>3

(* What Way and Reached define, as conditions on the function defined. *)
IsWay(ns, path, f) ==
  f = [k \in 0..Len(path) |->
         IF k = 0 THEN {NoNode}
         ELSE {First(found) : found \in {Below(ns, path[k], f[k - 1])} \ {{}}}]

IsReached(ns, path, f) ==
  f = [k \in 0..Len(path) |->
         IF k = 0 THEN {NoNode}
         ELSE {x \in DOMAIN ns :
                 ns[x].parent \in f[k - 1] /\ Evaluate(path[k], ns[x]) = "yes"}]

(* The step of the way from the nodes a condition chooses. *)
Leads(found) == IF found = {} THEN {} ELSE {First(found)}

LEMMA WayIs ==
  ASSUME NEW ns, NEW path, Len(path) \in Nat
  PROVE  /\ Way(ns, path)[0] = {NoNode}
         /\ \A k \in 1..Len(path) :
              Way(ns, path)[k] = Leads(Below(ns, path[k], Way(ns, path)[k - 1]))
<1> DEFINE n == Len(path)
           U == SUBSET ({NoNode} \cup {First(S) : S \in SUBSET DOMAIN ns})
           Pick(B) == {First(found) : found \in {B} \ {{}}}
           G == [k \in 1..n |-> [u \in U |-> Pick(Below(ns, path[k], u))]]
<1>1. ASSUME NEW B PROVE Pick(B) = Leads(B)
  BY DEF Leads
<1>2. \E f : IsWay(ns, path, f)
  <2>1. ASSUME NEW k \in 1..n, NEW u \in U PROVE Pick(Below(ns, path[k], u)) \in U
    <3>1. Below(ns, path[k], u) \in SUBSET DOMAIN ns
      BY BelowIs
    <3> HIDE DEF Pick
    <3> QED
      BY <1>1, <3>1 DEF Leads
  <2>2. G \in [1..n -> [U -> U]] /\ {NoNode} \in U
    <3> HIDE DEF Pick
    <3>1. {NoNode} \in U
      OBVIOUS
    <3> HIDE DEF U
    <3> QED
      BY <2>1, <3>1
  <2>3. PICK f \in [0..n -> U] :
          f[0] = {NoNode} /\ \A k \in 1..n : f[k] = G[k][f[k - 1]]
    <3> DEFINE start == {NoNode}
    <3>1. start \in U /\ n \in Nat
      BY <2>2
    <3> HIDE DEF U, G, n, start
    <3>2. \E f : StepsFrom(f, n, U, start, G)
      BY <2>2, <3>1, StepByStep
    <3> QED
      BY <3>2 DEF start, StepsFrom
  <2>4. ASSUME NEW k \in 0..n, k # 0 PROVE f[k] = Pick(Below(ns, path[k], f[k - 1]))
    <3>1. k \in 1..n /\ k - 1 \in 0..n
      BY <2>4
    <3>2. f[k - 1] \in U
      BY <2>3, <3>1
    <3> HIDE DEF U, Pick
    <3> QED
      BY <2>3, <3>1, <3>2
  <2>5. f = [k \in 0..n |-> IF k = 0 THEN {NoNode} ELSE Pick(Below(ns, path[k], f[k - 1]))]
    <3> HIDE DEF U, Pick, G
    <3> QED
      BY <2>3, <2>4
  <2> QED
    BY <2>5 DEF IsWay
<1>3. Way(ns, path) = CHOOSE f : IsWay(ns, path, f)
  BY DEF Way, IsWay
<1>4. IsWay(ns, path, Way(ns, path))
  BY <1>2, <1>3
<1>5. Way(ns, path) = [k \in 0..n |-> IF k = 0 THEN {NoNode}
                                     ELSE Pick(Below(ns, path[k], Way(ns, path)[k - 1]))]
  BY <1>4 DEF IsWay
<1> DEFINE way == Way(ns, path)
<1> HIDE DEF Pick, way, U, G
<1>6. way = [k \in 0..n |-> IF k = 0 THEN {NoNode} ELSE Pick(Below(ns, path[k], way[k - 1]))]
  BY <1>5 DEF way
<1>7. /\ way[0] = {NoNode}
      /\ \A k \in 1..n : way[k] = Pick(Below(ns, path[k], way[k - 1]))
  <2>1. 0 \in 0..n /\ \A k \in 1..n : k \in 0..n /\ k # 0
    OBVIOUS
  <2> HIDE DEF n
  <2> QED
    BY <1>6, <2>1
<1>8. \A k \in 1..n : way[k] = Leads(Below(ns, path[k], way[k - 1]))
  BY <1>1, <1>7
<1> QED
  BY <1>7, <1>8 DEF way

LEMMA ReachedIs ==
  ASSUME NEW ns, NEW path, Len(path) \in Nat
  PROVE  /\ Reached(ns, path)[0] = {NoNode}
         /\ \A k \in 1..Len(path) :
              Reached(ns, path)[k] = Below(ns, path[k], Reached(ns, path)[k - 1])
<1> DEFINE n == Len(path)
           U == SUBSET ({NoNode} \cup DOMAIN ns)
           G == [k \in 1..n |-> [u \in U |-> Below(ns, path[k], u)]]
<1>1. \E f : IsReached(ns, path, f)
  <2>1. ASSUME NEW k \in 1..n, NEW u \in U PROVE Below(ns, path[k], u) \in U
    BY BelowIs
  <2>2. G \in [1..n -> [U -> U]] /\ {NoNode} \in U
    <3>1. {NoNode} \in U
      OBVIOUS
    <3> HIDE DEF U
    <3> QED
      BY <2>1, <3>1
  <2>3. PICK f \in [0..n -> U] :
          f[0] = {NoNode} /\ \A k \in 1..n : f[k] = G[k][f[k - 1]]
    <3> DEFINE start == {NoNode}
    <3>1. start \in U /\ n \in Nat
      BY <2>2
    <3> HIDE DEF U, G, n, start
    <3>2. \E f : StepsFrom(f, n, U, start, G)
      BY <2>2, <3>1, StepByStep
    <3> QED
      BY <3>2 DEF start, StepsFrom
  <2>4. ASSUME NEW k \in 0..n, k # 0 PROVE f[k] = Below(ns, path[k], f[k - 1])
    <3>1. k \in 1..n /\ k - 1 \in 0..n
      BY <2>4
    <3>2. f[k - 1] \in U
      BY <2>3, <3>1
    <3> HIDE DEF U
    <3> QED
      BY <2>3, <3>1, <3>2
  <2>5. f = [k \in 0..n |-> IF k = 0 THEN {NoNode} ELSE Below(ns, path[k], f[k - 1])]
    <3> HIDE DEF U, G
    <3> QED
      BY <2>3, <2>4
  <2> QED
    BY <2>5, BelowIs DEF IsReached
<1>2. Reached(ns, path) = CHOOSE f : IsReached(ns, path, f)
  BY DEF Reached, IsReached
<1>3. IsReached(ns, path, Reached(ns, path))
  BY <1>1, <1>2
<1>4. Reached(ns, path) =
        [k \in 0..n |-> IF k = 0 THEN {NoNode}
                       ELSE {x \in DOMAIN ns : ns[x].parent \in Reached(ns, path)[k - 1]
                                               /\ Evaluate(path[k], ns[x]) = "yes"}]
  BY <1>3 DEF IsReached
<1> DEFINE reached == Reached(ns, path)
<1> HIDE DEF reached, U, G
<1>5. reached = [k \in 0..n |->
                   IF k = 0 THEN {NoNode}
                   ELSE {x \in DOMAIN ns : ns[x].parent \in reached[k - 1]
                                           /\ Evaluate(path[k], ns[x]) = "yes"}]
  BY <1>4 DEF reached
<1>6. /\ reached[0] = {NoNode}
      /\ \A k \in 1..n :
           reached[k] = {x \in DOMAIN ns : ns[x].parent \in reached[k - 1]
                                           /\ Evaluate(path[k], ns[x]) = "yes"}
  <2>1. 0 \in 0..n /\ \A k \in 1..n : k \in 0..n /\ k # 0
    OBVIOUS
  <2> HIDE DEF n
  <2> QED
    BY <1>5, <2>1
<1>7. \A k \in 1..n : reached[k] = Below(ns, path[k], reached[k - 1])
  BY <1>6, BelowIs
<1> QED
  BY <1>6, <1>7 DEF reached

(* Once a condition chooses nothing, no later one is asked anywhere. *)
(* Ids that come behind all of a set do not change which is the first. *)
LEMMA FirstStays ==
  ASSUME NEW T, T \subseteq Nat \X Nat, NEW S, S \subseteq T, S # {},
         \A x \in S, y \in T \ S : Before(x, y)
  PROVE  First(T) = First(S)
<1>1. First(S) \in S /\ First(T) \in T /\ \A y \in T : y = First(T) \/ Before(First(T), y)
  BY FirstIs
<1>2. \A y \in S : y = First(S) \/ Before(First(S), y)
  BY FirstIs
<1>3. SUFFICES ASSUME First(T) # First(S) PROVE FALSE
  OBVIOUS
<1>4. Before(First(T), First(S))
  BY <1>1, <1>3
<1>5. Before(First(S), First(T))
  BY <1>1, <1>2, <1>3
<1>6. /\ First(S)[1] \in Nat /\ First(S)[2] \in Nat
      /\ First(T)[1] \in Nat /\ First(T)[2] \in Nat
  BY <1>1
<1> QED
  BY <1>4, <1>5, <1>6 DEF Before

(* A file that has grown: the nodes stay, and the others come behind them. *)
GrownTo(ns, grown) ==
  /\ DOMAIN grown \subseteq Nat \X Nat /\ DOMAIN ns \subseteq DOMAIN grown
  /\ \A x \in DOMAIN ns : grown[x] = ns[x]
  /\ \A x \in DOMAIN ns, y \in DOMAIN grown \ DOMAIN ns : Before(x, y)

(* What is below a node stays below it, and comes before what is added.    *)
LEMMA BelowGrows ==
  ASSUME NEW ns, NEW grown, GrownTo(ns, grown), NEW c, NEW parents
  PROVE  /\ Below(ns, c, parents) \subseteq Below(grown, c, parents)
         /\ Below(ns, c, parents) # {} =>
              First(Below(grown, c, parents)) = First(Below(ns, c, parents))
<1> DEFINE S == Below(ns, c, parents)
           T == Below(grown, c, parents)
<1>1. S = {x \in DOMAIN ns : ns[x].parent \in parents /\ Evaluate(c, ns[x]) = "yes"}
  BY BelowIs
<1>2. T = {x \in DOMAIN grown : grown[x].parent \in parents /\ Evaluate(c, grown[x]) = "yes"}
  BY BelowIs
<1> HIDE DEF S, T
<1>3. S \subseteq T /\ T \subseteq DOMAIN grown
  BY <1>1, <1>2 DEF GrownTo
<1>4. \A x \in S, y \in T \ S : Before(x, y)
  <2>1. \A y \in T \ S : y \in DOMAIN grown \ DOMAIN ns
    BY <1>1, <1>2 DEF GrownTo
  <2> QED
    BY <1>1, <2>1 DEF GrownTo
<1>5. S # {} => First(T) = First(S)
  BY <1>3, <1>4, FirstStays DEF GrownTo
<1> QED
  BY <1>3, <1>5 DEF S, T

(* As far as a way goes in a file, it goes the same way in one that has    *)
(* grown: conditions choose the first node they find.                      *)
LEMMA WayGrows ==
  ASSUME NEW ns, NEW grown, GrownTo(ns, grown), NEW path, Len(path) \in Nat
  PROVE  \A k \in 0..Len(path) : Way(ns, path)[k] # {} => Way(grown, path)[k] = Way(ns, path)[k]
<1> DEFINE Off == {k \in 0..Len(path) :
                     Way(ns, path)[k] # {} /\ Way(grown, path)[k] # Way(ns, path)[k]}
<1>1. SUFFICES ASSUME Off # {} PROVE FALSE
  OBVIOUS
<1>2. PICK m \in Off : \A k \in Off : m <= k
  <2>1. Off \subseteq Nat
    OBVIOUS
  <2> HIDE DEF Off
  <2> QED
    BY <1>1, <2>1, LeastNumber
<1>3. m \in 0..Len(path) /\ Way(ns, path)[m] # {} /\ Way(grown, path)[m] # Way(ns, path)[m]
  BY <1>2
<1>4. m # 0
  BY <1>3, WayIs
<1>5. m \in 1..Len(path) /\ m - 1 \in 0..Len(path) /\ ~(m <= m - 1)
  BY <1>3, <1>4
<1>6. m - 1 \notin Off
  <2> HIDE DEF Off
  <2> QED
    BY <1>2, <1>5
<1> DEFINE before == Way(ns, path)[m - 1]
           S == Below(ns, path[m], before)
           T == Below(grown, path[m], before)
<1>7. Way(ns, path)[m] = Leads(S) /\ S # {}
  <2>1. Way(ns, path)[m] = Leads(S)
    BY <1>5, WayIs
  <2> HIDE DEF S
  <2> QED
    BY <1>3, <2>1 DEF Leads
<1>8. before # {}
  <2>1. Below(ns, path[m], {}) = {}
    BY BelowIs
  <2> QED
    BY <1>7, <2>1
<1>9. Way(grown, path)[m - 1] = before
  BY <1>5, <1>6, <1>8
<1>10. Way(grown, path)[m] = Leads(T)
  BY <1>5, <1>9, WayIs
<1> HIDE DEF before
<1>11. S \subseteq T /\ First(T) = First(S)
  BY <1>7, BelowGrows
<1> QED
  BY <1>3, <1>7, <1>10, <1>11 DEF Leads

(* What a path finds, it finds when the file has grown.                    *)
LEMMA AnswerGrows ==
  ASSUME NEW ns, NEW grown, GrownTo(ns, grown), NEW path, Len(path) \in Nat,
         path # <<>> => Len(path) # 0
  PROVE  Answer(ns, path) \subseteq Answer(grown, path)
<1>1. CASE path = <<>>
  BY <1>1 DEF Answer
<1>2. CASE path # <<>>
  <2> DEFINE n == Len(path)
             way == Way(ns, path)[n - 1]
  <2>1. n - 1 \in 0..Len(path)
    BY <1>2
  <2>2. /\ Answer(ns, path) = Below(ns, path[n], way)
        /\ Answer(grown, path) = Below(grown, path[n], Way(grown, path)[n - 1])
    BY <1>2 DEF Answer
  <2>3. CASE way = {}
    <3>1. Below(ns, path[n], {}) = {}
      BY BelowIs
    <3> QED
      BY <2>2, <2>3, <3>1
  <2>4. CASE way # {}
    <3>1. Way(grown, path)[n - 1] = way
      BY <2>1, <2>4, WayGrows
    <3> HIDE DEF way
    <3> QED
      BY <2>2, <3>1, BelowGrows
  <2> QED
    BY <2>3, <2>4
<1> QED
  BY <1>1, <1>2

LEMMA WayStaysEmpty ==
  ASSUME NEW ns, NEW path, Len(path) \in Nat, NEW k \in 0..Len(path), Way(ns, path)[k] = {}
  PROVE  \A j \in k..Len(path) : Way(ns, path)[j] = {}
<1> DEFINE Late == {j \in k..Len(path) : Way(ns, path)[j] # {}}
<1>1. SUFFICES ASSUME Late # {} PROVE FALSE
  OBVIOUS
<1>2. PICK j \in Late : \A i \in Late : j <= i
  <2>1. Late \subseteq Nat
    OBVIOUS
  <2> HIDE DEF Late
  <2> QED
    BY <1>1, <2>1, LeastNumber
<1>3. /\ j \in k..Len(path) /\ Way(ns, path)[j] # {} /\ j # k
      /\ j - 1 \in k..Len(path) /\ j \in 1..Len(path)
  BY <1>2
<1>4. Way(ns, path)[j - 1] = {}
  <2> HIDE DEF Late
  <2>1. j - 1 \notin Late
    BY <1>2, <1>3
  <2> QED
    BY <1>3, <2>1 DEF Late
<1>5. Below(ns, path[j], {}) = {}
  BY BelowIs
<1>6. Way(ns, path)[j] = Leads(Below(ns, path[j], Way(ns, path)[j - 1]))
  BY <1>3, WayIs
<1> QED
  BY <1>3, <1>4, <1>5, <1>6 DEF Leads

(* The way stays among the nodes the path reaches, and is all of them as   *)
(* long as there is no choice.                                             *)
LEMMA WayIsReached ==
  ASSUME NEW ns, NEW path, Len(path) \in Nat,
         DOMAIN ns \subseteq Nat \X Nat, IsFiniteSet(DOMAIN ns)
  PROVE  /\ \A k \in 0..Len(path) : Way(ns, path)[k] \subseteq Reached(ns, path)[k]
         /\ Unambiguous(ns, path) =>
              \A k \in 0..Len(path) - 1 : Way(ns, path)[k] = Reached(ns, path)[k]
<1> DEFINE way == Way(ns, path)
           reached == Reached(ns, path)
           n == Len(path)
<1>1. /\ way[0] = {NoNode} /\ reached[0] = {NoNode}
      /\ \A k \in 1..n : way[k] = Leads(Below(ns, path[k], way[k - 1]))
      /\ \A k \in 1..n : reached[k] = Below(ns, path[k], reached[k - 1])
  BY WayIs, ReachedIs
<1>2. \A c, P : Below(ns, c, P) \subseteq DOMAIN ns
  BY BelowIs
<1>3. \A c, P, Q : P \subseteq Q => Below(ns, c, P) \subseteq Below(ns, c, Q)
  BY BelowIs
<1>4. ASSUME NEW c, NEW P, Below(ns, c, P) # {}
      PROVE  First(Below(ns, c, P)) \in Below(ns, c, P)
  <2> DEFINE B == Below(ns, c, P)
  <2>1. B \subseteq Nat \X Nat /\ B # {}
    BY <1>2, <1>4
  <2> HIDE DEF B
  <2>2. First(B) \in B
    BY <2>1, FirstIs
  <2> QED
    BY <2>2 DEF B
<1> HIDE DEF way, reached, n
<1>n. n \in Nat
  BY DEF n
<1>5. \A k \in 0..n : way[k] \subseteq reached[k]
  <2> DEFINE Off == {k \in 0..n : ~(way[k] \subseteq reached[k])}
  <2>1. SUFFICES ASSUME Off # {} PROVE FALSE
    OBVIOUS
  <2>2. PICK k \in Off : \A i \in Off : k <= i
    <3>1. Off \subseteq Nat
      BY <1>n
    <3> HIDE DEF Off
    <3> QED
      BY <2>1, <3>1, LeastNumber
  <2>3. k \in 0..n /\ ~(way[k] \subseteq reached[k]) /\ k # 0
    BY <1>1, <2>2
  <2>4. k \in 1..n /\ k - 1 \in 0..n /\ ~(k <= k - 1)
    BY <1>n, <2>3
  <2>5. way[k - 1] \subseteq reached[k - 1]
    <3> HIDE DEF Off
    <3>1. k - 1 \notin Off
      BY <2>2, <2>4
    <3> QED
      BY <2>4, <3>1 DEF Off
  <2>6. Below(ns, path[k], way[k - 1]) \subseteq reached[k]
    BY <1>1, <1>3, <2>4, <2>5
  <2>7. way[k] \subseteq Below(ns, path[k], way[k - 1])
    <3> DEFINE B == Below(ns, path[k], way[k - 1])
    <3>1. way[k] = IF B = {} THEN {} ELSE {First(B)}
      BY <1>1, <2>4 DEF Leads
    <3>2. B # {} => First(B) \in B
      BY <1>4
    <3> HIDE DEF B
    <3>3. way[k] \subseteq B
      BY <3>1, <3>2
    <3> QED
      BY <3>3 DEF B
  <2> QED
    BY <2>3, <2>6, <2>7
<1>6. ASSUME Unambiguous(ns, path)
      PROVE  \A k \in 0..n - 1 : way[k] = reached[k]
  <2> DEFINE Off == {k \in 0..n - 1 : way[k] # reached[k]}
  <2>1. SUFFICES ASSUME Off # {} PROVE FALSE
    OBVIOUS
  <2>2. PICK k \in Off : \A i \in Off : k <= i
    <3>1. Off \subseteq Nat
      BY <1>n
    <3> HIDE DEF Off
    <3> QED
      BY <2>1, <3>1, LeastNumber
  <2>3. k \in 0..n - 1 /\ way[k] # reached[k] /\ k # 0
    BY <1>1, <2>2
  <2>4. k \in 1..n /\ k \in 1..n - 1 /\ k - 1 \in 0..n - 1 /\ ~(k <= k - 1)
    BY <1>n, <2>3
  <2>5. way[k - 1] = reached[k - 1]
    <3> HIDE DEF Off
    <3>1. k - 1 \notin Off
      BY <2>2, <2>4
    <3> QED
      BY <2>4, <3>1 DEF Off
  <2> DEFINE B == Below(ns, path[k], reached[k - 1])
  <2>6. /\ reached[k] = B /\ way[k] = IF B = {} THEN {} ELSE {First(B)}
        /\ B # {} => First(B) \in B
    BY <1>1, <1>4, <2>4, <2>5 DEF Leads
  <2>7. IsFiniteSet(B)
    BY <1>2, FS_Subset
  <2>8. Cardinality(B) <= 1
    BY <1>6, <2>4, <2>6 DEF Unambiguous, n, reached
  <2> HIDE DEF B
  <2>9. \A x, y \in B : x = y
    <3>1. Cardinality(B) \in Nat
      BY <2>7, FS_CardinalityType
    <3>2. Cardinality(B) = 0 \/ Cardinality(B) = 1
      BY <2>8, <3>1
    <3>3. B = {} \/ \E x : B = {x}
      BY <2>7, <3>2, FS_EmptySet, FS_Singleton
    <3> QED
      BY <3>3
  <2> QED
    BY <2>3, <2>6, <2>9
<1> QED
  BY <1>5, <1>6 DEF way, reached, n

-----------------------------------------------------------------------------
(* Folds.  FoldLeft is defined over the sets of the places of a sequence,  *)
(* the greatest of which comes last.                                       *)
IsFold(f, n, first, G) ==
  f = [s \in SUBSET (1..n) |->
         IF s = {} THEN first ELSE G[Max(s)][f[s \ {Max(s)}]]]

(* A step of each of the folds. *)
Step(kind, u, x) ==
  CASE kind = "filter"    -> AddFilter(u, x)
    [] kind = "part"      -> AddPart(u, x)
    [] kind = "attribute" -> SetAttribute(u, x.left, x.right)
    [] kind = "join"      -> u \o x.filters

FoldOf(kind, f, first, s) ==
  f = [places \in SUBSET (DOMAIN s) |->
         IF places = {} THEN first
         ELSE Step(kind, f[places \ {Max(places)}], s[Max(places)])]

Folded(kind, first, s) == (CHOOSE f : FoldOf(kind, f, first, s))[DOMAIN s]

Filtered(nodes, filters) == FoldLeft(AddFilter, nodes, filters)

(* The greatest number of a set of places. *)
LEMMA MaxIs ==
  ASSUME NEW n \in Nat, NEW s, s \subseteq 1..n, s # {}
  PROVE  Max(s) \in s /\ \A k \in s : Max(s) >= k
<1>1. s \subseteq 0..n
  OBVIOUS
<1>2. PICK m \in s : \A k \in s : k <= m
  BY <1>1, GreatestNumber
<1>3. \A k \in s : m >= k
  BY <1>2
<1> QED
  BY <1>2, <1>3 DEF Max

(* Of the first n places the last one comes last. *)
LEMMA MaxOfFirst ==
  ASSUME NEW n \in Nat, n # 0
  PROVE  Max(1..n) = n /\ (1..n) \ {n} = 1..n - 1
<1> DEFINE s == 1..n
<1>1. s \subseteq 1..n /\ s # {} /\ n \in s
  OBVIOUS
<1>2. Max(s) \in s /\ \A k \in s : Max(s) >= k
  <2> HIDE DEF s
  <2> QED
    BY <1>1, MaxIs
<1> DEFINE greatest == Max(s)
<1>3. greatest \in 1..n /\ greatest >= n
  BY <1>1, <1>2
<1> HIDE DEF greatest
<1>4. greatest = n /\ (1..n) \ {n} = 1..n - 1
  BY <1>3
<1> QED
  BY <1>4 DEF greatest

(* There is a function that folds, place by place. *)
LEMMA FoldExists ==
  ASSUME NEW n \in Nat, NEW U, NEW first \in U, NEW G \in [1..n -> [U -> U]]
  PROVE  \E f \in [SUBSET (1..n) -> U] : IsFold(f, n, first, G)
<1> DEFINE None == {m \in 0..n : ~\E f \in [SUBSET (1..m) -> U] : IsFold(f, m, first, G)}
<1>1. None = {}
  <2> SUFFICES ASSUME None # {} PROVE FALSE
    OBVIOUS
  <2>1. PICK m \in None : \A k \in None : m <= k
    <3>1. None \subseteq Nat
      OBVIOUS
    <3> HIDE DEF None
    <3> QED
      BY <3>1, LeastNumber
  <2>2. m \in 0..n /\ ~\E f \in [SUBSET (1..m) -> U] : IsFold(f, m, first, G)
    BY <2>1
  <2>3. CASE m = 0
    <3> DEFINE g == [s \in SUBSET (1..0) |-> first]
    <3>1. \A s \in SUBSET (1..0) : s = {}
      OBVIOUS
    <3>2. g = [s \in SUBSET (1..0) |->
                 IF s = {} THEN first ELSE G[Max(s)][g[s \ {Max(s)}]]]
      BY <3>1
    <3>3. g \in [SUBSET (1..m) -> U] /\ IsFold(g, m, first, G)
      BY <2>3, <3>2 DEF IsFold
    <3> QED
      BY <2>2, <3>3
  <2>4. CASE m # 0
    <3> DEFINE l == m - 1
    <3>1. l \in 0..n /\ l \notin None /\ m \in 1..n /\ l \in Nat
      <4> HIDE DEF None
      <4>1. l \in 0..n /\ m \in 1..n /\ ~(m <= l) /\ l \in Nat
        BY <2>2, <2>4
      <4> QED
        BY <2>1, <4>1
    <3>2. PICK f \in [SUBSET (1..l) -> U] : IsFold(f, l, first, G)
      BY <3>1
    <3> DEFINE g == [s \in SUBSET (1..m) |->
                       IF m \in s THEN G[m][f[s \ {m}]] ELSE f[s]]
    <3>3. \A s \in SUBSET (1..m) :
            IF m \in s THEN s \ {m} \in SUBSET (1..l) ELSE s \in SUBSET (1..l)
      BY <3>1
    <3>4. g \in [SUBSET (1..m) -> U]
      BY <3>1, <3>3
    <3>5. ASSUME NEW s \in SUBSET (1..m), s # {}
          PROVE  g[s] = G[Max(s)][g[s \ {Max(s)}]]
      <4>1. Max(s) \in s /\ \A k \in s : Max(s) >= k
        <5>1. m \in Nat /\ s \subseteq 1..m /\ s # {}
          BY <3>1, <3>5
        <5> HIDE DEF g, None
        <5> QED
          BY <5>1, MaxIs
      <4>2. CASE m \in s
        <5>1. Max(s) = m
          <6> DEFINE greatest == Max(s)
          <6>1. greatest \in 1..m /\ greatest >= m
            BY <3>5, <4>1, <4>2
          <6> HIDE DEF greatest, g, None
          <6>2. greatest = m
            BY <3>1, <6>1
          <6> QED
            BY <6>2 DEF greatest
        <5>2. g[s \ {m}] = f[s \ {m}] /\ g[s] = G[m][f[s \ {m}]]
          BY <4>2
        <5> QED
          BY <5>1, <5>2
      <4>3. CASE m \notin s
        <5>1. s \in SUBSET (1..l) /\ g[s] = f[s] /\ g[s \ {Max(s)}] = f[s \ {Max(s)}]
          BY <3>3, <4>3
        <5>2. f[s] = G[Max(s)][f[s \ {Max(s)}]]
          BY <3>2, <3>5, <5>1 DEF IsFold
        <5> QED
          BY <5>1, <5>2
      <4> QED
        BY <4>2, <4>3
    <3>6. g[{}] = first
      <4>1. {} \in SUBSET (1..m) /\ {} \in SUBSET (1..l) /\ m \notin {}
        OBVIOUS
      <4>2. f[{}] = first
        BY <3>2, <4>1 DEF IsFold
      <4> QED
        BY <4>1, <4>2
    <3> HIDE DEF g
    <3>7. IsFold(g, m, first, G)
      <4>1. g = [s \in SUBSET (1..m) |-> g[s]]
        BY <3>4
      <4> QED
        BY <3>5, <3>6, <4>1 DEF IsFold
    <3> QED
      BY <2>2, <3>4, <3>7
  <2> QED
    BY <2>3, <2>4
<1>2. n \in 0..n
  OBVIOUS
<1>3. n \notin None
  BY <1>1
<1> QED
  BY <1>2, <1>3

(* There is one whose steps are those of a fold. *)
LEMMA FoldOfExists ==
  ASSUME NEW kind, NEW U, NEW first \in U, NEW n \in Nat, NEW s, DOMAIN s = 1..n,
         \A u \in U, k \in 1..n : Step(kind, u, s[k]) \in U
  PROVE  \E f : FoldOf(kind, f, first, s)
<1> DEFINE G == [k \in 1..n |-> [u \in U |-> Step(kind, u, s[k])]]
<1>1. G \in [1..n -> [U -> U]]
  OBVIOUS
<1>2. \A k \in 1..n, u \in U : G[k][u] = Step(kind, u, s[k])
  OBVIOUS
<1> HIDE DEF G
<1>3. PICK f \in [SUBSET (1..n) -> U] : IsFold(f, n, first, G)
  BY <1>1, FoldExists
<1>4. ASSUME NEW p \in SUBSET (1..n), p # {}
      PROVE  G[Max(p)][f[p \ {Max(p)}]] = Step(kind, f[p \ {Max(p)}], s[Max(p)])
  <2>1. Max(p) \in p
    BY <1>4, MaxIs
  <2>2. Max(p) \in 1..n /\ p \ {Max(p)} \in SUBSET (1..n)
    BY <2>1
  <2>3. f[p \ {Max(p)}] \in U
    BY <1>3, <2>2
  <2> QED
    BY <1>2, <2>2, <2>3
<1>5. f = [p \in SUBSET (1..n) |->
             IF p = {} THEN first ELSE Step(kind, f[p \ {Max(p)}], s[Max(p)])]
  BY <1>3, <1>4 DEF IsFold
<1> QED
  BY <1>5 DEF FoldOf

(* A fold takes one step after the other, and stays where they lead to.    *)
LEMMA FoldSteps ==
  ASSUME NEW n \in Nat, NEW f, NEW U, NEW first \in U, NEW G, IsFold(f, n, first, G),
         \A k \in 1..n, s \in SUBSET (1..n) : f[s] \in U => G[k][f[s]] \in U
  PROVE  /\ f[1..0] = first
         /\ \A k \in 1..n : f[1..k] = G[k][f[1..k - 1]]
         /\ \A k \in 0..n : f[1..k] \in U
<1> DEFINE Off == {k \in 0..n : f[1..k] \notin U}
<1>1. f[1..0] = first
  <2>1. 1..0 = {} /\ {} \in SUBSET (1..n)
    OBVIOUS
  <2> QED
    BY <2>1 DEF IsFold
<1>2. ASSUME NEW k \in 1..n PROVE f[1..k] = G[k][f[1..k - 1]] /\ 1..k - 1 \in SUBSET (1..n)
  <2> DEFINE s == 1..k
  <2>1. s \in SUBSET (1..n) /\ s # {} /\ Max(s) = k /\ s \ {k} = 1..k - 1
    <3>1. s \subseteq 1..n /\ k \in s /\ k \in Nat /\ k # 0
      OBVIOUS
    <3> QED
      BY <3>1, MaxOfFirst
  <2>2. 1..k - 1 \in SUBSET (1..n)
    BY <2>1
  <2> HIDE DEF s
  <2>3. f[s] = G[Max(s)][f[s \ {Max(s)}]]
    BY <2>1 DEF IsFold
  <2> QED
    BY <2>1, <2>2, <2>3 DEF s
<1>3. Off = {}
  <2> SUFFICES ASSUME Off # {} PROVE FALSE
    OBVIOUS
  <2>1. PICK m \in Off : \A k \in Off : m <= k
    <3>1. Off \subseteq Nat
      OBVIOUS
    <3> HIDE DEF Off
    <3> QED
      BY <3>1, LeastNumber
  <2>2. m \in 0..n /\ f[1..m] \notin U
    BY <2>1
  <2>3. m # 0
    BY <1>1, <2>2
  <2>4. m - 1 \in 0..n /\ m \in 1..n /\ ~(m <= m - 1)
    BY <2>2, <2>3
  <2>5. m - 1 \notin Off
    <3> HIDE DEF Off
    <3> QED
      BY <2>1, <2>4
  <2>6. f[1..m - 1] \in U
    BY <2>4, <2>5
  <2>7. G[m][f[1..m - 1]] \in U
    BY <1>2, <2>4, <2>6
  <2> QED
    BY <1>2, <2>2, <2>4, <2>7
<1> QED
  BY <1>1, <1>2, <1>3

(* What is folded is made step by step, ... *)
FoldedFrom(kind, first, s, n, U, h) ==
  /\ h \in [0..n -> U] /\ h[0] = first /\ h[n] = Folded(kind, first, s)
  /\ \A k \in 1..n : h[k] = Step(kind, h[k - 1], s[k])

LEMMA FoldedSteps ==
  ASSUME NEW kind, NEW U, NEW first \in U, NEW n \in Nat, NEW s, DOMAIN s = 1..n,
         \A u \in U, k \in 1..n : Step(kind, u, s[k]) \in U
  PROVE  \E h : FoldedFrom(kind, first, s, n, U, h)
<1> DEFINE f == CHOOSE g : FoldOf(kind, g, first, s)
           R == {f[p] : p \in SUBSET (1..n)}
           G == [k \in 1..n |-> [u \in R |-> Step(kind, u, s[k])]]
           h == [k \in 0..n |-> f[1..k]]
<1>1. FoldOf(kind, f, first, s)
  BY FoldOfExists
<1>2. Folded(kind, first, s) = f[1..n]
  BY DEF Folded
<1> HIDE DEF f
<1>3. \A k \in 1..n, p \in SUBSET (1..n) : G[k][f[p]] = Step(kind, f[p], s[k])
  OBVIOUS
<1>4. IsFold(f, n, first, G)
  <2>1. ASSUME NEW p \in SUBSET (1..n), p # {}
        PROVE  G[Max(p)][f[p \ {Max(p)}]] = Step(kind, f[p \ {Max(p)}], s[Max(p)])
    <3>1. Max(p) \in 1..n /\ p \ {Max(p)} \in SUBSET (1..n)
      BY <2>1, MaxIs
    <3> HIDE DEF G
    <3> QED
      BY <1>3, <3>1
  <2> HIDE DEF G
  <2> QED
    BY <1>1, <2>1 DEF FoldOf, IsFold
<1>5. \A k \in 1..n, p \in SUBSET (1..n) : f[p] \in U => G[k][f[p]] \in U
  BY <1>3
<1> HIDE DEF G
<1>6. /\ f[1..0] = first
      /\ \A k \in 1..n : f[1..k] = G[k][f[1..k - 1]]
      /\ \A k \in 0..n : f[1..k] \in U
  BY <1>4, <1>5, FoldSteps
<1>7. h \in [0..n -> U] /\ h[0] = first /\ h[n] = f[1..n]
  BY <1>6
<1>8. ASSUME NEW k \in 1..n PROVE h[k] = Step(kind, h[k - 1], s[k])
  <2>1. k \in 0..n /\ k - 1 \in 0..n /\ 1..k - 1 \in SUBSET (1..n)
    OBVIOUS
  <2>2. h[k] = f[1..k] /\ h[k - 1] = f[1..k - 1]
    BY <2>1
  <2> QED
    BY <1>3, <1>6, <2>1, <2>2
<1> HIDE DEF h
<1> QED
  BY <1>2, <1>7, <1>8 DEF FoldedFrom

(* ... out of no set that a step does not lead out of. *)
LEMMA FoldedStays ==
  ASSUME NEW kind, NEW U, NEW first \in U, NEW n \in Nat, NEW s, DOMAIN s = 1..n,
         \A u \in U, k \in 1..n : Step(kind, u, s[k]) \in U
  PROVE  Folded(kind, first, s) \in U
<1>1. PICK h : FoldedFrom(kind, first, s, n, U, h)
  BY FoldedSteps
<1>2. n \in 0..n
  OBVIOUS
<1> QED
  BY <1>1, <1>2 DEF FoldedFrom

(* Two that start alike and take the same steps end alike.                 *)
StepAlike(g, h, n) ==
  g[0] = h[0] /\ \A k \in 1..n : g[k - 1] = h[k - 1] => g[k] = h[k]

LEMMA SameSteps ==
  ASSUME NEW n \in Nat, NEW g, NEW h, StepAlike(g, h, n)
  PROVE  g[n] = h[n]
<1> DEFINE Off == {k \in 0..n : g[k] # h[k]}
<1> SUFFICES ASSUME Off # {} PROVE FALSE
  <2>1. n \in 0..n
    OBVIOUS
  <2> QED
    BY <2>1
<1>1. PICK m \in Off : \A k \in Off : m <= k
  <2>1. Off \subseteq Nat
    OBVIOUS
  <2> HIDE DEF Off
  <2> QED
    BY <2>1, LeastNumber
<1>2. m \in 0..n /\ g[m] # h[m] /\ m # 0
  BY <1>1 DEF StepAlike
<1>3. m - 1 \in 0..n /\ m \in 1..n /\ ~(m <= m - 1)
  BY <1>2
<1>4. m - 1 \notin Off
  <2> HIDE DEF Off
  <2> QED
    BY <1>1, <1>3
<1> QED
  BY <1>2, <1>3, <1>4 DEF StepAlike

(* Nothing leaves what there was. *)
LEMMA FoldedNone ==
  ASSUME NEW kind, NEW first, NEW s, DOMAIN s = 1..0
  PROVE  Folded(kind, first, s) = first
<1> DEFINE U == {first}
           n == 0
<1>1. n \in Nat /\ first \in U /\ DOMAIN s = 1..n
  OBVIOUS
<1>2. \A u \in U, k \in 1..n : Step(kind, u, s[k]) \in U
  OBVIOUS
<1> HIDE DEF U, n
<1>3. PICK h : FoldedFrom(kind, first, s, n, U, h)
  BY <1>1, <1>2, FoldedSteps
<1> QED
  BY <1>3 DEF FoldedFrom, n

(* One more place is one more step. *)
LEMMA FoldedLonger ==
  ASSUME NEW kind, NEW U, NEW first \in U, NEW n \in Nat,
         NEW s, DOMAIN s = 1..n, NEW longer, DOMAIN longer = 1..n + 1,
         \A k \in 1..n : longer[k] = s[k],
         \A u \in U, k \in 1..n + 1 : Step(kind, u, longer[k]) \in U
  PROVE  /\ Folded(kind, first, longer) = Step(kind, Folded(kind, first, s), longer[n + 1])
         /\ Folded(kind, first, s) \in U
<1> DEFINE m == n + 1
<1>1. m \in Nat /\ m \in 1..m /\ m - 1 = n /\ n \in 0..n
  OBVIOUS
<1>2. \A k \in 1..n : k \in 1..m
  OBVIOUS
<1>3. \A u \in U, k \in 1..n : Step(kind, u, s[k]) \in U
  <2>1. \A u \in U, k \in 1..n : Step(kind, u, longer[k]) \in U
    OBVIOUS
  <2> QED
    BY <2>1
<1>4. PICK g : FoldedFrom(kind, first, s, n, U, g)
  BY <1>3, FoldedSteps
<1>5. PICK h : FoldedFrom(kind, first, longer, m, U, h)
  <2>1. DOMAIN longer = 1..m /\ \A u \in U, k \in 1..m : Step(kind, u, longer[k]) \in U
    OBVIOUS
  <2> HIDE DEF m
  <2> QED
    BY <1>1, <2>1, FoldedSteps
<1> HIDE DEF m
<1>6. \A k \in 1..n : g[k - 1] = h[k - 1] => g[k] = h[k]
  BY <1>2, <1>4, <1>5 DEF FoldedFrom
<1>7. g[n] = h[n]
  <2>1. StepAlike(g, h, n)
    BY <1>4, <1>5, <1>6 DEF FoldedFrom, StepAlike
  <2> QED
    BY <2>1, SameSteps
<1>8. h[m] = Step(kind, h[n], longer[m])
  BY <1>1, <1>5 DEF FoldedFrom
<1>9. /\ g[n] \in U /\ g[n] = Folded(kind, first, s)
      /\ h[m] = Folded(kind, first, longer)
  BY <1>1, <1>4, <1>5 DEF FoldedFrom
<1> QED
  BY <1>7, <1>8, <1>9 DEF m

-----------------------------------------------------------------------------
(* The folds there are, as the library defines them. *)
FilterFold(f, nodes, filters) ==
  f = [places \in SUBSET (DOMAIN filters) |->
         IF places = {} THEN nodes
         ELSE AddFilter(f[places \ {Max(places)}], filters[Max(places)])]

PartFold(f, path) ==
  f = [places \in SUBSET (DOMAIN path) |->
         IF places = {} THEN <<>>
         ELSE AddPart(f[places \ {Max(places)}], path[Max(places)])]

JoinFold(f, parts) ==
  f = [places \in SUBSET (DOMAIN parts) |->
         IF places = {} THEN <<>>
         ELSE f[places \ {Max(places)}] \o parts[Max(places)].filters]

AttributeFold(f, filters) ==
  f = [places \in SUBSET (DOMAIN filters) |->
         IF places = {} THEN NoFileInfo
         ELSE SetAttribute(f[places \ {Max(places)}], filters[Max(places)].left,
                           filters[Max(places)].right)]

(* FoldLeft(AddFilter, ...): *)
LEMMA FilteredIs ==
  ASSUME NEW nodes, NEW filters
  PROVE  Filtered(nodes, filters) = Folded("filter", nodes, filters)
<1>1. Filtered(nodes, filters) = (CHOOSE f : FilterFold(f, nodes, filters))[DOMAIN filters]
  BY DEF Filtered, FoldLeft, MapThenFoldSet, FilterFold
<1>2. \A u, x : Step("filter", u, x) = AddFilter(u, x)
  BY DEF Step
<1>3. \A f : FilterFold(f, nodes, filters) <=> FoldOf("filter", f, nodes, filters)
  BY <1>2 DEF FilterFold, FoldOf
<1>4. (CHOOSE f : FilterFold(f, nodes, filters)) = CHOOSE f : FoldOf("filter", f, nodes, filters)
  BY <1>3
<1> QED
  BY <1>1, <1>4 DEF Folded

LEMMA FilteredStays ==
  ASSUME NEW U, NEW nodes \in U, NEW n \in Nat, NEW filters, DOMAIN filters = 1..n,
         \A u \in U, k \in 1..n : AddFilter(u, filters[k]) \in U
  PROVE  Filtered(nodes, filters) \in U
<1>1. \A u \in U, k \in 1..n : Step("filter", u, filters[k]) \in U
  BY DEF Step
<1> DEFINE kind == "filter"
<1>2. Filtered(nodes, filters) = Folded(kind, nodes, filters)
  BY FilteredIs
<1>3. \A u \in U, k \in 1..n : Step(kind, u, filters[k]) \in U
  BY <1>1
<1> HIDE DEF kind
<1> QED
  BY <1>2, <1>3, FoldedStays

(* FoldLeft(AddPart, ...): *)
LEMMA ParsedFold == ASSUME NEW path PROVE Parsed(path) = Folded("part", <<>>, path)
<1>1. Parsed(path) = (CHOOSE f : PartFold(f, path))[DOMAIN path]
  BY DEF Parsed, FoldLeft, MapThenFoldSet, PartFold
<1>2. \A u, x : Step("part", u, x) = AddPart(u, x)
  BY DEF Step
<1>3. \A f : PartFold(f, path) <=> FoldOf("part", f, <<>>, path)
  BY <1>2 DEF PartFold, FoldOf
<1>4. (CHOOSE f : PartFold(f, path)) = CHOOSE f : FoldOf("part", f, <<>>, path)
  BY <1>3
<1> QED
  BY <1>1, <1>4 DEF Folded

(* FoldLeft over the filters of all parts: *)
LEMMA AllFiltersFold == ASSUME NEW parts PROVE AllFilters(parts) = Folded("join", <<>>, parts)
<1>1. AllFilters(parts) = (CHOOSE f : JoinFold(f, parts))[DOMAIN parts]
  BY DEF AllFilters, FoldLeft, MapThenFoldSet, JoinFold
<1>2. \A u, x : Step("join", u, x) = u \o x.filters
  BY DEF Step
<1>3. \A f : JoinFold(f, parts) <=> FoldOf("join", f, <<>>, parts)
  BY <1>2 DEF JoinFold, FoldOf
<1>4. (CHOOSE f : JoinFold(f, parts)) = CHOOSE f : FoldOf("join", f, <<>>, parts)
  BY <1>3
<1> QED
  BY <1>1, <1>4 DEF Folded

(* FoldLeft over the attributes of a file: *)
LEMMA ArgumentsFold ==
  ASSUME NEW filters, Len(filters) # 1
  PROVE  Arguments(filters) = Folded("attribute", NoFileInfo, filters)
<1>1. Arguments(filters) = (CHOOSE f : AttributeFold(f, filters))[DOMAIN filters]
  BY DEF Arguments, FoldLeft, MapThenFoldSet, AttributeFold
<1>2. \A u, x : Step("attribute", u, x) = SetAttribute(u, x.left, x.right)
  BY DEF Step
<1>3. \A f : AttributeFold(f, filters) <=> FoldOf("attribute", f, NoFileInfo, filters)
  BY <1>2 DEF AttributeFold, FoldOf
<1>4. (CHOOSE f : AttributeFold(f, filters)) = CHOOSE f : FoldOf("attribute", f, NoFileInfo, filters)
  BY <1>3
<1> QED
  BY <1>1, <1>4 DEF Folded

-----------------------------------------------------------------------------
(* The query the parser builds.                                            *)
QueryNodes(N, F) == [name : N, filters : Seq(F)]

(* AddFilter keeps the names there are, and makes a root where there is no *)
(* node.                                                                   *)
LEMMA AddFilterIs ==
  ASSUME NEW N, NEW F, RootName \in N, NEW nodes \in Seq(QueryNodes(N, F)), NEW filter \in F
  PROVE  /\ AddFilter(nodes, filter) \in Seq(QueryNodes(N, F))
         /\ nodes # <<>> =>
              /\ Len(AddFilter(nodes, filter)) = Len(nodes)
              /\ \A i \in 1..Len(nodes) : AddFilter(nodes, filter)[i].name = nodes[i].name
         /\ nodes = <<>> =>
              Len(AddFilter(nodes, filter)) = 1 /\ AddFilter(nodes, filter)[1].name = RootName
<1> DEFINE root == ParsedNode(RootName, <<>>)
           present == IF nodes = <<>> THEN <<root>> ELSE nodes
           n == Len(present)
           last == present[n]
           new == ParsedNode(last.name, Append(last.filters, filter))
           after == AddFilter(nodes, filter)
<1>1. root \in QueryNodes(N, F) /\ root.name = RootName
  <2>1. <<>> \in Seq(F)
    OBVIOUS
  <2> QED
    BY <2>1 DEF ParsedNode, QueryNodes
<1>2. /\ present \in Seq(QueryNodes(N, F)) /\ n \in Nat \ {0}
      /\ nodes # <<>> => present = nodes
      /\ nodes = <<>> => n = 1 /\ present[1] = root
  <2> HIDE DEF root
  <2> QED
    BY <1>1
<1> HIDE DEF present, root
<1>3. last \in QueryNodes(N, F)
  BY <1>2
<1> HIDE DEF last
<1>4. Append(last.filters, filter) \in Seq(F)
  BY <1>3 DEF QueryNodes
<1>5. new \in QueryNodes(N, F) /\ new.name = last.name
  BY <1>3, <1>4 DEF QueryNodes, ParsedNode
<1> HIDE DEF new
<1>6. after = [present EXCEPT ![n] = new]
  BY DEF AddFilter, new, last, present, root
<1> HIDE DEF after
<1>7. after \in Seq(QueryNodes(N, F)) /\ Len(after) = n
  BY <1>2, <1>5, <1>6
<1>8. \A i \in 1..n : after[i].name = present[i].name
  BY <1>2, <1>5, <1>6 DEF last
<1>9. nodes # <<>> =>
        Len(after) = Len(nodes) /\ \A i \in 1..Len(nodes) : after[i].name = nodes[i].name
  BY <1>2, <1>7, <1>8
<1>10. nodes = <<>> => Len(after) = 1 /\ after[1].name = RootName
  BY <1>1, <1>2, <1>7, <1>8
<1> QED
  BY <1>7, <1>9, <1>10 DEF after

(* AddParsedNode puts a node at the end, or names the root.                *)
LEMMA AddParsedNodeIs ==
  ASSUME NEW N, NEW F, NEW nodes \in Seq(QueryNodes(N, F)), NEW name \in N
  PROVE  /\ AddParsedNode(nodes, name) \in Seq(QueryNodes(N, F))
         /\ AddParsedNode(nodes, name) # <<>>
<1> DEFINE after == AddParsedNode(nodes, name)
<1>1. CASE nodes # <<>> /\ nodes[1].name = RootName
  <2> DEFINE new == ParsedNode(name, nodes[1].filters)
  <2>1. new \in QueryNodes(N, F)
    <3>1. nodes[1] \in QueryNodes(N, F)
      BY <1>1
    <3> QED
      BY <3>1 DEF QueryNodes, ParsedNode
  <2> HIDE DEF new
  <2>2. after = [nodes EXCEPT ![1] = new]
    BY <1>1 DEF AddParsedNode, new
  <2> HIDE DEF after
  <2>3. after \in Seq(QueryNodes(N, F)) /\ Len(after) = Len(nodes)
    BY <1>1, <2>1, <2>2
  <2>4. after # <<>>
    BY <1>1, <2>3
  <2> QED
    BY <2>3, <2>4 DEF after
<1>2. CASE ~(nodes # <<>> /\ nodes[1].name = RootName)
  <2> DEFINE new == ParsedNode(name, <<>>)
  <2>1. new \in QueryNodes(N, F)
    <3>1. <<>> \in Seq(F)
      OBVIOUS
    <3> QED
      BY <3>1 DEF QueryNodes, ParsedNode
  <2> HIDE DEF new
  <2>2. after = Append(nodes, new)
    BY <1>2 DEF AddParsedNode, new
  <2> HIDE DEF after
  <2>3. after \in Seq(QueryNodes(N, F)) /\ after # <<>>
    BY <2>1, <2>2
  <2> QED
    BY <2>3 DEF after
<1> QED
  BY <1>1, <1>2

(* A part with its filters makes a query of a query, with a node at least. *)
LEMMA AddPartIs ==
  ASSUME NEW N, NEW F, RootName \in N, NEW nodes \in Seq(QueryNodes(N, F)), NEW part,
         part.name \in N, part.filters \in Seq(F)
  PROVE  /\ AddPart(nodes, part) \in Seq(QueryNodes(N, F))
         /\ AddPart(nodes, part) # <<>>
<1> DEFINE U == Seq(QueryNodes(N, F))
           n == Len(part.filters)
           filters == part.filters
           filtered == Filtered(nodes, filters)
<1>1. n \in Nat /\ DOMAIN filters = 1..n /\ \A k \in 1..n : filters[k] \in F
  OBVIOUS
<1>2. \A u \in U, k \in 1..n : AddFilter(u, filters[k]) \in U
  BY <1>1, AddFilterIs
<1>3. nodes \in U
  OBVIOUS
<1>4. filtered \in U
  <2>1. n \in Nat /\ DOMAIN filters = 1..n
    BY <1>1
  <2> HIDE DEF U, n, filters
  <2> QED
    BY <2>1, <1>2, <1>3, FilteredStays
<1>5. AddPart(nodes, part) = AddParsedNode(filtered, part.name)
  BY DEF AddPart, Filtered
<1> HIDE DEF filtered
<1> QED
  BY <1>4, <1>5, AddParsedNodeIs

(* What is typed: the names and the filters of the parts of a path. *)
PathNames(path) == {path[i].name : i \in DOMAIN path} \cup {RootName}

PathFilters(path) == UNION {Range(path[i].filters) : i \in DOMAIN path}

(* A path whose names and filters are among these. *)
IsPath(path, N, F) ==
  /\ Len(path) \in Nat /\ DOMAIN path = 1..Len(path)
  /\ RootName \in N
  /\ \A k \in 1..Len(path) : path[k].name \in N /\ path[k].filters \in Seq(F)

LEMMA PartsTyped ==
  ASSUME NEW path, IsTypedPath(path)
  PROVE  IsPath(path, PathNames(path), PathFilters(path)) /\ Len(path) # 0
<1> DEFINE F == PathFilters(path)
<1>1. RootName \in PathNames(path)
  BY DEF PathNames
<1>2. ASSUME NEW k \in DOMAIN path
      PROVE  path[k].name \in PathNames(path) /\ path[k].filters \in Seq(F)
  <2> DEFINE filters == path[k].filters
  <2>1. path[k].name \in PathNames(path)
    BY DEF PathNames
  <2>2. filters \in Seq(Range(filters)) /\ Range(filters) \subseteq F
    BY DEF IsTypedPath, PathFilters
  <2> HIDE DEF F, filters
  <2>3. filters \in Seq(F)
    BY <2>2
  <2> QED
    BY <2>1, <2>3 DEF filters
<1>3. Len(path) \in Nat \ {0} /\ DOMAIN path = 1..Len(path)
  BY DEF IsTypedPath
<1> QED
  BY <1>1, <1>2, <1>3 DEF IsPath

(* A query is built part by part. *)
BuiltFrom(path, N, F, h) ==
  /\ h \in [0..Len(path) -> Seq(QueryNodes(N, F))]
  /\ h[0] = <<>> /\ h[Len(path)] = Parsed(path)
  /\ \A k \in 1..Len(path) : h[k] = AddPart(h[k - 1], path[k])

LEMMA ParsedSteps ==
  ASSUME NEW N, NEW F, NEW path, IsPath(path, N, F)
  PROVE  \E h : BuiltFrom(path, N, F, h)
<1> DEFINE U == Seq(QueryNodes(N, F))
           n == Len(path)
           none == <<>>
<1>1. n \in Nat /\ DOMAIN path = 1..n
  BY DEF IsPath
<1>2. RootName \in N /\ \A k \in 1..n : path[k].name \in N /\ path[k].filters \in Seq(F)
  BY DEF IsPath
<1>3. \A u \in U, k \in 1..n : AddPart(u, path[k]) \in U
  BY <1>2, AddPartIs
<1>4. none \in U
  OBVIOUS
<1> HIDE DEF U, n, none
<1> DEFINE kind == "part"
<1>5. \A u \in U, k \in 1..n : Step(kind, u, path[k]) \in U
  BY <1>3 DEF Step
<1>6. Folded(kind, none, path) = Parsed(path)
  BY ParsedFold DEF none
<1>7. \A u, x : Step(kind, u, x) = AddPart(u, x)
  BY DEF Step
<1> HIDE DEF kind
<1>8. PICK h : FoldedFrom(kind, none, path, n, U, h)
  BY <1>1, <1>4, <1>5, FoldedSteps
<1>9. BuiltFrom(path, N, F, h)
  BY <1>6, <1>7, <1>8 DEF FoldedFrom, BuiltFrom, U, n, none
<1> QED
  BY <1>9

(* The query has a node, and nothing in it that was not typed. *)
LEMMA ParsedIs ==
  ASSUME NEW path, IsTypedPath(path)
  PROVE  /\ Parsed(path) \in Seq(QueryNodes(PathNames(path), PathFilters(path)))
         /\ Parsed(path) # <<>>
<1> DEFINE N == PathNames(path)
           F == PathFilters(path)
           n == Len(path)
<1>1. n \in Nat \ {0} /\ IsPath(path, N, F)
  BY PartsTyped DEF IsPath
<1>2. RootName \in N /\ \A k \in 1..n : path[k].name \in N /\ path[k].filters \in Seq(F)
  BY <1>1 DEF IsPath
<1>3. PICK h : BuiltFrom(path, N, F, h)
  BY <1>1, ParsedSteps
<1>4. n \in 1..n /\ n \in 0..n /\ n - 1 \in 0..n
  BY <1>1
<1> DEFINE s == h[n - 1]
           part == path[n]
<1>5. /\ s \in Seq(QueryNodes(N, F)) /\ h[n] = AddPart(s, part) /\ h[n] = Parsed(path)
      /\ part.name \in N /\ part.filters \in Seq(F)
  BY <1>2, <1>3, <1>4 DEF BuiltFrom
<1> HIDE DEF N, F, n, s, part
<1>6. h[n] \in Seq(QueryNodes(N, F)) /\ h[n] # <<>>
  BY <1>2, <1>5, AddPartIs
<1> QED
  BY <1>5, <1>6 DEF N, F

(* The chain that a command sends is a chain, and none of its filters is   *)
(* without a name or an argument unless it is [*]: the server need not     *)
(* reject it.                                                              *)
LEMMA RequestIsChain ==
  ASSUME NEW func \in FunctionTypes, NEW path, IsTypedPath(path)
  PROVE  LET chain == RequestOf(func, Parsed(path)).chain IN
         chain \in Seq(Range(chain)) /\ \A i \in DOMAIN chain : ~Rejected(chain[i])
<1> DEFINE N == PathNames(path)
           F == PathFilters(path)
           nodes == Parsed(path)
           extra == ExtraFilters(nodes)
           plain == PathChain(nodes)
           last == [i \in DOMAIN extra |-> ExtraFilter(extra[i])]
           chain == RequestOf(func, nodes).chain
           C == {f \in Range(plain) \cup Range(last) : ~Rejected(f)}
<1>1. nodes \in Seq(QueryNodes(N, F)) /\ nodes # <<>>
  BY ParsedIs
<1>2. NotSet \notin N /\ \A f \in F : IsTypedFilter(f)
  BY DEF IsTypedPath, PathNames, PathFilters, Range, NotSet, RootName
<1> HIDE DEF N, F, nodes
<1>3. /\ extra \in Seq(F) /\ Len(extra) <= 1
  <2>1. nodes[1] \in QueryNodes(N, F)
    BY <1>1
  <2>2. nodes[1].filters \in Seq(F)
    BY <2>1 DEF QueryNodes
  <2> QED
    BY <2>2 DEF ExtraFilters
<1>4. plain \in Seq(C)
  <2>1. DOMAIN plain = 1..Len(nodes) /\ Len(nodes) \in Nat
    BY <1>1 DEF PathChain
  <2>2. ASSUME NEW i \in 1..Len(nodes) PROVE plain[i] \in C
    <3>1. nodes[i].name \in N
      <4>1. nodes[i] \in QueryNodes(N, F)
        BY <1>1
      <4> QED
        BY <4>1 DEF QueryNodes
    <3>2. plain[i] = Filter("EQUAL", "name", nodes[i].name) /\ plain[i] \in Range(plain)
      BY <1>1, <2>1 DEF PathChain, Range
    <3>3. ~Rejected(plain[i])
      BY <1>2, <3>1, <3>2 DEF Rejected, Filter, NotSet
    <3> QED
      BY <3>2, <3>3
  <2> HIDE DEF C
  <2>3. plain = [i \in 1..Len(nodes) |-> plain[i]]
    BY <1>1 DEF PathChain
  <2> HIDE DEF plain
  <2> QED
    BY <2>1, <2>2, <2>3
<1>5. ~ChainCrashes(nodes) => last \in Seq(C)
  <2> SUFFICES ASSUME ~ChainCrashes(nodes) PROVE last \in Seq(C)
    OBVIOUS
  <2>1. DOMAIN extra = 1..Len(extra) /\ Len(extra) \in Nat
    BY <1>3
  <2>2. ASSUME NEW i \in 1..Len(extra) PROVE last[i] \in C
    <3>1. extra[i] \in F /\ ~ExtraFilterCrashes(extra[i])
      BY <1>3, <2>1 DEF ChainCrashes
    <3>2. last[i] = ExtraFilter(extra[i]) /\ last[i] \in Range(last)
      BY <2>1 DEF Range
    <3>3. ~Rejected(ExtraFilter(extra[i]))
      BY <1>2, <3>1 DEF Rejected, ExtraFilter, ExtraFilterCrashes, Filter, IsTypedFilter
    <3> QED
      BY <3>2, <3>3
  <2>3. last = [i \in 1..Len(extra) |-> last[i]]
    BY <2>1
  <2> HIDE DEF C, last, extra
  <2> QED
    BY <2>1, <2>2, <2>3
<1>6. plain \o last \in Seq(C) \/ ChainCrashes(nodes)
  <2> HIDE DEF plain, last, C
  <2> QED
    BY <1>4, <1>5
<1>7. <<>> \in Seq(C)
  OBVIOUS
<1>8. Chain(nodes) = plain \o last /\ CreateChain(nodes) = plain
  BY DEF Chain, CreateChain
<1>9. chain \in Seq(C)
  <2> HIDE DEF plain, last, C
  <2> QED
    BY <1>4, <1>6, <1>7, <1>8 DEF RequestOf, Request, FunctionTypes
<1>10. \A i \in DOMAIN chain : chain[i] \in C
  <2> HIDE DEF C, chain
  <2> QED
    BY <1>9
<1>11. \A i \in DOMAIN chain : ~Rejected(chain[i])
  BY <1>10
<1>12. chain \in Seq(Range(chain))
  <2> HIDE DEF C, chain
  <2>1. \A i \in 1..Len(chain) : chain[i] \in Range(chain)
    BY <1>9 DEF Range
  <2> QED
    BY <1>9, <2>1
<1> QED
  BY <1>11, <1>12 DEF nodes

-----------------------------------------------------------------------------
(* A part that is read becomes the last node, with its name.               *)
LEMMA AddPartNames ==
  ASSUME NEW N, NEW F, RootName \in N, NEW nodes \in Seq(QueryNodes(N, F)), NEW part,
         part.name \in N, part.filters \in Seq(F),
         nodes # <<>> => nodes[1].name # RootName
  PROVE  /\ Len(AddPart(nodes, part)) = Len(nodes) + 1
         /\ AddPart(nodes, part)[Len(nodes) + 1].name = part.name
         /\ \A i \in 1..Len(nodes) : AddPart(nodes, part)[i].name = nodes[i].name
<1> DEFINE filters == part.filters
           n == Len(filters)
           filtered == Filtered(nodes, filters)
           after == AddPart(nodes, part)
           Q == Seq(QueryNodes(N, F))
<1>1. n \in Nat /\ DOMAIN filters = 1..n /\ \A k \in 1..n : filters[k] \in F
  OBVIOUS
<1>2. after = AddParsedNode(filtered, part.name)
  BY DEF AddPart, Filtered
<1>3. CASE nodes # <<>>
  <2> DEFINE U == {u \in Q : Len(u) = Len(nodes) /\ \A i \in 1..Len(nodes) : u[i].name = nodes[i].name}
  <2>1. ASSUME NEW u \in U, NEW k \in 1..n PROVE AddFilter(u, filters[k]) \in U
    <3> DEFINE filter == filters[k]
    <3>1. u \in Q /\ u # <<>> /\ filter \in F
      BY <1>1, <1>3
    <3>2. /\ AddFilter(u, filter) \in Q
          /\ Len(AddFilter(u, filter)) = Len(u)
          /\ \A i \in 1..Len(u) : AddFilter(u, filter)[i].name = u[i].name
      <4> HIDE DEF U, filter
      <4> QED
        BY <3>1, AddFilterIs
    <3> QED
      BY <3>2
  <2>2. nodes \in U
    OBVIOUS
  <2>3. filtered \in U
    <3> HIDE DEF U, filters, n
    <3> QED
      BY <1>1, <2>1, <2>2, FilteredStays
  <2> DEFINE new == ParsedNode(part.name, <<>>)
  <2> HIDE DEF filtered, after
  <2>4. /\ filtered \in Q /\ Len(filtered) = Len(nodes) /\ filtered # <<>>
        /\ \A i \in 1..Len(nodes) : filtered[i].name = nodes[i].name
    BY <1>3, <2>3
  <2>5. filtered[1].name # RootName
    BY <1>3, <2>4
  <2>6. after = Append(filtered, new)
    BY <1>2, <2>5 DEF AddParsedNode
  <2>7. new.name = part.name
    BY DEF ParsedNode
  <2> HIDE DEF new
  <2>8. Len(after) = Len(nodes) + 1 /\ after[Len(nodes) + 1] = new
    BY <2>4, <2>6
  <2>9. \A i \in 1..Len(nodes) : after[i] = filtered[i]
    BY <2>4, <2>6
  <2> QED
    BY <2>4, <2>7, <2>8, <2>9 DEF after
<1>4. CASE nodes = <<>>
  <2> DEFINE U == {u \in Q : u = <<>> \/ (Len(u) = 1 /\ u[1].name = RootName)}
  <2>1. ASSUME NEW u \in U, NEW k \in 1..n PROVE AddFilter(u, filters[k]) \in U
    <3> DEFINE filter == filters[k]
    <3>1. u \in Q /\ filter \in F
      BY <1>1
    <3>2. /\ AddFilter(u, filter) \in Q
          /\ u # <<>> =>
               /\ Len(AddFilter(u, filter)) = Len(u)
               /\ \A i \in 1..Len(u) : AddFilter(u, filter)[i].name = u[i].name
          /\ u = <<>> => Len(AddFilter(u, filter)) = 1 /\ AddFilter(u, filter)[1].name = RootName
      <4> HIDE DEF U, filter
      <4> QED
        BY <3>1, AddFilterIs
    <3>3. 1 \in 1..1
      OBVIOUS
    <3> QED
      BY <3>2, <3>3
  <2>2. nodes \in U
    BY <1>4
  <2>3. filtered \in U
    <3> HIDE DEF U, filters, n
    <3> QED
      BY <1>1, <2>1, <2>2, FilteredStays
  <2> HIDE DEF filtered, after
  <2>4. Len(nodes) = 0
    BY <1>4
  <2>5. Len(after) = 1 /\ after[1].name = part.name
    <3>1. CASE filtered = <<>>
      <4> DEFINE new == ParsedNode(part.name, <<>>)
      <4>1. after = Append(filtered, new) /\ new.name = part.name
        BY <1>2, <3>1 DEF AddParsedNode, ParsedNode
      <4> HIDE DEF new
      <4> QED
        BY <3>1, <4>1
    <3>2. CASE filtered # <<>>
      <4> DEFINE new == ParsedNode(part.name, filtered[1].filters)
      <4>1. filtered \in Q /\ Len(filtered) = 1 /\ filtered[1].name = RootName
        BY <2>3, <3>2
      <4>2. after = [filtered EXCEPT ![1] = new] /\ new.name = part.name
        BY <1>2, <3>2, <4>1 DEF AddParsedNode, ParsedNode
      <4> HIDE DEF new
      <4> QED
        BY <4>1, <4>2
    <3> QED
      BY <3>1, <3>2
  <2> QED
    BY <2>4, <2>5 DEF after
<1> QED
  BY <1>3, <1>4

(* A path none of whose parts is called like the placeholder makes nodes   *)
(* with the names that were typed, in their order.                         *)
LEMMA ParsedKeepsNames ==
  ASSUME NEW N, NEW F, NEW path, IsPath(path, N, F),
         \A i \in DOMAIN path : path[i].name # RootName
  PROVE  /\ Parsed(path) \in Seq(QueryNodes(N, F)) /\ Len(Parsed(path)) = Len(path)
         /\ \A i \in 1..Len(path) : Parsed(path)[i].name = path[i].name
<1> DEFINE U == Seq(QueryNodes(N, F))
           n == Len(path)
<1>1. n \in Nat /\ DOMAIN path = 1..n
  BY DEF IsPath
<1>2. RootName \in N /\ \A k \in 1..n : path[k].name \in N /\ path[k].filters \in Seq(F)
  BY DEF IsPath
<1>3. PICK h : BuiltFrom(path, N, F, h)
  BY ParsedSteps
<1>4. /\ h \in [0..n -> U] /\ h[0] = <<>> /\ h[n] = Parsed(path)
      /\ \A k \in 1..n : h[k] = AddPart(h[k - 1], path[k])
  BY <1>3 DEF BuiltFrom
<1> DEFINE Names(k) == Len(h[k]) = k /\ \A i \in 1..k : h[k][i].name = path[i].name
           Off == {k \in 0..n : ~Names(k)}
<1>5. Off = {}
  <2> SUFFICES ASSUME Off # {} PROVE FALSE
    OBVIOUS
  <2>1. PICK m \in Off : \A k \in Off : m <= k
    <3>1. Off \subseteq Nat
      BY <1>1
    <3> HIDE DEF Off
    <3> QED
      BY <3>1, LeastNumber
  <2>2. m \in 0..n /\ ~Names(m)
    BY <2>1
  <2>3. m # 0
    <3>1. Names(0)
      BY <1>4
    <3> QED
      BY <2>2, <3>1
  <2>4. m - 1 \in 0..n /\ m \in 1..n /\ ~(m <= m - 1)
    BY <1>1, <2>2, <2>3
  <2>5. m - 1 \notin Off
    <3> HIDE DEF Off
    <3> QED
      BY <2>1, <2>4
  <2>6. Names(m - 1)
    BY <2>4, <2>5
  <2> DEFINE s == h[m - 1]
             after == AddPart(s, path[m])
  <2>7. s \in U /\ Len(s) = m - 1
    BY <1>4, <2>4, <2>6
  <2>8. s # <<>> => s[1].name # RootName
    <3> SUFFICES ASSUME s # <<>> PROVE s[1].name # RootName
      OBVIOUS
    <3>1. 1 \in 1..m - 1 /\ 1 \in DOMAIN path
      BY <1>1, <2>4, <2>7
    <3> QED
      BY <2>6, <3>1
  <2>9. /\ Len(after) = Len(s) + 1 /\ after[Len(s) + 1].name = path[m].name
        /\ \A i \in 1..Len(s) : after[i].name = s[i].name
    <3>1. path[m].name \in N /\ path[m].filters \in Seq(F)
      BY <1>2, <2>4
    <3> DEFINE part == path[m]
    <3>2. part.name \in N /\ part.filters \in Seq(F) /\ RootName \in N
      BY <1>2, <3>1
    <3>3. s \in Seq(QueryNodes(N, F))
      BY <2>7
    <3> HIDE DEF s, part, U
    <3> QED
      BY <2>8, <3>2, <3>3, AddPartNames DEF part
  <2>10. h[m] = after
    BY <1>4, <2>4
  <2>11. \A i \in 1..m - 1 : s[i].name = path[i].name
    BY <2>6
  <2> HIDE DEF s, after
  <2>12. Len(h[m]) = m /\ h[m][m].name = path[m].name
    BY <2>4, <2>7, <2>9, <2>10
  <2>13. \A i \in 1..m - 1 : h[m][i].name = path[i].name
    BY <2>7, <2>9, <2>10, <2>11
  <2>14. \A i \in 1..m : i = m \/ i \in 1..m - 1
    BY <2>4
  <2> QED
    BY <2>2, <2>12, <2>13, <2>14
<1>6. Names(n) /\ h[n] \in U
  <2>1. n \in 0..n
    BY <1>1
  <2> QED
    BY <1>4, <1>5, <2>1
<1>7. Parsed(path) = h[n]
  BY <1>4
<1> QED
  BY <1>6, <1>7

(* Such a path asks for the names that were typed.                         *)
LEMMA ParsedNames ==
  ASSUME NEW path, IsTypedPath(path), \A i \in DOMAIN path : path[i].name # RootName
  PROVE  PathChain(Parsed(path)) = PathChain(path)
<1> DEFINE nodes == Parsed(path)
           n == Len(path)
<1>1. IsPath(path, PathNames(path), PathFilters(path))
  BY PartsTyped
<1>2. DOMAIN nodes = 1..n /\ \A i \in 1..n : nodes[i].name = path[i].name
  BY <1>1, ParsedKeepsNames
<1>3. DOMAIN path = 1..n
  BY <1>1 DEF IsPath
<1> HIDE DEF nodes, n
<1> QED
  BY <1>2, <1>3 DEF PathChain, nodes
=============================================================================
