--------------------------- MODULE DocumentProofs ---------------------------
(***************************************************************************)
(* What holds of a document of any size.  Every write of the document      *)
(* layer is seen through two lemmas about the nodes of the file, Persisted *)
(* and Removed; with them every step is a step of DocumentTree, and the    *)
(* forest, which is inductive there, stays one.                            *)
(***************************************************************************)
EXTENDS Document, OperatorProofs

NodeRecs == [parent : NodeIds \cup {NullId}, value : Values]

(* The pages of the file: each at its place, its ids below next_item_id,   *)
(* its room what they left over.                                           *)
Shape ==
  /\ pages \in Seq(ImageSet(NodeRecs))
  /\ Len(pages) \in 1..MaxPages
  /\ \A k \in DOMAIN pages :
       /\ pages[k].id = k - 1
       /\ pages[k].room = Capacity - pages[k].next
       /\ \A s \in DOMAIN pages[k].live : s < pages[k].next

(* The second step of an update has a request of its type, and room. *)
UpdateReady ==
  proc = "update" => /\ HasRoom
                     /\ update.parent \in NodeIds \cup {NullId} /\ update.value \in Values

-----------------------------------------------------------------------------
(* The nodes of the file are the live items of its pages. *)
LEMMA NodesAre ==
  ASSUME NEW f, NEW x
  PROVE  x \in ItemsOf(f) <=>
           \E k \in DOMAIN f : \E s \in DOMAIN f[k].live : x = <<k - 1, s>>
  BY DEF ItemsOf

(* A node's id is the place of a page and a live item of it. *)
LEMMA NodePlace ==
  ASSUME NEW f \in Seq(ImageSet(NodeRecs)), NEW x \in ItemsOf(f)
  PROVE  /\ x[1] + 1 \in DOMAIN f /\ x[2] \in DOMAIN f[x[1] + 1].live
         /\ x = <<x[1], x[2]>>
         /\ x[1] \in Nat /\ x[2] \in Nat /\ x[2] < Capacity
         /\ ItemAt(f, x) \in NodeRecs
<1>1. PICK k, s : k \in DOMAIN f /\ s \in DOMAIN f[k].live /\ x = <<k - 1, s>>
  BY NodesAre
<1>2. k \in Nat \ {0} /\ f[k] \in ImageSet(NodeRecs)
  BY <1>1
<1>3. f[k].live \in LiveMaps(NodeRecs)
  BY <1>2 DEF ImageSet
<1>4. s \in 0..Capacity - 1 /\ f[k].live[s] \in NodeRecs
  BY <1>1, <1>3, LiveMapsAre
<1>5. x[1] + 1 = k /\ x[2] = s
  BY <1>1, <1>2
<1> QED
  BY <1>1, <1>2, <1>4, <1>5, CapacityAssumption DEF ItemAt

(* Every node has an id of NodeIds and is a node. *)
LEMMA NodesTyped ==
  ASSUME Shape, NEW x \in Nodes
  PROVE  x \in NodeIds /\ ItemAt(pages, x) \in NodeRecs
<1>1. /\ x[1] + 1 \in 1..Len(pages) /\ x = <<x[1], x[2]>> /\ x[1] \in Nat
      /\ x[2] \in Nat /\ x[2] < Capacity /\ ItemAt(pages, x) \in NodeRecs
  BY NodePlace DEF Shape, Nodes
<1>2. x[1] \in 0..MaxPages - 1
  BY <1>1, MaxPagesAssumption DEF Shape
<1>3. x[2] \in 0..Capacity - 1
  BY <1>1, CapacityAssumption
<1> QED
  BY <1>1, <1>2, <1>3 DEF NodeIds

-----------------------------------------------------------------------------
(* The id document_persist_new_node assigns: the next one of the free      *)
(* page, or the first one of a new page.                                   *)
NewId ==
  IF FreePage.room > 0 THEN <<Len(pages) - 1, FreePage.next>> ELSE <<Len(pages), 0>>

(* What is written when a node is persisted: an id that was free and comes *)
(* behind all others is bound to the node, and all other nodes stay.       *)
LEMMA Persisted ==
  ASSUME Shape, HasRoom, NEW node \in NodeRecs, Persist(node)
  PROVE  /\ Shape'
         /\ \E n \in NodeIds :
              /\ n = NewId /\ \A x \in Nodes : Before(x, n)
              /\ n \notin Nodes /\ Nodes' = Nodes \cup {n}
              /\ ItemAt(pages', n) = node
              /\ \A x \in Nodes : ItemAt(pages', x) = ItemAt(pages, x)
<1> DEFINE last == Len(pages)
<1>1. /\ last \in Nat /\ last \in DOMAIN pages /\ last \in 1..MaxPages
      /\ DOMAIN pages = 1..last
      /\ \A k \in DOMAIN pages : pages[k] \in ImageSet(NodeRecs)
  BY MaxPagesAssumption DEF Shape
<1>2. FreePage = pages[last] /\ FreePage \in ImageSet(NodeRecs)
  BY <1>1 DEF FreePage
<1>3. CASE FreePage.room > 0
  <2> DEFINE s == FreePage.next
             page == WithItem(FreePage, node)
  <2>1. pages' = [pages EXCEPT ![last] = page]
    BY <1>2, <1>3 DEF Persist
  <2>2. FreePage.next \in 0..Capacity /\ FreePage.next < Capacity
    BY <1>1, <1>2, <1>3, CapacityAssumption DEF Shape, ImageSet
  <2>3. /\ page \in ImageSet(NodeRecs) /\ page.id = FreePage.id
        /\ page.next = s + 1 /\ page.room = FreePage.room - 1
        /\ DOMAIN page.live = DOMAIN FreePage.live \cup {s}
        /\ \A t \in DOMAIN page.live : page.live[t] = IF t = s THEN node ELSE FreePage.live[t]
    BY <1>2, <2>2, WithItemIs
  <2> HIDE DEF page
  <2>4. /\ pages' \in Seq(ImageSet(NodeRecs)) /\ Len(pages') = last
        /\ DOMAIN pages' = DOMAIN pages /\ pages'[last] = page
        /\ \A k \in DOMAIN pages : k # last => pages'[k] = pages[k]
    BY <1>1, <2>1, <2>3 DEF Shape
  <2>5. s \notin DOMAIN FreePage.live
    BY <1>1, <1>2, <2>2 DEF Shape
  <2>6. Shape'
    <3>1. page.id = last - 1 /\ page.room = Capacity - page.next
      BY <1>1, <1>2, <2>2, <2>3, CapacityAssumption DEF Shape
    <3>2. \A t \in DOMAIN page.live : t < page.next
      <4> TAKE t \in DOMAIN page.live
      <4>1. CASE t = s
        BY <4>1, <2>2, <2>3
      <4>2. CASE t \in DOMAIN FreePage.live
        <5>1. t < FreePage.next
          BY <1>1, <1>2, <4>2 DEF Shape
        <5>2. t \in Int
          BY <1>2, <4>2, LiveMapsAre DEF ImageSet
        <5> QED BY <5>1, <5>2, <2>2, <2>3
      <4> QED BY <4>1, <4>2, <2>3
    <3> QED
      BY <1>1, <2>4, <3>1, <3>2 DEF Shape
  <2> DEFINE n == <<last - 1, s>>
  <2>7. n \in NodeIds
    <3>1. last - 1 \in 0..MaxPages - 1
      BY <1>1, MaxPagesAssumption
    <3>2. s \in 0..Capacity - 1
      BY <2>2, CapacityAssumption
    <3> QED BY <3>1, <3>2 DEF NodeIds
  <2>8. n \notin Nodes
    <3> SUFFICES ASSUME n \in Nodes PROVE FALSE
      OBVIOUS
    <3>1. PICK k, t : k \in DOMAIN pages /\ t \in DOMAIN pages[k].live /\ n = <<k - 1, t>>
      BY NodesAre DEF Nodes
    <3>2. k = last /\ t = s
      BY <1>1, <3>1
    <3> QED BY <1>2, <2>5, <3>1, <3>2
  <2>9. Nodes' = Nodes \cup {n}
    <3>1. ASSUME NEW x \in Nodes' PROVE x \in Nodes \cup {n}
      <4>1. PICK k, t : k \in DOMAIN pages' /\ t \in DOMAIN pages'[k].live /\ x = <<k - 1, t>>
        BY NodesAre DEF Nodes
      <4>2. CASE k = last
        <5>1. t \in DOMAIN pages[last].live \/ t = s
          BY <4>1, <4>2, <2>3, <2>4, <1>2
        <5>2. t \in DOMAIN pages[last].live => x \in Nodes
          BY <1>1, <4>1, <4>2, NodesAre DEF Nodes
        <5> QED BY <5>1, <5>2, <4>1, <4>2
      <4>3. CASE k # last
        <5>1. k \in DOMAIN pages /\ t \in DOMAIN pages[k].live
          BY <4>1, <4>3, <2>4
        <5> QED BY <5>1, <4>1, NodesAre DEF Nodes
      <4> QED BY <4>2, <4>3
    <3>2. ASSUME NEW x \in Nodes PROVE x \in Nodes'
      <4>1. PICK k, t : k \in DOMAIN pages /\ t \in DOMAIN pages[k].live /\ x = <<k - 1, t>>
        BY NodesAre DEF Nodes
      <4>2. t \in DOMAIN pages'[k].live
        BY <4>1, <1>2, <2>3, <2>4
      <4> QED BY <4>1, <4>2, <2>4, NodesAre DEF Nodes
    <3>3. n \in Nodes'
      <4>1. s \in DOMAIN pages'[last].live
        BY <2>3, <2>4
      <4> QED BY <4>1, <1>1, <2>4, NodesAre DEF Nodes
    <3> QED BY <3>1, <3>2, <3>3
  <2>10. ItemAt(pages', n) = node
    <3>1. n[1] + 1 = last /\ n[2] = s
      BY <1>1
    <3> HIDE DEF n
    <3> QED BY <3>1, <2>3, <2>4 DEF ItemAt
  <2>11. \A x \in Nodes : ItemAt(pages', x) = ItemAt(pages, x)
    <3> TAKE x \in Nodes
    <3>1. x[1] + 1 \in DOMAIN pages /\ x[2] \in DOMAIN pages[x[1] + 1].live
      BY NodePlace DEF Shape, Nodes
    <3>2. CASE x[1] + 1 = last
      <4>1. x[2] # s
        BY <3>1, <3>2, <1>2, <2>5
      <4>2. pages'[last].live[x[2]] = pages[last].live[x[2]]
        BY <3>1, <3>2, <4>1, <1>2, <2>3, <2>4
      <4> QED BY <3>2, <4>2 DEF ItemAt
    <3>3. CASE x[1] + 1 # last
      BY <3>1, <3>3, <2>4 DEF ItemAt
    <3> QED BY <3>2, <3>3
  <2>12. n = NewId
    BY <1>3 DEF NewId
  <2>13. \A x \in Nodes : Before(x, n)
    <3> TAKE x \in Nodes
    <3>1. x[1] + 1 \in DOMAIN pages /\ x[2] \in DOMAIN pages[x[1] + 1].live
          /\ x[1] \in Nat /\ x[2] \in Nat
      BY NodePlace DEF Shape, Nodes
    <3>2. x[1] + 1 = last => x[2] < s
      BY <3>1, <1>2 DEF Shape
    <3>3. n[1] = last - 1 /\ n[2] = s
      OBVIOUS
    <3> HIDE DEF n, s
    <3> QED
      BY <1>1, <3>1, <3>2, <3>3 DEF Before
  <2> QED
    BY <2>6, <2>7, <2>8, <2>9, <2>10, <2>11, <2>12, <2>13
<1>4. CASE ~(FreePage.room > 0)
  <2> DEFINE page == WithItem(NewPage(last), node)
  <2>1. pages' = Append(pages, page) /\ last < MaxPages
    BY <1>1, <1>2, <1>4 DEF Persist, HasRoom
  <2>2. /\ NewPage(last) \in ImageSet(NodeRecs) /\ NewPage(last).id = last
        /\ NewPage(last).next = 0 /\ NewPage(last).room = Capacity
        /\ DOMAIN NewPage(last).live = {}
    BY <1>1, NewPageIs
  <2>3. 0 < Capacity /\ Capacity \in Nat
    BY CapacityAssumption
  <2>4. /\ page \in ImageSet(NodeRecs) /\ page.id = last
        /\ page.next = 1 /\ page.room = Capacity - 1
        /\ DOMAIN page.live = {0} /\ page.live[0] = node
    BY <2>2, <2>3, WithItemIs
  <2> HIDE DEF page
  <2>5. /\ pages' \in Seq(ImageSet(NodeRecs)) /\ Len(pages') = last + 1
        /\ DOMAIN pages' = 1..last + 1 /\ pages'[last + 1] = page
        /\ \A k \in DOMAIN pages : pages'[k] = pages[k]
    BY <1>1, <2>1, <2>4 DEF Shape
  <2>6. Shape'
    <3>1. last + 1 \in 1..MaxPages
      BY <1>1, <2>1, MaxPagesAssumption
    <3>2. page.id = (last + 1) - 1
      BY <1>1, <2>4
    <3>3. page.room = Capacity - page.next /\ \A t \in DOMAIN page.live : t < page.next
      BY <2>3, <2>4
    <3>4. ASSUME NEW k \in DOMAIN pages'
          PROVE  k = last + 1 \/ (k \in DOMAIN pages /\ pages'[k] = pages[k])
      BY <1>1, <2>5
    <3> QED BY <2>5, <3>1, <3>2, <3>3, <3>4 DEF Shape
  <2> DEFINE n == <<last, 0>>
  <2>7. n \in NodeIds
    BY <1>1, <2>1, <2>3, MaxPagesAssumption DEF NodeIds
  <2>8. n \notin Nodes
    <3> SUFFICES ASSUME n \in Nodes PROVE FALSE
      OBVIOUS
    <3>1. PICK k, t : k \in DOMAIN pages /\ t \in DOMAIN pages[k].live /\ n = <<k - 1, t>>
      BY NodesAre DEF Nodes
    <3> QED BY <1>1, <3>1
  <2>9. Nodes' = Nodes \cup {n}
    <3>1. ASSUME NEW x \in Nodes' PROVE x \in Nodes \cup {n}
      <4>1. PICK k, t : k \in DOMAIN pages' /\ t \in DOMAIN pages'[k].live /\ x = <<k - 1, t>>
        BY NodesAre DEF Nodes
      <4>2. CASE k = last + 1
        BY <4>1, <4>2, <2>4, <2>5, <1>1
      <4>3. CASE k # last + 1
        <5>1. k \in DOMAIN pages
          BY <4>1, <4>3, <2>5, <1>1
        <5>2. t \in DOMAIN pages[k].live
          BY <4>1, <5>1, <2>5
        <5> QED BY <5>1, <5>2, <4>1, NodesAre DEF Nodes
      <4> QED BY <4>2, <4>3
    <3>2. ASSUME NEW x \in Nodes PROVE x \in Nodes'
      <4>1. PICK k, t : k \in DOMAIN pages /\ t \in DOMAIN pages[k].live /\ x = <<k - 1, t>>
        BY NodesAre DEF Nodes
      <4>2. k \in DOMAIN pages' /\ t \in DOMAIN pages'[k].live
        BY <4>1, <1>1, <2>5
      <4> QED BY <4>1, <4>2, NodesAre DEF Nodes
    <3>3. n \in Nodes'
      <4>1. last + 1 \in DOMAIN pages' /\ 0 \in DOMAIN pages'[last + 1].live
        BY <1>1, <2>4, <2>5
      <4>2. n = <<(last + 1) - 1, 0>>
        BY <1>1
      <4> QED BY <4>1, <4>2, NodesAre DEF Nodes
    <3> QED BY <3>1, <3>2, <3>3
  <2>10. ItemAt(pages', n) = node
    BY <2>4, <2>5 DEF ItemAt
  <2>11. \A x \in Nodes : ItemAt(pages', x) = ItemAt(pages, x)
    <3> TAKE x \in Nodes
    <3>1. x[1] + 1 \in DOMAIN pages
      BY NodePlace DEF Shape, Nodes
    <3> QED BY <3>1, <2>5 DEF ItemAt
  <2>12. n = NewId
    BY <1>4 DEF NewId
  <2>13. \A x \in Nodes : Before(x, n)
    <3> TAKE x \in Nodes
    <3>1. x[1] + 1 \in DOMAIN pages /\ x[1] \in Nat
      BY NodePlace DEF Shape, Nodes
    <3> QED
      BY <1>1, <3>1 DEF Before
  <2> QED
    BY <2>6, <2>7, <2>8, <2>9, <2>10, <2>11, <2>12, <2>13
<1> QED
  BY <1>3, <1>4

(* The one write of a deletion. *)
Erase(x) == pages' = [pages EXCEPT ![x[1] + 1] = WithoutItem(@, x[2])]

(* What is written when a node is deleted: the node is gone, and all other *)
(* nodes stay.                                                             *)
LEMMA Removed ==
  ASSUME Shape, NEW x \in Nodes, Erase(x)
  PROVE  /\ Shape'
         /\ Nodes' = Nodes \ {x}
         /\ \A y \in Nodes \ {x} : ItemAt(pages', y) = ItemAt(pages, y)
<1> DEFINE k == x[1] + 1
           s == x[2]
           page == WithoutItem(pages[k], s)
<1>1. /\ k \in DOMAIN pages /\ s \in DOMAIN pages[k].live /\ x = <<x[1], x[2]>>
      /\ x[1] \in Nat /\ s \in Nat /\ k - 1 = x[1]
  BY NodePlace DEF Shape, Nodes
<1>2. /\ pages[k] \in ImageSet(NodeRecs) /\ pages[k].id = k - 1
      /\ pages[k].room = Capacity - pages[k].next
      /\ \A t \in DOMAIN pages[k].live : t < pages[k].next
  BY <1>1 DEF Shape
<1>3. /\ pages[k].next \in 0..Capacity /\ s < pages[k].next
      /\ DOMAIN pages[k].live \subseteq 0..Capacity - 1
  BY <1>1, <1>2, LiveMapsAre DEF ImageSet
<1>4. /\ page \in ImageSet(NodeRecs) /\ page.id = pages[k].id
      /\ IF s = pages[k].next - 1
           THEN page.next = pages[k].next - 1 /\ page.room = pages[k].room + 1
           ELSE page.next = pages[k].next /\ page.room = pages[k].room
      /\ DOMAIN page.live = DOMAIN pages[k].live \ {s}
      /\ \A t \in DOMAIN page.live : page.live[t] = pages[k].live[t]
  BY <1>1, <1>2, WithoutItemIs
<1>5. pages' = [pages EXCEPT ![k] = page]
  BY DEF Erase
<1> HIDE DEF page, k, s
<1>6. /\ pages' \in Seq(ImageSet(NodeRecs)) /\ Len(pages') = Len(pages)
      /\ DOMAIN pages' = DOMAIN pages /\ pages'[k] = page
      /\ \A j \in DOMAIN pages : j # k => pages'[j] = pages[j]
  BY <1>1, <1>4, <1>5 DEF Shape
<1>7. page.id = k - 1 /\ page.room = Capacity - page.next
  BY <1>2, <1>3, <1>4, CapacityAssumption
<1>8. \A t \in DOMAIN page.live : t < page.next
  BY <1>1, <1>2, <1>3, <1>4, CapacityAssumption
<1>9. Shape'
  BY <1>6, <1>7, <1>8 DEF Shape
<1>10. x = <<k - 1, s>>
  BY <1>1 DEF s
<1>11. Nodes' = Nodes \ {x}
  <2>1. ASSUME NEW y \in Nodes' PROVE y \in Nodes \ {x}
    <3>1. PICK j, t : j \in DOMAIN pages' /\ t \in DOMAIN pages'[j].live /\ y = <<j - 1, t>>
      BY NodesAre DEF Nodes
    <3>2. j \in DOMAIN pages /\ t \in DOMAIN pages[j].live
      BY <3>1, <1>4, <1>6
    <3>3. y \in Nodes
      BY <3>1, <3>2, NodesAre DEF Nodes
    <3>4. j = k => t # s
      BY <3>1, <1>4, <1>6
    <3>5. j \in Nat /\ k \in Nat
      BY <3>2, <1>1 DEF Shape
    <3> QED BY <3>1, <3>3, <3>4, <3>5, <1>10
  <2>2. ASSUME NEW y \in Nodes \ {x} PROVE y \in Nodes'
    <3>1. PICK j, t : j \in DOMAIN pages /\ t \in DOMAIN pages[j].live /\ y = <<j - 1, t>>
      BY NodesAre DEF Nodes
    <3>2. j # k \/ t # s
      BY <3>1, <1>10
    <3>3. j \in DOMAIN pages' /\ t \in DOMAIN pages'[j].live
      BY <3>1, <3>2, <1>4, <1>6
    <3> QED BY <3>1, <3>3, NodesAre DEF Nodes
  <2> QED BY <2>1, <2>2
<1>12. \A y \in Nodes \ {x} : ItemAt(pages', y) = ItemAt(pages, y)
  <2> TAKE y \in Nodes \ {x}
  <2>1. /\ y[1] + 1 \in DOMAIN pages /\ y[2] \in DOMAIN pages[y[1] + 1].live
        /\ y = <<y[1], y[2]>> /\ y[1] \in Nat
    BY NodePlace DEF Shape, Nodes
  <2>2. CASE y[1] + 1 = k
    <3>1. y[2] # s
      BY <2>1, <2>2, <1>10, <1>1
    <3> QED BY <2>1, <2>2, <3>1, <1>4, <1>6 DEF ItemAt
  <2>3. CASE y[1] + 1 # k
    BY <2>1, <2>3, <1>6 DEF ItemAt
  <2> QED BY <2>2, <2>3
<1> QED
  BY <1>9, <1>11, <1>12

-----------------------------------------------------------------------------
(* The steps of a process, as what they do to the file. *)

(* A node is added under a node that is there, or under none. *)
Grows ==
  /\ HasRoom
  /\ \E parent \in Nodes \cup {NullId}, v \in Values : Persist(Node(parent, v))

(* A node without children is deleted, in a file without obstacles. *)
Shrinks == \E x \in Nodes : Children(x) = {} /\ Obstacles(pages) = {} /\ Erase(x)

(* What document_add_node does to the file. *)
LEMMA AddIs ==
  ASSUME HasRoom, NEW parent, NEW v \in Values, Add(parent, v)
  PROVE  Grows \/ UNCHANGED pages
<1>1. CASE Accepts(parent) /\ Persist(Node(parent, v))
  <2>1. parent \in Nodes \cup {NullId}
    BY <1>1 DEF Accepts, Finds, Sought
  <2> QED
    BY <1>1, <2>1 DEF Grows
<1> QED
  BY <1>1 DEF Add

(* What document_delete_node does to the file. *)
LEMMA DeleteIs ==
  ASSUME NEW x, NEW deleted, NEW missing, Delete(x, deleted, missing)
  PROVE  \/ Shrinks /\ proc' = deleted
         \/ UNCHANGED pages /\ proc' \in {"has_children", "read_deleted", missing}
  BY DEF Delete, Shrinks, Erase, Ends

(* A deletion leaves the last page at least the room it had. *)
LEMMA ShrinksKeepsRoom ==
  ASSUME Shape, HasRoom, Shrinks
  PROVE  HasRoom'
<1>1. PICK x \in Nodes : Erase(x)
  BY DEF Shrinks
<1>2. /\ x[1] + 1 \in DOMAIN pages /\ x[2] \in DOMAIN pages[x[1] + 1].live
  BY NodePlace DEF Shape, Nodes
<1> DEFINE k == x[1] + 1
           page == WithoutItem(pages[k], x[2])
<1>3. /\ pages[k] \in ImageSet(NodeRecs)
      /\ \A t \in DOMAIN pages[k].live : t < pages[k].next
  BY <1>2 DEF Shape
<1>4. /\ page.room = pages[k].room + 1 \/ page.room = pages[k].room
      /\ page \in ImageSet(NodeRecs) /\ pages[k].room \in Int
  <2>1. pages[k].room \in Int
    BY <1>3 DEF ImageSet
  <2> QED
    BY <1>2, <1>3, <2>1, WithoutItemIs
<1>5. pages' = [pages EXCEPT ![k] = page]
  BY <1>1 DEF Erase
<1> HIDE DEF page, k
<1>6. Len(pages') = Len(pages) /\ Len(pages) \in DOMAIN pages
  BY <1>2, <1>4, <1>5, MaxPagesAssumption DEF Shape
<1>7. FreePage' = IF k = Len(pages) THEN page ELSE FreePage
  BY <1>2, <1>5, <1>6 DEF FreePage, Shape
<1>8. FreePage.room > 0 => FreePage'.room > 0
  BY <1>4, <1>7 DEF FreePage
<1> QED
  BY <1>6, <1>8 DEF HasRoom

(* Every step adds a node, deletes a node or leaves the file alone. *)
LEMMA StepIs ==
  ASSUME UpdateReady, [Next]_vars
  PROVE  Grows \/ Shrinks \/ UNCHANGED pages
<1>1. ASSUME NEW parent \in NodeIds \cup {NullId}, NEW v \in Values, AddNode(parent, v)
      PROVE  Grows \/ UNCHANGED pages
  BY <1>1, AddIs DEF AddNode
<1>2. ASSUME NEW x \in NodeIds \cup {NullId}, DeleteNode(x)
      PROVE  Shrinks \/ UNCHANGED pages
  BY <1>2, DeleteIs DEF DeleteNode
<1>3. ASSUME NEW x \in NodeIds \cup {NullId}, NEW parent \in NodeIds \cup {NullId}, NEW v \in Values,
             UpdateNode(x, parent, v)
      PROVE  Shrinks \/ UNCHANGED pages
  BY <1>3, DeleteIs DEF UpdateNode
<1>4. CASE UpdateAdd
  BY <1>4, AddIs DEF UpdateAdd, UpdateReady
<1>5. CASE DeleteTop
  BY <1>5, DeleteIs DEF DeleteTop
<1>6. CASE ReadNodes \/ CountChildren \/ Descend \/ DeleteTreesReturns \/ Stop \/ Open
  BY <1>6 DEF ReadNodes, CountChildren, Descend, DeleteTreesReturns, Stop, Open
<1>7. ASSUME NEW S, DeleteTrees(S) PROVE UNCHANGED pages
  BY <1>7 DEF DeleteTrees
<1>8. CASE UNCHANGED vars
  BY <1>8 DEF vars
<1> QED
  BY <1>1, <1>2, <1>3, <1>4, <1>5, <1>6, <1>7, <1>8 DEF Next, InCall

(* What a step that adds does to the nodes. *)
LEMMA GrowsIs ==
  ASSUME Shape, Grows
  PROVE  /\ Shape'
         /\ \E n \in NodeIds, parent \in Nodes \cup {NullId}, v \in Values :
              /\ \A x \in Nodes : Before(x, n)
              /\ n \notin Nodes /\ Nodes' = Nodes \cup {n}
              /\ ItemAt(pages', n) = Node(parent, v)
              /\ \A x \in Nodes : ItemAt(pages', x) = ItemAt(pages, x)
<1>1. PICK parent \in Nodes \cup {NullId}, v \in Values : Persist(Node(parent, v))
  BY DEF Grows
<1>2. Node(parent, v) \in NodeRecs
  BY <1>1, NodesTyped DEF Node, NodeRecs
<1>3. HasRoom
  BY DEF Grows
<1> QED
  BY <1>1, <1>2, <1>3, Persisted

(* An update is ready for its second step when it is in it. *)
LEMMA UpdateReadyStep ==
  ASSUME Shape, UpdateReady, [Next]_vars
  PROVE  UpdateReady'
<1>1. ASSUME NEW parent \in NodeIds \cup {NullId}, NEW v \in Values, AddNode(parent, v)
      PROVE  proc' # "update"
  BY <1>1 DEF AddNode, Add
<1>2. ASSUME NEW x \in NodeIds \cup {NullId}, DeleteNode(x)
      PROVE  proc' # "update"
  BY <1>2, DeleteIs DEF DeleteNode
<1>3. ASSUME NEW x \in NodeIds \cup {NullId}, NEW parent \in NodeIds \cup {NullId}, NEW v \in Values,
             UpdateNode(x, parent, v)
      PROVE  UpdateReady'
  <2> SUFFICES ASSUME proc' = "update" PROVE UpdateReady'
    BY DEF UpdateReady
  <2>1. Shrinks
    BY <1>3, DeleteIs DEF UpdateNode
  <2>2. HasRoom'
    BY <1>3, <2>1, ShrinksKeepsRoom DEF UpdateNode
  <2>3. update' = [old |-> x, parent |-> parent, value |-> v]
    BY <1>3 DEF UpdateNode
  <2> QED
    BY <2>2, <2>3 DEF UpdateReady
<1>4. CASE UpdateAdd
  BY <1>4 DEF UpdateAdd, Add, UpdateReady
<1>5. CASE DeleteTop
  BY <1>5, DeleteIs DEF DeleteTop, UpdateReady
<1>6. CASE ReadNodes \/ CountChildren \/ Descend \/ DeleteTreesReturns \/ Stop \/ Open
  BY <1>6 DEF ReadNodes, CountChildren, Descend, DeleteTreesReturns, Stop, Open, UpdateReady
<1>7. ASSUME NEW S, DeleteTrees(S) PROVE proc' # "update"
  BY <1>7 DEF DeleteTrees
<1>8. CASE UNCHANGED vars
  BY <1>8 DEF vars, calls, UpdateReady, HasRoom, FreePage
<1>9. proc' # "update" => UpdateReady'
  BY DEF UpdateReady
<1> QED
  BY <1>1, <1>2, <1>3, <1>4, <1>5, <1>6, <1>7, <1>8, <1>9 DEF Next, InCall

IndShape == Shape /\ UpdateReady

(* The shape of the file is inductive. *)
LEMMA ShapeStep == IndShape /\ [Next]_vars => IndShape'
<1> SUFFICES ASSUME Shape, UpdateReady, [Next]_vars PROVE Shape' /\ UpdateReady'
  BY DEF IndShape
<1>1. Grows => Shape'
  BY GrowsIs
<1>2. Shrinks => Shape'
  BY Removed DEF Shrinks
<1>3. UNCHANGED pages => Shape'
  BY DEF Shape
<1> QED
  BY <1>1, <1>2, <1>3, StepIs, UpdateReadyStep

LEMMA ShapeInit == Init => IndShape
<1> SUFFICES ASSUME Init PROVE Shape /\ UpdateReady
  BY DEF IndShape
<1>1. UpdateReady
  BY DEF Init, UpdateReady
<1>2. /\ NewPage(0) \in ImageSet(NodeRecs) /\ NewPage(0).id = 0 /\ NewPage(0).next = 0
      /\ NewPage(0).room = Capacity /\ DOMAIN NewPage(0).live = {}
  BY NewPageIs
<1>3. pages = <<NewPage(0)>>
  BY DEF Init
<1>4. Shape
  <2> HIDE DEF NewPage
  <2>1. pages \in Seq(ImageSet(NodeRecs)) /\ Len(pages) = 1 /\ pages[1] = NewPage(0)
        /\ DOMAIN pages = {1}
    BY <1>2, <1>3
  <2> QED
    BY <1>2, <2>1, CapacityAssumption, MaxPagesAssumption DEF Shape
<1> QED
  BY <1>1, <1>4

(* The invariant all the theorems use. *)
THEOREM ShapeInvariant == Spec => []IndShape
  BY ShapeInit, ShapeStep, PTL DEF Spec

-----------------------------------------------------------------------------
(* A document is a tree document: of its steps a client sees a leaf come,  *)
(* a leaf go, or nothing.                                                  *)
LEMMA GrowsIsTreeAdd ==
  ASSUME Shape, Grows
  PROVE  Tree!Next
<1> DEFINE nodes == [x \in Nodes |-> ItemAt(pages, x)]
<1>1. PICK n \in NodeIds, parent \in Nodes \cup {NullId}, v \in Values :
        /\ n \notin Nodes /\ Nodes' = Nodes \cup {n}
        /\ ItemAt(pages', n) = Node(parent, v)
        /\ \A x \in Nodes : ItemAt(pages', x) = ItemAt(pages, x)
  BY GrowsIs
<1>2. nodes' = [y \in Nodes \cup {n} |->
                  IF y = n THEN [parent |-> parent, value |-> v] ELSE nodes[y]]
  BY <1>1 DEF Node
<1>3. Tree!Add(n, parent, v)
  BY <1>1, <1>2 DEF Tree!Add
<1>4. parent \in NodeIds \cup {NullId}
  BY NodesTyped
<1> QED
  BY <1>3, <1>4 DEF Tree!Next

LEMMA ShrinksIsTreeRemove ==
  ASSUME Shape, Shrinks
  PROVE  Tree!Next
<1> DEFINE nodes == [x \in Nodes |-> ItemAt(pages, x)]
<1>1. PICK x \in Nodes : Children(x) = {} /\ Erase(x)
  BY DEF Shrinks
<1>2. Nodes' = Nodes \ {x} /\ \A y \in Nodes \ {x} : ItemAt(pages', y) = ItemAt(pages, y)
  BY <1>1, Removed
<1>3. nodes' = [y \in Nodes \ {x} |-> nodes[y]]
  BY <1>2
<1>4. Tree!Children(x) = {}
  BY <1>1 DEF Tree!Children, Children
<1>5. Tree!Remove(x)
  BY <1>3, <1>4 DEF Tree!Remove
<1>6. x \in NodeIds
  BY NodesTyped
<1> QED
  BY <1>5, <1>6 DEF Tree!Next

(* The nodes of a document of any size are a forest that grows by leaves   *)
(* and shrinks by leaves, through reused ids, updates and aborted calls.   *)
THEOREM DocumentImplementsTree == Spec => ImplementsDocumentTree
<1> DEFINE nodes == [x \in Nodes |-> ItemAt(pages, x)]
<1>1. Init => Tree!Init
  <2> SUFFICES ASSUME Init PROVE nodes = [x \in {} |-> {}]
    BY DEF Tree!Init
  <2>1. DOMAIN pages = {1} /\ pages[1].live = NoItems
    BY DEF Init, NewPage
  <2>2. Nodes = {}
    BY <2>1 DEF Nodes, ItemsOf, NoItems
  <2> QED
    BY <2>2
<1>2. IndShape /\ [Next]_vars => [Tree!Next]_nodes
  <2> SUFFICES ASSUME Shape, UpdateReady, [Next]_vars PROVE Tree!Next \/ nodes' = nodes
    BY DEF IndShape
  <2>1. UNCHANGED pages => nodes' = nodes
    BY DEF Nodes
  <2> QED
    BY <2>1, StepIs, GrowsIsTreeAdd, ShrinksIsTreeRemove
<1> QED
  BY <1>1, <1>2, ShapeInvariant, PTL DEF Spec, ImplementsDocumentTree, Tree!Spec

-----------------------------------------------------------------------------
(* The forest stays one.                                                   *)
HasParents == \A x \in Nodes : ItemAt(pages, x).parent \in Nodes \cup {NullId}

NoCycles ==
  \A S \in SUBSET Nodes : S # {} => \E x \in S : ItemAt(pages, x).parent \notin S

LEMMA WellFormedIs == HasParents /\ NoCycles => WellFormed
<1>1. HasParents => Tree!NoOrphans
  BY DEF HasParents, Tree!NoOrphans
<1>2. NoCycles => Tree!Acyclic
  BY DEF NoCycles, Tree!Acyclic
<1> QED
  BY <1>1, <1>2 DEF WellFormed

(* A node that is added lies on no cycle, because its id was free: no node *)
(* of the file has it for a parent, not even its own.                      *)
LEMMA GrowsKeepsForest ==
  ASSUME Shape, HasParents, NoCycles, Grows
  PROVE  HasParents' /\ NoCycles'
<1>1. PICK n \in NodeIds, parent \in Nodes \cup {NullId}, v \in Values :
        /\ n \notin Nodes /\ Nodes' = Nodes \cup {n}
        /\ ItemAt(pages', n) = Node(parent, v)
        /\ \A x \in Nodes : ItemAt(pages', x) = ItemAt(pages, x)
  BY GrowsIs
<1>2. ItemAt(pages', n).parent = parent /\ parent # n
  <2>1. NullId \notin NodeIds
    BY DEF NodeIds, NullId
  <2> QED
    BY <1>1, <2>1 DEF Node
<1>3. HasParents'
  BY <1>1, <1>2 DEF HasParents
<1>4. ASSUME NEW S \in SUBSET Nodes', S # {}
      PROVE  \E x \in S : ItemAt(pages', x).parent \notin S
  <2>1. CASE n \notin S
    <3>1. S \subseteq Nodes
      BY <1>1, <1>4, <2>1
    <3>2. PICK x \in S : ItemAt(pages, x).parent \notin S
      BY <1>4, <3>1 DEF NoCycles
    <3> QED
      BY <1>1, <3>1, <3>2
  <2>2. CASE n \in S /\ parent \notin S
    BY <1>2, <2>2
  <2>3. CASE n \in S /\ parent \in S
    <3> DEFINE T == S \ {n}
    <3>1. T \subseteq Nodes /\ T # {}
      BY <1>1, <1>2, <1>4, <2>3
    <3> HIDE DEF T
    <3>2. PICK x \in T : ItemAt(pages, x).parent \notin T
      BY <3>1 DEF NoCycles
    <3>3. ItemAt(pages, x).parent # n
      <4>1. NullId \notin NodeIds
        BY DEF NodeIds, NullId
      <4> QED
        BY <1>1, <3>1, <3>2, <4>1 DEF HasParents
    <3>4. x \in S /\ ItemAt(pages, x).parent \notin S
      BY <3>2, <3>3 DEF T
    <3> QED
      BY <1>1, <3>1, <3>2, <3>4
  <2> QED
    BY <2>1, <2>2, <2>3
<1> QED
  BY <1>3, <1>4 DEF NoCycles

LEMMA ShrinksKeepsForest ==
  ASSUME Shape, HasParents, NoCycles, Shrinks
  PROVE  HasParents' /\ NoCycles'
<1>1. PICK x \in Nodes : Children(x) = {} /\ Erase(x)
  BY DEF Shrinks
<1>2. Nodes' = Nodes \ {x} /\ \A y \in Nodes \ {x} : ItemAt(pages', y) = ItemAt(pages, y)
  BY <1>1, Removed
<1>3. HasParents'
  BY <1>1, <1>2 DEF HasParents, Children
<1>4. ASSUME NEW S \in SUBSET Nodes', S # {}
      PROVE  \E y \in S : ItemAt(pages', y).parent \notin S
  <2>1. S \in SUBSET Nodes
    BY <1>2, <1>4
  <2>2. PICK y \in S : ItemAt(pages, y).parent \notin S
    BY <1>4, <2>1 DEF NoCycles
  <2> QED
    BY <1>2, <1>4, <2>2
<1> QED
  BY <1>3, <1>4 DEF NoCycles

IndForest == HasParents /\ NoCycles

LEMMA ForestInit == Init => IndForest
<1> SUFFICES ASSUME Init PROVE Nodes = {}
  BY DEF IndForest, HasParents, NoCycles
<1>1. DOMAIN pages = {1} /\ pages[1].live = NoItems
  BY DEF Init, NewPage
<1> QED
  BY <1>1 DEF Nodes, ItemsOf, NoItems

LEMMA ForestStep == IndShape /\ IndForest /\ [Next]_vars => IndForest'
<1> SUFFICES ASSUME Shape, UpdateReady, HasParents, NoCycles, [Next]_vars
             PROVE  HasParents' /\ NoCycles'
  BY DEF IndShape, IndForest
<1>1. UNCHANGED pages => HasParents' /\ NoCycles'
  BY DEF HasParents, NoCycles, Nodes
<1> QED
  BY <1>1, StepIs, GrowsKeepsForest, ShrinksKeepsForest

LEMMA ForestInvariant == Spec => []IndForest
  BY ForestInit, ForestStep, ShapeInvariant, PTL DEF Spec

(* No node loses its parent and none becomes its own ancestor, in a        *)
(* document of any size.                                                   *)
THEOREM ForestStaysWellFormed == Spec => []WellFormed
<1>1. IndForest => WellFormed
  BY WellFormedIs DEF IndForest
<1> QED
  BY <1>1, ForestInvariant, PTL

-----------------------------------------------------------------------------
(* Deleted items.  A file has at most one that was not taken back, and     *)
(* every iteration runs into it, because its page has a node behind it: a  *)
(* deletion, which could empty that page, is only made when an iteration   *)
(* meets no deleted item.                                                  *)
ObstaclesSeen ==
  \A k \in DOMAIN pages : Tombstones(pages[k]) # {} => DOMAIN pages[k].live # {}

(* So an empty file has no deleted items. *)
LEMMA EmptyIsClear ==
  ASSUME ObstaclesSeen, Nodes = {}
  PROVE  Obstacles(pages) = {}
<1>1. \A k \in DOMAIN pages : DOMAIN pages[k].live = {}
  BY NodesAre DEF Nodes
<1>2. Visible(pages) \subseteq DOMAIN pages
  BY DEF Visible
<1> QED
  BY <1>1, <1>2 DEF ObstaclesSeen, Obstacles

LEMMA ObstaclesAre ==
  ASSUME NEW f, NEW x
  PROVE  x \in Obstacles(f) <=>
           \E k \in Visible(f) : \E s \in Tombstones(f[k]) : x = <<k - 1, s>>
  BY DEF Obstacles

(* Adding an item leaves the deleted items of its page what they were. *)
LEMMA WithItemTombstones ==
  ASSUME NEW page \in ImageSet(NodeRecs), NEW node \in NodeRecs, page.next < Capacity
  PROVE  Tombstones(WithItem(page, node)) = Tombstones(page)
<1>1. /\ WithItem(page, node).next = page.next + 1
      /\ DOMAIN WithItem(page, node).live = DOMAIN page.live \cup {page.next}
  BY WithItemIs
<1>2. page.next \in Nat
  BY CapacityAssumption DEF ImageSet
<1> HIDE DEF WithItem
<1> QED
  BY <1>1, <1>2 DEF Tombstones

(* A write of a node hides no item, deleted or not, and deletes none. *)
LEMMA PersistedPages ==
  ASSUME Shape, HasRoom, NEW node \in NodeRecs, Persist(node)
  PROVE  /\ DOMAIN pages \subseteq DOMAIN pages' /\ DOMAIN pages' \subseteq Nat
         /\ \A k \in DOMAIN pages :
              /\ Tombstones(pages'[k]) = Tombstones(pages[k])
              /\ DOMAIN pages[k].live \subseteq DOMAIN pages'[k].live
         /\ \A k \in DOMAIN pages' \ DOMAIN pages : Tombstones(pages'[k]) = {}
<1> DEFINE last == Len(pages)
<1>1. /\ last \in Nat /\ last \in DOMAIN pages
      /\ DOMAIN pages = 1..last
      /\ \A k \in DOMAIN pages : pages[k] \in ImageSet(NodeRecs)
  BY MaxPagesAssumption DEF Shape
<1>2. FreePage = pages[last] /\ FreePage \in ImageSet(NodeRecs)
  BY <1>1 DEF FreePage
<1>3. CASE FreePage.room > 0
  <2> DEFINE page == WithItem(FreePage, node)
  <2>1. pages' = [pages EXCEPT ![last] = page]
    BY <1>2, <1>3 DEF Persist
  <2>2. FreePage.next < Capacity
    BY <1>1, <1>2, <1>3, CapacityAssumption DEF Shape, ImageSet
  <2>3. Tombstones(page) = Tombstones(FreePage)
    BY <1>2, <2>2, WithItemTombstones
  <2>4. DOMAIN FreePage.live \subseteq DOMAIN page.live /\ page \in ImageSet(NodeRecs)
    BY <1>2, <2>2, WithItemIs
  <2> HIDE DEF page
  <2>5. /\ DOMAIN pages' = DOMAIN pages /\ pages'[last] = page
        /\ \A k \in DOMAIN pages : k # last => pages'[k] = pages[k]
    BY <1>1, <2>1, <2>4 DEF Shape
  <2> QED
    BY <1>1, <1>2, <2>3, <2>4, <2>5
<1>4. CASE ~(FreePage.room > 0)
  <2> DEFINE page == WithItem(NewPage(last), node)
  <2>1. pages' = Append(pages, page)
    BY <1>1, <1>2, <1>4 DEF Persist
  <2>2. /\ NewPage(last) \in ImageSet(NodeRecs) /\ NewPage(last).next = 0
    BY <1>1, NewPageIs
  <2>3. 0 < Capacity
    BY CapacityAssumption
  <2>4. Tombstones(page) = Tombstones(NewPage(last)) /\ page \in ImageSet(NodeRecs)
    BY <2>2, <2>3, WithItemTombstones, WithItemIs
  <2>5. Tombstones(page) = {}
    BY <2>2, <2>4 DEF Tombstones
  <2> HIDE DEF page
  <2>6. /\ DOMAIN pages' = 1..last + 1 /\ pages'[last + 1] = page
        /\ \A k \in DOMAIN pages : pages'[k] = pages[k]
    BY <1>1, <2>1, <2>4 DEF Shape
  <2>7. \A k \in DOMAIN pages' \ DOMAIN pages : k = last + 1
    BY <1>1, <2>6
  <2> QED
    BY <1>1, <2>5, <2>6, <2>7
<1> QED
  BY <1>3, <1>4

LEMMA GrowsKeepsObstacles ==
  ASSUME Shape, ObstaclesSeen, Grows
  PROVE  ObstaclesSeen' /\ Obstacles(pages') = Obstacles(pages)
<1>1. PICK parent \in Nodes \cup {NullId}, v \in Values : Persist(Node(parent, v))
  BY DEF Grows
<1>2. Node(parent, v) \in NodeRecs /\ HasRoom
  BY <1>1, NodesTyped DEF Node, NodeRecs, Grows
<1>3. /\ DOMAIN pages \subseteq DOMAIN pages'
      /\ \A k \in DOMAIN pages :
           /\ Tombstones(pages'[k]) = Tombstones(pages[k])
           /\ DOMAIN pages[k].live \subseteq DOMAIN pages'[k].live
      /\ \A k \in DOMAIN pages' \ DOMAIN pages : Tombstones(pages'[k]) = {}
  BY <1>1, <1>2, PersistedPages
<1>4. Visible(pages) \subseteq Visible(pages') /\ Visible(pages) \subseteq DOMAIN pages
      /\ Visible(pages') \subseteq DOMAIN pages'
  BY <1>3 DEF Visible
<1>5. ObstaclesSeen'
  BY <1>3 DEF ObstaclesSeen
<1>6. ASSUME NEW x \in Obstacles(pages') PROVE x \in Obstacles(pages)
  <2>1. PICK k, s : k \in Visible(pages') /\ s \in Tombstones(pages'[k]) /\ x = <<k - 1, s>>
    BY <1>6, ObstaclesAre
  <2>2. k \in DOMAIN pages /\ s \in Tombstones(pages[k])
    BY <1>3, <1>4, <2>1
  <2>3. k \in Visible(pages)
    BY <2>2 DEF ObstaclesSeen, Visible
  <2> QED
    BY <2>1, <2>2, <2>3, ObstaclesAre
<1>7. ASSUME NEW x \in Obstacles(pages) PROVE x \in Obstacles(pages')
  <2>1. PICK k, s : k \in Visible(pages) /\ s \in Tombstones(pages[k]) /\ x = <<k - 1, s>>
    BY <1>7, ObstaclesAre
  <2>2. k \in Visible(pages') /\ s \in Tombstones(pages'[k])
    BY <1>3, <1>4, <2>1
  <2> QED
    BY <2>1, <2>2, ObstaclesAre
<1> QED
  BY <1>5, <1>6, <1>7

LEMMA EraseMakesOneObstacle ==
  ASSUME Shape, ObstaclesSeen, Obstacles(pages) = {}, NEW x \in Nodes, Erase(x)
  PROVE  ObstaclesSeen' /\ Obstacles(pages') \subseteq {x}
<1> DEFINE k == x[1] + 1
           s == x[2]
           page == WithoutItem(pages[k], s)
<1>2. k \in DOMAIN pages /\ s \in DOMAIN pages[k].live
  BY NodePlace DEF Shape, Nodes
<1>3. /\ pages[k] \in ImageSet(NodeRecs)
      /\ \A t \in DOMAIN pages[k].live : t < pages[k].next
  BY <1>2 DEF Shape
<1>4. /\ page \in ImageSet(NodeRecs)
      /\ IF s = pages[k].next - 1 THEN page.next = pages[k].next - 1
                                  ELSE page.next = pages[k].next
      /\ DOMAIN page.live = DOMAIN pages[k].live \ {s}
  BY <1>2, <1>3, WithoutItemIs
<1>5. \A j \in DOMAIN pages : Tombstones(pages[j]) = {}
  <2> SUFFICES ASSUME NEW j \in DOMAIN pages, NEW t \in Tombstones(pages[j]) PROVE FALSE
    OBVIOUS
  <2>1. j \in Visible(pages)
    BY DEF ObstaclesSeen, Visible
  <2>2. <<j - 1, t>> \in Obstacles(pages)
    BY <2>1, ObstaclesAre
  <2> QED
    BY <2>2
<1>6. pages' = [pages EXCEPT ![k] = page]
  BY DEF Erase
<1> HIDE DEF page, k, s
<1>7. /\ DOMAIN pages' = DOMAIN pages /\ pages'[k] = page
      /\ \A j \in DOMAIN pages : j # k => pages'[j] = pages[j]
  BY <1>2, <1>4, <1>6 DEF Shape
<1>8. pages[k].next \in Nat /\ s \in Nat
  BY <1>2, <1>3, LiveMapsAre, CapacityAssumption DEF ImageSet
<1>9. 0..pages[k].next - 1 \subseteq DOMAIN pages[k].live
  BY <1>2, <1>5 DEF Tombstones
<1>10. Tombstones(page) \subseteq {s}
  BY <1>4, <1>8, <1>9 DEF Tombstones
<1>11. Tombstones(page) # {} => DOMAIN page.live # {}
  <2> SUFFICES ASSUME s # pages[k].next - 1 PROVE DOMAIN page.live # {}
    BY <1>4, <1>8, <1>9 DEF Tombstones
  <2>1. pages[k].next - 1 \in 0..pages[k].next - 1
    BY <1>2, <1>3, <1>8
  <2> QED
    BY <2>1, <1>4, <1>9
<1>12. \A j \in DOMAIN pages' : j # k => Tombstones(pages'[j]) = {}
  BY <1>5, <1>7
<1>13. ObstaclesSeen'
  BY <1>7, <1>11, <1>12 DEF ObstaclesSeen
<1>14. \A y \in Obstacles(pages') : y = x
  <2> TAKE y \in Obstacles(pages')
  <2>1. PICK j, t : j \in Visible(pages') /\ t \in Tombstones(pages'[j]) /\ y = <<j - 1, t>>
    BY ObstaclesAre
  <2>2. j \in DOMAIN pages'
    BY <2>1 DEF Visible
  <2>3. j = k
    BY <2>1, <2>2, <1>12
  <2>4. y = <<k - 1, s>>
    BY <2>1, <2>3, <1>7, <1>10
  <2>5. x = <<k - 1, s>>
    BY NodePlace DEF Shape, Nodes, k, s
  <2> QED
    BY <2>4, <2>5
<1> QED
  BY <1>13, <1>14

LEMMA ShrinksMakesOneObstacle ==
  ASSUME Shape, ObstaclesSeen, Shrinks
  PROVE  ObstaclesSeen' /\ OneObstacle'
<1>1. PICK x \in Nodes : Obstacles(pages) = {} /\ Erase(x)
  BY DEF Shrinks
<1>2. ObstaclesSeen' /\ Obstacles(pages') \subseteq {x}
  BY <1>1, EraseMakesOneObstacle
<1> QED
  BY <1>2 DEF OneObstacle

IndObstacles == ObstaclesSeen /\ OneObstacle

LEMMA ObstaclesInit == Init => IndObstacles
<1> SUFFICES ASSUME Init PROVE \A k \in DOMAIN pages : Tombstones(pages[k]) = {}
  <2>1. (\A k \in DOMAIN pages : Tombstones(pages[k]) = {}) => Obstacles(pages) = {}
    BY DEF Obstacles, Visible
  <2> QED
    BY <2>1 DEF IndObstacles, ObstaclesSeen, OneObstacle
<1>1. DOMAIN pages = {1} /\ pages[1].next = 0
  BY DEF Init, NewPage
<1> QED
  BY <1>1 DEF Tombstones

LEMMA ObstaclesStep == IndShape /\ IndObstacles /\ [Next]_vars => IndObstacles'
<1> SUFFICES ASSUME Shape, UpdateReady, ObstaclesSeen, OneObstacle, [Next]_vars
             PROVE  ObstaclesSeen' /\ OneObstacle'
  BY DEF IndShape, IndObstacles
<1>1. UNCHANGED pages => ObstaclesSeen' /\ OneObstacle'
  BY DEF ObstaclesSeen, OneObstacle
<1>2. Grows => ObstaclesSeen' /\ OneObstacle'
  BY GrowsKeepsObstacles DEF OneObstacle
<1> QED
  BY <1>1, <1>2, StepIs, ShrinksMakesOneObstacle

LEMMA ObstaclesInvariant == Spec => []IndObstacles
  BY ObstaclesInit, ObstaclesStep, ShapeInvariant, PTL DEF Spec

(* No file has more than one obstacle. *)
THEOREM AtMostOneObstacle == Spec => []OneObstacle
<1>1. IndObstacles => OneObstacle
  BY DEF IndObstacles
<1> QED
  BY <1>1, ObstaclesInvariant, PTL

(* Once there is one it stays, and the document only grows. *)
THEOREM ObstacleStays == Spec => ObstacleIsForEver
<1>1. IndShape /\ IndObstacles /\ [Next]_vars =>
        [Obstacles(pages) # {} =>
           Obstacles(pages') = Obstacles(pages) /\ Nodes \subseteq ItemsOf(pages')]_vars
  <2> SUFFICES ASSUME Shape, UpdateReady, ObstaclesSeen, [Next]_vars, Obstacles(pages) # {}
               PROVE  Obstacles(pages') = Obstacles(pages) /\ Nodes \subseteq ItemsOf(pages')
    BY DEF IndShape, IndObstacles
  <2>1. ~Shrinks
    BY DEF Shrinks
  <2>2. CASE Grows
    <3>1. Nodes \subseteq Nodes'
      BY <2>2, GrowsIs
    <3> QED
      BY <2>2, <3>1, GrowsKeepsObstacles DEF Nodes
  <2>3. CASE UNCHANGED pages
    BY <2>3 DEF Nodes
  <2> QED
    BY <2>1, <2>2, <2>3, StepIs
<1> QED
  BY <1>1, ObstaclesInvariant, ShapeInvariant, PTL DEF Spec, ObstacleIsForEver

-----------------------------------------------------------------------------
(* Between the steps of an update only its own deletion can be in the way. *)
OwnObstacle == proc = "update" => Obstacles(pages) \subseteq {update.old}

LEMMA OwnObstacleStep ==
  ASSUME Shape, ObstaclesSeen, OwnObstacle, [Next]_vars
  PROVE  OwnObstacle'
<1>1. ASSUME NEW parent \in NodeIds \cup {NullId}, NEW v \in Values, AddNode(parent, v)
      PROVE  proc' # "update"
  BY <1>1 DEF AddNode, Add
<1>2. ASSUME NEW x \in NodeIds \cup {NullId}, DeleteNode(x)
      PROVE  proc' # "update"
  BY <1>2, DeleteIs DEF DeleteNode
<1>3. ASSUME NEW x \in NodeIds \cup {NullId}, NEW parent \in NodeIds \cup {NullId}, NEW v \in Values,
             UpdateNode(x, parent, v)
      PROVE  OwnObstacle'
  <2> SUFFICES ASSUME proc' = "update" PROVE Obstacles(pages') \subseteq {update'.old}
    BY DEF OwnObstacle
  <2>1. Delete(x, "update", "idle") /\ update'.old = x
    BY <1>3 DEF UpdateNode
  <2>2. Ends(pages, Children(x)) /\ x \in Nodes /\ Erase(x)
    BY <2>1 DEF Delete, Erase
  <2>3. Obstacles(pages') \subseteq {x}
    BY <2>2, EraseMakesOneObstacle DEF Ends
  <2> QED
    BY <2>1, <2>3
<1>4. CASE UpdateAdd
  BY <1>4 DEF UpdateAdd, Add, OwnObstacle
<1>5. CASE DeleteTop
  BY <1>5, DeleteIs DEF DeleteTop, OwnObstacle
<1>6. CASE ReadNodes \/ CountChildren \/ Descend \/ DeleteTreesReturns \/ Stop \/ Open
  BY <1>6 DEF ReadNodes, CountChildren, Descend, DeleteTreesReturns, Stop, Open, OwnObstacle
<1>7. ASSUME NEW S, DeleteTrees(S) PROVE proc' # "update"
  BY <1>7 DEF DeleteTrees
<1>8. CASE UNCHANGED vars
  BY <1>8 DEF vars, calls, OwnObstacle
<1>9. proc' # "update" => OwnObstacle'
  BY DEF OwnObstacle
<1> QED
  BY <1>1, <1>2, <1>3, <1>4, <1>5, <1>6, <1>7, <1>8, <1>9 DEF Next, InCall

(* An update whose new parent a scan meets before the old node gets its    *)
(* node back, whatever else is in the file.                                *)
THEOREM UpdateKeeps == Spec => UpdateKeepsNode
<1>1. Init => OwnObstacle
  BY DEF Init, OwnObstacle
<1>2. IndShape /\ IndObstacles /\ OwnObstacle /\ [Next]_vars => OwnObstacle'
  BY OwnObstacleStep DEF IndShape, IndObstacles
<1>3. IndShape /\ OwnObstacle /\ [Next]_vars =>
        [/\ proc = "update" /\ proc' # "down"
         /\ update.parent \in Nodes /\ Before(update.parent, update.old)
         => \E x \in ItemsOf(pages') \ Nodes :
              ItemAt(pages', x) = Node(update.parent, update.value)]_vars
  <2> SUFFICES ASSUME Shape, UpdateReady, OwnObstacle, [Next]_vars, ~UNCHANGED vars,
                      proc = "update", proc' # "down",
                      update.parent \in Nodes, Before(update.parent, update.old)
               PROVE  \E x \in Nodes' \ Nodes :
                        ItemAt(pages', x) = Node(update.parent, update.value)
    BY DEF IndShape, Nodes
  <2>1. UpdateAdd
    BY DEF Next, InCall, AddNode, DeleteNode, UpdateNode, ReadNodes, DeleteTrees,
           CountChildren, Descend, DeleteTop, DeleteTreesReturns, Stop, Open
  <2>2. update.parent # NullId
    <3>1. update.parent \in NodeIds
      BY NodesTyped
    <3> QED
      BY <3>1 DEF NodeIds, NullId
  <2>3. Sought(update.parent) = {update.parent}
    BY <2>2 DEF Sought
  <2>4. First({update.parent}) = update.parent
    BY DEF First
  <2>5. Finds(pages, Sought(update.parent))
    BY <2>3, <2>4 DEF Finds, OwnObstacle
  <2>6. Persist(Node(update.parent, update.value))
    BY <2>1, <2>2, <2>5 DEF UpdateAdd, Add, Accepts, Trips
  <2>7. Node(update.parent, update.value) \in NodeRecs /\ HasRoom
    BY DEF UpdateReady, Node, NodeRecs
  <2> QED
    BY <2>6, <2>7, Persisted
<1> QED
  BY <1>1, <1>2, <1>3, ObstaclesInvariant, ShapeInvariant, PTL DEF Spec, UpdateKeepsNode

-----------------------------------------------------------------------------
(* Types.  What a call keeps: its request, or its frames.                  *)
Frames == [id : NodeIds \cup {NullId}, todo : SUBSET NodeIds, counted : BOOLEAN]

CallTyped ==
  /\ proc \in Running \cup Endings \cup {"down"}
  /\ update \in [old : NodeIds \cup {NullId}, parent : NodeIds \cup {NullId},
                 value : Values \cup {"none"}]
  /\ targets \subseteq NodeIds
  /\ stack \in Seq(Frames)
  /\ proc = "delete_tree" => stack # <<>>

(* The frame of a running deletion. *)
LEMMA TopIs ==
  ASSUME CallTyped, proc = "delete_tree"
  PROVE  /\ Len(stack) \in Nat \ {0} /\ Len(stack) \in DOMAIN stack
         /\ Top = stack[Len(stack)] /\ Top \in Frames
<1>1. stack \in Seq(Frames) /\ stack # <<>>
  BY DEF CallTyped
<1>2. Len(stack) \in Nat \ {0} /\ Len(stack) \in DOMAIN stack /\ stack[Len(stack)] \in Frames
  BY <1>1
<1> QED
  BY <1>2 DEF Top

LEMMA AddEnds ==
  ASSUME NEW parent, NEW v, Add(parent, v)
  PROVE  proc' \in {"idle", "read_deleted"}
  BY DEF Add

LEMMA CallTypedStep ==
  ASSUME Shape, CallTyped, [Next]_vars
  PROVE  CallTyped'
<1> USE DEF calls, Running, Endings
<1>1. ASSUME NEW parent \in NodeIds \cup {NullId}, NEW v \in Values, AddNode(parent, v)
      PROVE  CallTyped'
  BY <1>1, AddEnds DEF AddNode, CallTyped
<1>2. ASSUME NEW x \in NodeIds \cup {NullId}, DeleteNode(x)
      PROVE  CallTyped'
  BY <1>2, DeleteIs DEF DeleteNode, CallTyped
<1>3. ASSUME NEW x \in NodeIds \cup {NullId}, NEW parent \in NodeIds \cup {NullId}, NEW v \in Values,
             UpdateNode(x, parent, v)
      PROVE  CallTyped'
  <2>1. proc' \in {"update", "has_children", "read_deleted", "idle"}
    BY <1>3, DeleteIs DEF UpdateNode
  <2> QED
    BY <1>3, <2>1 DEF UpdateNode, CallTyped
<1>4. CASE UpdateAdd
  BY <1>4, AddEnds DEF UpdateAdd, CallTyped, NoUpdate
<1>5. CASE ReadNodes
  BY <1>5 DEF ReadNodes, CallTyped
<1>6. ASSUME NEW parent \in Nodes \cup {NullId}, NEW S \in (SUBSET Children(parent)) \ {{}},
             DeleteTrees(S)
      PROVE  CallTyped'
  <2>1. S \subseteq NodeIds
    BY <1>6, NodesTyped DEF Children
  <2> DEFINE caller == Frame(NullId, S, TRUE)
  <2>2. caller \in Frames /\ stack' = <<caller>>
    BY <1>6, <2>1 DEF Frame, Frames, DeleteTrees
  <2> HIDE DEF caller
  <2>3. stack' \in Seq(Frames) /\ stack' # <<>>
    BY <2>2
  <2> QED
    BY <1>6, <2>1, <2>3 DEF DeleteTrees, CallTyped
<1>7. CASE CountChildren
  <2>1. Top = stack[Len(stack)] /\ Top \in Frames /\ Len(stack) \in DOMAIN stack
    BY <1>7, TopIs DEF CountChildren
  <2>2. Children(Top.id) \subseteq NodeIds
    BY NodesTyped DEF Children
  <2> DEFINE top == [Top EXCEPT !.counted = TRUE, !.todo = Children(Top.id)]
  <2>3. top \in Frames
    BY <2>1, <2>2 DEF Frames
  <2>4. stack' = stack \/ stack' = [stack EXCEPT ![Len(stack)] = top]
    BY <1>7, <2>1 DEF CountChildren
  <2> HIDE DEF top
  <2>5. stack' \in Seq(Frames) /\ Len(stack') = Len(stack)
    BY <2>1, <2>3, <2>4 DEF CallTyped
  <2>6. proc' \in {"read_deleted", "delete_tree"}
    BY <1>7 DEF CountChildren
  <2>7. stack' # <<>>
    BY <1>7, <2>5, TopIs DEF CountChildren
  <2> QED
    BY <1>7, <2>5, <2>6, <2>7 DEF CountChildren, CallTyped
<1>8. CASE Descend
  <2>1. Top = stack[Len(stack)] /\ Top \in Frames /\ Len(stack) \in DOMAIN stack
    BY <1>8, TopIs DEF Descend
  <2>2. First(Top.todo) \in NodeIds
    <3>1. Top.todo \subseteq NodeIds /\ Top.todo # {}
      BY <1>8, <2>1 DEF Descend, Frames
    <3>2. Top.todo \subseteq Nat \X Nat
      BY <3>1, MaxPagesAssumption, CapacityAssumption DEF NodeIds
    <3> QED
      BY <3>1, <3>2, FirstIs
  <2> DEFINE top == [Top EXCEPT !.todo = @ \ {First(@)}]
             new == Frame(First(Top.todo), {}, FALSE)
             rest == [stack EXCEPT ![Len(stack)] = top]
  <2>3. top \in Frames /\ new \in Frames
    BY <2>1, <2>2 DEF Frames, Frame
  <2>4. stack' = Append(rest, new)
    BY <1>8, <2>1 DEF Descend
  <2> HIDE DEF top, new
  <2>5. rest \in Seq(Frames)
    BY <2>1, <2>3 DEF CallTyped
  <2> HIDE DEF rest
  <2>6. stack' \in Seq(Frames) /\ stack' # <<>>
    BY <2>3, <2>4, <2>5
  <2> QED
    BY <1>8, <2>6 DEF Descend, CallTyped
<1>9. CASE DeleteTop
  <2>1. Len(stack) \in Nat \ {0} /\ Len(stack) > 1
    BY <1>9, TopIs DEF DeleteTop
  <2>2. proc' \in {"delete_tree", "has_children", "read_deleted", "not_found"}
    BY <1>9, DeleteIs DEF DeleteTop
  <2> DEFINE popped == SubSeq(stack, 1, Len(stack) - 1)
  <2>3. stack' = IF proc' = "delete_tree" THEN popped ELSE stack
    BY <1>9 DEF DeleteTop
  <2>4. popped \in Seq(Frames) /\ Len(popped) = Len(stack) - 1
    BY <2>1 DEF CallTyped
  <2> HIDE DEF popped
  <2>5. stack' \in Seq(Frames) /\ stack' # <<>>
    <3>1. CASE proc' = "delete_tree"
      <4>1. popped # <<>>
        BY <2>1, <2>4
      <4> QED
        BY <2>3, <2>4, <3>1, <4>1
    <3>2. CASE proc' # "delete_tree"
      BY <2>1, <2>3, <3>2 DEF CallTyped
    <3> QED
      BY <3>1, <3>2
  <2> QED
    BY <1>9, <2>2, <2>5 DEF DeleteTop, CallTyped
<1>10. CASE DeleteTreesReturns
  BY <1>10 DEF DeleteTreesReturns, CallTyped
<1>11. CASE Stop
  BY <1>11 DEF Stop, CallTyped, NoUpdate
<1>12. CASE Open
  BY <1>12 DEF Open, CallTyped
<1>13. CASE UNCHANGED vars
  BY <1>13 DEF vars, CallTyped
<1> QED
  BY <1>1, <1>2, <1>3, <1>4, <1>5, <1>6, <1>7, <1>8, <1>9, <1>10, <1>11, <1>12, <1>13
  DEF Next, InCall

LEMMA CallTypedInit == Init => CallTyped
  BY DEF Init, CallTyped, NoUpdate, Running

LEMMA CallsTyped == Spec => []CallTyped
<1>1. IndShape /\ CallTyped /\ [Next]_vars => CallTyped'
  BY CallTypedStep DEF IndShape
<1> QED
  BY <1>1, CallTypedInit, ShapeInvariant, PTL DEF Spec

(* Every variable of a document of any size has its type. *)
THEOREM DocumentTyped == Spec => []TypeOK
<1>1. Shape /\ CallTyped => TypeOK
  <2> SUFFICES ASSUME Shape, CallTyped PROVE TypeOK
    OBVIOUS
  <2>1. ASSUME NEW k \in DOMAIN pages
        PROVE  /\ pages[k].next \in 0..Capacity
               /\ DOMAIN pages[k].live \subseteq 0..pages[k].next - 1
    <3>1. /\ pages[k] \in ImageSet(NodeRecs)
          /\ \A s \in DOMAIN pages[k].live : s < pages[k].next
      BY DEF Shape
    <3>2. pages[k].live \in LiveMaps(NodeRecs) /\ pages[k].next \in 0..Capacity
      BY <3>1 DEF ImageSet
    <3>3. DOMAIN pages[k].live \subseteq 0..Capacity - 1
      BY <3>2, LiveMapsAre
    <3> QED
      BY <3>1, <3>2, <3>3, CapacityAssumption
  <2>2. \A x \in Nodes :
          ItemAt(pages, x) \in [parent : NodeIds \cup {NullId}, value : Values]
    BY NodesTyped DEF NodeRecs
  <2>3. \A i \in DOMAIN stack : stack[i] \in Frames
    BY DEF CallTyped
  <2> QED
    BY <2>1, <2>2, <2>3 DEF TypeOK, Shape, CallTyped, Frames
<1> QED
  BY <1>1, CallsTyped, ShapeInvariant, PTL DEF IndShape

-----------------------------------------------------------------------------
(* The deletion of trees, for documents and trees of any size.  The stack  *)
(* of delete_node_with_all_descendants is a path of the forest; what its   *)
(* frames counted stays true until their turn comes, because ids are       *)
(* distinct along a path and a node has one parent only.                   *)

(* What frame i still has to delete, with what the frame above deletes now. *)
Pending(i) == stack[i].todo \cup {stack[j].id : j \in {i + 1} \cap DOMAIN stack}

Parent(x) == ItemAt(pages, x).parent

(* All frames but the top have counted, and the caller's too. *)
Counted == \A i \in DOMAIN stack : i = 1 \/ i < Len(stack) => stack[i].counted

(* What is left to delete is there; below the caller it is all children.   *)
PendingIsLeft ==
  /\ \A i \in DOMAIN stack : Pending(i) \subseteq Nodes
  /\ \A i \in DOMAIN stack : i > 1 /\ stack[i].counted =>
       Pending(i) = Children(stack[i].id)
  /\ Pending(1) = targets \cap Nodes

(* Nothing is left to delete twice. *)
NoneTwice ==
  /\ \A i \in DOMAIN stack : i + 1 \in DOMAIN stack => stack[i + 1].id \notin stack[i].todo
  /\ \A i, j \in DOMAIN stack : i > 1 /\ j > 1 /\ stack[i].id = stack[j].id => i = j

(* The trees a deletion is called for have roots with one parent. *)
Siblings == \E p : \A x \in Pending(1) : Parent(x) = p

Path ==
  proc = "delete_tree" => Counted /\ PendingIsLeft /\ NoneTwice /\ Siblings

-----------------------------------------------------------------------------
(* The ids on the path are nodes, and each is the parent of the next. *)
LEMMA OnPath ==
  ASSUME CallTyped, proc = "delete_tree", Path
  PROVE  /\ DOMAIN stack = 1..Len(stack) /\ Len(stack) \in Nat \ {0}
         /\ \A i \in DOMAIN stack : i > 1 =>
              /\ stack[i].id \in Pending(i - 1) /\ i - 1 \in DOMAIN stack
              /\ stack[i].id \in Nodes
         /\ \A i \in DOMAIN stack : i > 2 => Parent(stack[i].id) = stack[i - 1].id
<1>1. DOMAIN stack = 1..Len(stack) /\ Len(stack) \in Nat \ {0}
  BY TopIs DEF CallTyped
<1>2. ASSUME NEW i \in DOMAIN stack, i > 1
      PROVE  stack[i].id \in Pending(i - 1) /\ i - 1 \in DOMAIN stack
  BY <1>1, <1>2 DEF Pending
<1>3. ASSUME NEW i \in DOMAIN stack, i > 1 PROVE stack[i].id \in Nodes
  BY <1>2, <1>3 DEF Path, PendingIsLeft
<1>4. ASSUME NEW i \in DOMAIN stack, i > 2
      PROVE  Parent(stack[i].id) = stack[i - 1].id
  <2>1. i - 1 \in DOMAIN stack /\ i - 1 > 1 /\ i - 1 < Len(stack)
    BY <1>1, <1>4
  <2>2. Pending(i - 1) = Children(stack[i - 1].id)
    BY <2>1 DEF Path, Counted, PendingIsLeft
  <2>3. stack[i].id \in Pending(i - 1)
    BY <1>1, <1>2, <1>4
  <2> QED
    BY <2>2, <2>3 DEF Children, Parent
<1> QED
  BY <1>1, <1>2, <1>3, <1>4

(* The roots of the trees do not lie below a node of the path. *)
LEMMA NoLoop ==
  ASSUME NoCycles, CallTyped, proc = "delete_tree", Path,
         2 \in DOMAIN stack, NEW m \in DOMAIN stack, m > 1
  PROVE  Parent(stack[2].id) # stack[m].id
<1> SUFFICES ASSUME Parent(stack[2].id) = stack[m].id PROVE FALSE
  OBVIOUS
<1>1. /\ DOMAIN stack = 1..Len(stack) /\ Len(stack) \in Nat \ {0}
      /\ \A i \in DOMAIN stack : i > 1 => stack[i].id \in Nodes
      /\ \A i \in DOMAIN stack : i > 2 => Parent(stack[i].id) = stack[i - 1].id
  BY OnPath
<1> DEFINE S == {stack[i].id : i \in 2..m}
<1>2. S \in SUBSET Nodes
  BY <1>1
<1>3. S # {}
  <2>1. 2 \in 2..m
    BY <1>1
  <2> QED
    BY <2>1
<1>4. PICK i \in 2..m : Parent(stack[i].id) \notin S
  <2>1. \E x \in S : ItemAt(pages, x).parent \notin S
    <3> HIDE DEF S
    <3> QED
      BY <1>2, <1>3 DEF NoCycles
  <2> QED
    BY <2>1 DEF Parent
<1>5. CASE i = 2
  <2>1. stack[m].id \in S
    BY <1>1
  <2> QED
    BY <1>4, <1>5, <2>1
<1>6. CASE i > 2
  <2>1. i - 1 \in 2..m /\ i \in DOMAIN stack
    BY <1>1, <1>4, <1>6
  <2>2. stack[i - 1].id \in S
    BY <2>1
  <2> QED
    BY <1>1, <1>4, <1>6, <2>1, <2>2
<1> QED
  BY <1>1, <1>4, <1>5, <1>6

(* The node whose turn has come is left to delete by no other frame. *)
LEMMA TurnOfOne ==
  ASSUME NoCycles, CallTyped, proc = "delete_tree", Path, Len(stack) > 1,
         NEW i \in DOMAIN stack, i + 1 < Len(stack)
  PROVE  Top.id \notin Pending(i)
<1> DEFINE n == Len(stack)
           x == Top.id
<1>1. /\ DOMAIN stack = 1..n /\ n \in Nat \ {0} /\ x = stack[n].id
      /\ \A j \in DOMAIN stack : j > 1 => stack[j].id \in Pending(j - 1)
      /\ \A j \in DOMAIN stack : j > 2 => Parent(stack[j].id) = stack[j - 1].id
  BY OnPath, TopIs
<1>2. Parent(x) = stack[n - 1].id /\ n - 1 \in DOMAIN stack /\ n - 1 > 1
  BY <1>1
<1>3. CASE i = 1
  <2>1. 2 \in DOMAIN stack /\ stack[2].id \in Pending(1)
    <3>1. 2 \in DOMAIN stack /\ 2 - 1 = 1
      BY <1>1, <1>2
    <3> QED
      BY <1>1, <3>1
  <2>2. Parent(stack[2].id) # Parent(x)
    BY <1>2, <2>1, NoLoop
  <2> QED
    BY <1>3, <2>1, <2>2 DEF Path, Siblings
<1>4. CASE i > 1
  <2>1. stack[i].counted /\ Pending(i) = Children(stack[i].id)
    BY <1>1, <1>4 DEF Path, Counted, PendingIsLeft
  <2>2. stack[i].id # stack[n - 1].id
    BY <1>1, <1>2, <1>4 DEF Path, NoneTwice
  <2> QED
    BY <1>2, <2>1, <2>2 DEF Children, Parent
<1> QED
  BY <1>1, <1>3, <1>4

-----------------------------------------------------------------------------
(* A deletion starts with the nodes it is called for. *)
LEMMA PathStarts ==
  ASSUME NEW parent, NEW S \in SUBSET Children(parent), DeleteTrees(S)
  PROVE  Path'
<1> DEFINE caller == Frame(NullId, S, TRUE)
<1>1. /\ stack' = <<caller>> /\ caller.todo = S /\ caller.counted
      /\ targets' = S /\ UNCHANGED pages
  BY DEF DeleteTrees, Frame
<1> HIDE DEF caller
<1>2. DOMAIN stack' = {1} /\ Len(stack') = 1 /\ stack'[1] = caller
  BY <1>1
<1>3. Pending(1)' = S
  BY <1>1, <1>2 DEF Pending
<1>4. S \subseteq Nodes /\ Nodes' = Nodes
  BY <1>1 DEF Children, Nodes
<1>5. Counted'
  BY <1>1, <1>2 DEF Counted
<1>6. PendingIsLeft'
  <2>1. \A i \in DOMAIN stack' : i = 1
    BY <1>2
  <2> QED
    BY <1>1, <1>3, <1>4, <2>1 DEF PendingIsLeft
<1>7. NoneTwice'
  BY <1>2 DEF NoneTwice
<1>8. Siblings'
  <2>1. \A x \in S : Parent(x)' = parent
    BY <1>1 DEF Parent, Children
  <2> QED
    BY <1>3, <2>1 DEF Siblings
<1> QED
  BY <1>5, <1>6, <1>7, <1>8 DEF Path

(* Counting finds the children, all of them left to delete. *)
LEMMA PathCounts ==
  ASSUME Shape, CallTyped, Path, CountChildren
  PROVE  Path'
<1> SUFFICES ASSUME proc' = "delete_tree" PROVE Path'
  BY DEF Path
<1>n. PICK n : n = Len(stack)
  OBVIOUS
<1> DEFINE top == [Top EXCEPT !.counted = TRUE, !.todo = Children(Top.id)]
<1>0. /\ proc = "delete_tree" /\ ~Top.counted /\ stack' = [stack EXCEPT ![n] = top]
      /\ UNCHANGED <<pages, targets>>
  BY <1>n DEF CountChildren
<1>1. /\ DOMAIN stack = 1..n /\ n \in Nat \ {0}
      /\ Top = stack[n] /\ Top \in Frames /\ n \in DOMAIN stack
      /\ Counted /\ PendingIsLeft /\ NoneTwice /\ Siblings
  BY <1>0, <1>n, OnPath, TopIs DEF Path
<1>2. top.counted /\ top.todo = Children(Top.id) /\ top.id = Top.id
  BY <1>1 DEF Frames
<1> HIDE DEF top
<1>3. n > 1
  BY <1>0, <1>1 DEF Counted
<1>4. /\ DOMAIN stack' = DOMAIN stack /\ Len(stack') = n
      /\ stack'[n] = top /\ \A i \in DOMAIN stack : i # n => stack'[i] = stack[i]
  <2>1. stack \in Seq(Frames)
    BY DEF CallTyped
  <2> QED
    BY <1>0, <1>1, <1>n, <2>1
<1>5. \A i \in DOMAIN stack : stack'[i].id = stack[i].id
  BY <1>1, <1>2, <1>4
<1>6. ASSUME NEW i \in DOMAIN stack, i # n PROVE Pending(i)' = Pending(i)
  BY <1>4, <1>5, <1>6 DEF Pending
<1>7. Pending(n)' = Children(Top.id)
  <2>1. n + 1 \notin DOMAIN stack
    BY <1>1
  <2> QED
    BY <1>2, <1>4, <2>1 DEF Pending
<1>8. Nodes' = Nodes /\ \A i \in DOMAIN stack : Children(stack[i].id)' = Children(stack[i].id)
  BY <1>0, <1>5 DEF Nodes, Children
<1>9. Counted'
  BY <1>1, <1>2, <1>4 DEF Counted
<1>10. PendingIsLeft'
  <2>1. \A i \in DOMAIN stack' : Pending(i)' \subseteq Nodes'
    BY <1>1, <1>4, <1>6, <1>7, <1>8 DEF PendingIsLeft, Children
  <2>2. \A i \in DOMAIN stack' : i > 1 /\ stack'[i].counted =>
          Pending(i)' = Children(stack[i].id)'
    <3> SUFFICES ASSUME NEW i \in DOMAIN stack, i > 1, stack'[i].counted
                 PROVE  Pending(i)' = Children(stack[i].id)
      BY <1>4, <1>8
    <3>1. CASE i = n
      BY <1>1, <1>7, <3>1
    <3>2. CASE i # n
      BY <1>1, <1>4, <1>6, <3>2 DEF PendingIsLeft
    <3> QED
      BY <3>1, <3>2
  <2>3. Pending(1)' = targets' \cap Nodes'
    BY <1>0, <1>1, <1>3, <1>6, <1>8 DEF PendingIsLeft
  <2> QED
    BY <2>1, <2>2, <2>3 DEF PendingIsLeft
<1>11. NoneTwice'
  <2>1. \A i \in DOMAIN stack' : i + 1 \in DOMAIN stack' => i # n
    BY <1>1, <1>4
  <2> QED
    BY <1>1, <1>4, <1>5, <2>1 DEF NoneTwice
<1>12. Siblings'
  <2>1. \A x : Parent(x)' = Parent(x)
    BY <1>0 DEF Parent
  <2> QED
    BY <1>1, <1>3, <1>6, <2>1 DEF Siblings
<1> QED
  BY <1>9, <1>10, <1>11, <1>12 DEF Path

(* The deletion goes on to a child, which is on no earlier part of the path. *)
LEMMA PathDescends ==
  ASSUME NoCycles, Shape, CallTyped, Path, Descend
  PROVE  Path'
<1>n. PICK n : n = Len(stack)
  OBVIOUS
<1>c. PICK c : c = First(Top.todo)
  OBVIOUS
<1> DEFINE top == [Top EXCEPT !.todo = @ \ {c}]
           new == Frame(c, {}, FALSE)
           rest == [stack EXCEPT ![n] = top]
<1>0. /\ proc = "delete_tree" /\ Top.counted /\ Top.todo # {}
      /\ UNCHANGED <<pages, proc, targets>>
  BY DEF Descend
<1>1. /\ DOMAIN stack = 1..n /\ n \in Nat \ {0}
      /\ Top = stack[n] /\ Top \in Frames /\ n \in DOMAIN stack
      /\ Counted /\ PendingIsLeft /\ NoneTwice /\ Siblings
  BY <1>0, <1>n, OnPath, TopIs DEF Path
<1>2. /\ top.counted /\ top.todo = Top.todo \ {c} /\ top.id = Top.id /\ top \in Frames
      /\ new.id = c /\ new.todo = {} /\ ~new.counted
  BY <1>0, <1>1 DEF Frames, Frame
<1>3. c \in Top.todo
  <2>1. Top.todo \subseteq NodeIds
    BY <1>1 DEF Frames
  <2>2. Top.todo \subseteq Nat \X Nat
    BY <2>1, MaxPagesAssumption, CapacityAssumption DEF NodeIds
  <2> QED
    BY <1>0, <1>c, <2>2, FirstIs
<1>4. stack' = Append(rest, new)
  BY <1>n, <1>c DEF Descend
<1> HIDE DEF top, new
<1>5. /\ DOMAIN rest = DOMAIN stack /\ Len(rest) = n /\ rest \in Seq(Frames)
      /\ rest[n] = top /\ \A i \in DOMAIN stack : i # n => rest[i] = stack[i]
  <2>1. stack \in Seq(Frames)
    BY DEF CallTyped
  <2> QED
    BY <1>1, <1>2, <1>n, <2>1
<1> HIDE DEF rest
<1>6. /\ DOMAIN stack' = 1..n + 1 /\ Len(stack') = n + 1
      /\ stack'[n + 1] = new /\ stack'[n] = top
      /\ \A i \in DOMAIN stack : i # n => stack'[i] = stack[i]
  BY <1>1, <1>4, <1>5
<1>7. \A i \in DOMAIN stack : stack'[i].id = stack[i].id
  BY <1>1, <1>2, <1>6
<1>8. \A i \in DOMAIN stack : Pending(i)' = Pending(i)
  <2> SUFFICES ASSUME NEW i \in DOMAIN stack PROVE Pending(i)' = Pending(i)
    OBVIOUS
  <2>1. CASE i = n
    <3>1. n + 1 \notin DOMAIN stack /\ n + 1 \in DOMAIN stack'
      BY <1>1, <1>6
    <3>2. Pending(i) = Top.todo /\ Pending(i)' = (Top.todo \ {c}) \cup {c}
      BY <1>1, <1>2, <1>6, <2>1, <3>1 DEF Pending
    <3> QED
      BY <1>3, <3>2
  <2>2. CASE i # n
    <3>1. i + 1 \in DOMAIN stack /\ i + 1 \in DOMAIN stack'
      BY <1>1, <1>6, <2>2
    <3> QED
      BY <1>6, <1>7, <2>2, <3>1 DEF Pending
  <2> QED
    BY <2>1, <2>2
<1>9. Pending(n + 1)' = {}
  <2>1. n + 1 + 1 \notin DOMAIN stack'
    BY <1>1, <1>6
  <2> QED
    BY <1>2, <1>6, <2>1 DEF Pending
<1>10. Nodes' = Nodes /\ \A i \in DOMAIN stack : Children(stack[i].id)' = Children(stack[i].id)
  BY <1>0, <1>7 DEF Nodes, Children
<1>11. Counted'
  <2> SUFFICES ASSUME NEW i \in 1..n PROVE stack'[i].counted
    BY <1>1, <1>6 DEF Counted
  <2> QED
    BY <1>1, <1>2, <1>6 DEF Counted
<1>12. PendingIsLeft'
  <2>1. \A i \in DOMAIN stack' : Pending(i)' \subseteq Nodes'
    BY <1>1, <1>6, <1>8, <1>9, <1>10 DEF PendingIsLeft
  <2>2. \A i \in DOMAIN stack' : i > 1 /\ stack'[i].counted =>
          Pending(i)' = Children(stack[i].id)'
    <3> SUFFICES ASSUME NEW i \in DOMAIN stack', i > 1, stack'[i].counted
                 PROVE  Pending(i)' = Children(stack[i].id)'
      OBVIOUS
    <3>1. i \in DOMAIN stack
      BY <1>1, <1>2, <1>6
    <3>2. stack[i].counted
      BY <1>0, <1>1, <1>6, <3>1
    <3> QED
      BY <1>1, <1>8, <1>10, <3>1, <3>2 DEF PendingIsLeft
  <2>3. Pending(1)' = targets' \cap Nodes'
    BY <1>0, <1>1, <1>8, <1>10 DEF PendingIsLeft
  <2> QED
    BY <2>1, <2>2, <2>3 DEF PendingIsLeft
<1>13. \A i \in DOMAIN stack : i > 1 => stack[i].id # c
  <2> SUFFICES ASSUME NEW i \in DOMAIN stack, i > 1, stack[i].id = c PROVE FALSE
    OBVIOUS
  <2>1. n > 1 /\ c \in Pending(n)
    BY <1>1, <1>3 DEF Pending
  <2>2. Parent(c) = stack[n].id
    BY <1>0, <1>1, <2>1 DEF PendingIsLeft, Children, Parent
  <2>3. CASE i = 2
    BY <1>0, <1>1, <2>1, <2>2, <2>3, NoLoop
  <2>4. CASE i > 2
    <3>1. Parent(c) = stack[i - 1].id /\ i - 1 \in DOMAIN stack /\ i - 1 > 1
      BY <1>0, <1>1, <2>4, OnPath
    <3>2. i - 1 = n
      BY <1>1, <2>1, <2>2, <3>1 DEF NoneTwice
    <3> QED
      BY <1>1, <3>2
  <2> QED
    BY <1>1, <2>3, <2>4
<1>14. NoneTwice'
  <2>1. ASSUME NEW i \in DOMAIN stack', i + 1 \in DOMAIN stack'
        PROVE  stack'[i + 1].id \notin stack'[i].todo
    <3>1. CASE i = n
      BY <1>2, <1>6, <3>1
    <3>2. CASE i # n
      <4>1. i \in DOMAIN stack /\ i + 1 \in DOMAIN stack
        BY <1>1, <1>6, <2>1, <3>2
      <4> QED
        BY <1>1, <1>6, <1>7, <3>2, <4>1 DEF NoneTwice
    <3> QED
      BY <3>1, <3>2
  <2>2. ASSUME NEW i \in DOMAIN stack', NEW j \in DOMAIN stack', i > 1, j > 1,
               stack'[i].id = stack'[j].id
        PROVE  i = j
    <3>1. ASSUME NEW k \in DOMAIN stack', k # n + 1 PROVE k \in DOMAIN stack
      BY <1>1, <1>6, <3>1
    <3>2. stack'[n + 1].id = c
      BY <1>2, <1>6
    <3>3. CASE i = n + 1
      BY <1>7, <1>13, <2>2, <3>1, <3>2, <3>3
    <3>4. CASE j = n + 1
      BY <1>7, <1>13, <2>2, <3>1, <3>2, <3>4
    <3>5. CASE i # n + 1 /\ j # n + 1
      BY <1>1, <1>7, <2>2, <3>1, <3>5 DEF NoneTwice
    <3> QED
      BY <3>3, <3>4, <3>5
  <2> QED
    BY <2>1, <2>2 DEF NoneTwice
<1>15. Siblings'
  <2>1. \A x : Parent(x)' = Parent(x)
    BY <1>0 DEF Parent
  <2>2. 1 \in DOMAIN stack
    BY <1>1
  <2> QED
    BY <1>1, <1>8, <2>1, <2>2 DEF Siblings
<1> QED
  BY <1>11, <1>12, <1>14, <1>15 DEF Path

(* The node on top of a path that has nothing left above it has no         *)
(* children, and is there.                                                 *)
LEMMA TopIsLeaf ==
  ASSUME CallTyped, proc = "delete_tree", Path,
         Len(stack) > 1, Top.counted, Top.todo = {}
  PROVE  Children(Top.id) = {} /\ Top.id \in Nodes
<1>n. PICK n : n = Len(stack)
  OBVIOUS
<1>1. /\ DOMAIN stack = 1..n /\ n \in Nat \ {0} /\ n \in DOMAIN stack /\ Top = stack[n]
      /\ n > 1 /\ PendingIsLeft
  BY <1>n, OnPath, TopIs DEF Path
<1>2. Pending(n) = {}
  <2>1. n + 1 \notin DOMAIN stack
    BY <1>1
  <2> QED
    BY <1>1, <2>1 DEF Pending
<1>3. Top.id \in Nodes
  BY <1>1, OnPath
<1> QED
  BY <1>1, <1>2, <1>3 DEF PendingIsLeft

(* When it is deleted the rest of the path is as before. *)
LEMMA PathPops ==
  ASSUME NoCycles, Shape, CallTyped, Path, DeleteTop
  PROVE  Path'
<1> SUFFICES ASSUME proc' = "delete_tree" PROVE Path'
  BY DEF Path
<1>n. PICK n : n = Len(stack)
  OBVIOUS
<1>x. PICK x : x = Top.id
  OBVIOUS
<1>0. /\ proc = "delete_tree" /\ Top.counted /\ Top.todo = {} /\ n > 1
      /\ UNCHANGED targets
  BY <1>n DEF DeleteTop
<1>1. /\ DOMAIN stack = 1..n /\ n \in Nat \ {0}
      /\ Top = stack[n] /\ x = stack[n].id /\ n \in DOMAIN stack
      /\ Counted /\ PendingIsLeft /\ NoneTwice /\ Siblings
  BY <1>0, <1>n, <1>x, OnPath, TopIs DEF Path
<1>2. x \in Nodes /\ Erase(x)
  <2>1. x \in Nodes
    BY <1>0, <1>n, <1>x, TopIsLeaf
  <2>2. Delete(x, "delete_tree", "not_found")
    BY <1>x DEF DeleteTop
  <2> QED
    BY <2>1, <2>2 DEF Delete, Erase
<1>3. /\ Nodes' = Nodes \ {x}
      /\ \A y \in Nodes \ {x} : ItemAt(pages', y) = ItemAt(pages, y)
  BY <1>2, Removed
<1> DEFINE popped == SubSeq(stack, 1, n - 1)
<1>4. stack' = popped
  BY <1>n DEF DeleteTop
<1>5. /\ DOMAIN stack' = 1..n - 1 /\ Len(stack') = n - 1
      /\ \A i \in 1..n - 1 : stack'[i] = stack[i] /\ i \in DOMAIN stack
  <2>1. stack \in Seq(Frames)
    BY DEF CallTyped
  <2>2. /\ DOMAIN popped = 1..n - 1 /\ Len(popped) = n - 1
        /\ \A i \in 1..n - 1 : popped[i] = stack[i]
    BY <1>0, <1>1, <1>n, <2>1
  <2> HIDE DEF popped
  <2> QED
    BY <1>1, <1>4, <2>2
<1>6. \A i \in DOMAIN stack' : Pending(i)' = Pending(i) \ {x}
  <2> SUFFICES ASSUME NEW i \in 1..n - 1 PROVE Pending(i)' = Pending(i) \ {x}
    BY <1>5
  <2>1. CASE i = n - 1
    <3>1. i + 1 \in DOMAIN stack /\ i + 1 \notin DOMAIN stack' /\ stack[i + 1].id = x
      BY <1>1, <1>5, <2>1
    <3>2. Pending(i)' = stack[i].todo /\ Pending(i) = stack[i].todo \cup {x}
      BY <1>5, <3>1 DEF Pending
    <3>3. x \notin stack[i].todo
      BY <1>1, <1>5, <3>1 DEF NoneTwice
    <3> QED
      BY <3>2, <3>3
  <2>2. CASE i # n - 1
    <3>1. i + 1 \in DOMAIN stack /\ i + 1 \in DOMAIN stack' /\ i + 1 < n
      BY <1>1, <1>5, <2>2
    <3>2. Pending(i)' = Pending(i)
      BY <1>5, <3>1 DEF Pending
    <3>3. x \notin Pending(i)
      BY <1>0, <1>1, <1>5, <1>n, <1>x, <3>1, TurnOfOne
    <3> QED
      BY <3>2, <3>3
  <2> QED
    BY <2>1, <2>2
<1>7. \A i \in DOMAIN stack' : Children(stack[i].id)' = Children(stack[i].id) \ {x}
  <2> SUFFICES ASSUME NEW i \in 1..n - 1
               PROVE  Children(stack[i].id)' = Children(stack[i].id) \ {x}
    BY <1>5
  <2>1. Children(stack[i].id)' = {y \in Nodes \ {x} : ItemAt(pages', y).parent = stack[i].id}
    BY <1>3, <1>5 DEF Children
  <2> QED
    BY <1>3, <2>1 DEF Children
<1>8. Counted'
  BY <1>1, <1>5 DEF Counted
<1>9. PendingIsLeft'
  <2>1. \A i \in DOMAIN stack' : Pending(i)' \subseteq Nodes'
    BY <1>1, <1>3, <1>5, <1>6 DEF PendingIsLeft
  <2>2. \A i \in DOMAIN stack' : i > 1 /\ stack'[i].counted =>
          Pending(i)' = Children(stack[i].id)'
    BY <1>1, <1>5, <1>6, <1>7 DEF PendingIsLeft
  <2>3. Pending(1)' = targets' \cap Nodes'
    <3>1. 1 \in DOMAIN stack'
      BY <1>0, <1>1, <1>5
    <3> QED
      BY <1>0, <1>1, <1>3, <1>6, <3>1 DEF PendingIsLeft
  <2> QED
    BY <2>1, <2>2, <2>3 DEF PendingIsLeft
<1>10. NoneTwice'
  <2>1. \A i \in DOMAIN stack' : i + 1 \in DOMAIN stack' =>
          stack'[i + 1].id \notin stack'[i].todo
    BY <1>1, <1>5 DEF NoneTwice
  <2> QED
    BY <1>1, <1>5, <2>1 DEF NoneTwice
<1>11. Siblings'
  <2>1. 1 \in DOMAIN stack' /\ 1 \in DOMAIN stack
    BY <1>0, <1>1, <1>5
  <2>2. Pending(1)' = Pending(1) \ {x} /\ Pending(1) \subseteq Nodes
    BY <1>1, <1>6, <2>1 DEF PendingIsLeft
  <2>3. \A y \in Pending(1)' : Parent(y)' = Parent(y)
    BY <1>3, <2>2 DEF Parent
  <2> QED
    BY <1>1, <2>2, <2>3 DEF Siblings
<1> QED
  BY <1>8, <1>9, <1>10, <1>11 DEF Path

(* The path is an invariant. *)
LEMMA PathStep ==
  ASSUME NoCycles, Shape, CallTyped, Path, [Next]_vars
  PROVE  Path'
<1>1. ASSUME NEW parent \in NodeIds \cup {NullId}, NEW v \in Values, AddNode(parent, v)
      PROVE  Path'
  BY <1>1, AddEnds DEF AddNode, Path
<1>2. ASSUME NEW x \in NodeIds \cup {NullId}, DeleteNode(x)
      PROVE  Path'
  BY <1>2, DeleteIs DEF DeleteNode, Path
<1>3. ASSUME NEW x \in NodeIds \cup {NullId}, NEW parent \in NodeIds \cup {NullId}, NEW v \in Values,
             UpdateNode(x, parent, v)
      PROVE  Path'
  BY <1>3, DeleteIs DEF UpdateNode, Path
<1>4. CASE UpdateAdd
  BY <1>4, AddEnds DEF UpdateAdd, Path
<1>5. CASE ReadNodes \/ DeleteTreesReturns \/ Stop \/ Open
  BY <1>5 DEF ReadNodes, DeleteTreesReturns, Stop, Open, Path
<1>6. CASE UNCHANGED vars
  BY <1>6 DEF vars, calls, Path, Counted, PendingIsLeft, NoneTwice, Siblings,
              Pending, Parent, Children, Nodes
<1>7. ASSUME NEW parent \in Nodes \cup {NullId}, NEW S \in (SUBSET Children(parent)) \ {{}},
             DeleteTrees(S)
      PROVE  Path'
  BY <1>7, PathStarts
<1> QED
  BY <1>1, <1>2, <1>3, <1>4, <1>5, <1>6, <1>7, PathCounts, PathDescends, PathPops
  DEF Next, InCall

(* All that is known of a document between two steps. *)
DocumentInv == IndShape /\ IndForest /\ IndObstacles /\ CallTyped /\ Path

LEMMA DocumentInit == Init => DocumentInv
<1>1. Init => Path
  BY DEF Init, Path
<1> QED
  BY <1>1, ShapeInit, ForestInit, ObstaclesInit, CallTypedInit DEF DocumentInv

LEMMA DocumentStep == DocumentInv /\ [Next]_vars => DocumentInv'
<1>1. DocumentInv /\ [Next]_vars => Path' /\ CallTyped'
  BY PathStep, CallTypedStep DEF DocumentInv, IndShape, IndForest
<1> QED
  BY <1>1, ShapeStep, ForestStep, ObstaclesStep DEF DocumentInv

LEMMA DocumentAlways == Spec => []DocumentInv
  BY DocumentInit, DocumentStep, PTL DEF Spec

-----------------------------------------------------------------------------
(* The steps of a process that deletes trees. *)
LEMMA DeletionStepIs ==
  ASSUME proc = "delete_tree", [Next]_vars
  PROVE  \/ DeleteTop
         \/ /\ UNCHANGED pages /\ proc' \in {"delete_tree", "read_deleted", "down"}
         \/ DeleteTreesReturns
<1>1. CASE CountChildren \/ Descend \/ Stop \/ UNCHANGED vars
  BY <1>1 DEF CountChildren, Descend, Stop, vars
<1>2. ~UpdateAdd /\ ~ReadNodes /\ ~Open
  BY DEF UpdateAdd, ReadNodes, Open
<1>3. /\ \A parent, v : ~AddNode(parent, v)
      /\ \A x : ~DeleteNode(x)
      /\ \A x, parent, v : ~UpdateNode(x, parent, v)
      /\ \A S : ~DeleteTrees(S)
  BY DEF AddNode, DeleteNode, UpdateNode, DeleteTrees
<1> QED
  BY <1>1, <1>2, <1>3 DEF Next, InCall

LEMMA DeleteTopIs ==
  ASSUME CallTyped, Path, DeleteTop
  PROVE  \/ Erase(Top.id) /\ Top.id \in Nodes /\ proc' = "delete_tree"
         \/ UNCHANGED pages /\ proc' = "read_deleted"
<1>1. /\ proc = "delete_tree" /\ Len(stack) > 1 /\ Top.counted /\ Top.todo = {}
      /\ Delete(Top.id, "delete_tree", "not_found")
  BY DEF DeleteTop
<1>2. Children(Top.id) = {} /\ Top.id \in Nodes
  BY <1>1, TopIsLeaf
<1> QED
  BY <1>1, <1>2 DEF Delete, Erase, Finds

(* Whatever trees are deleted, no deletion meets a node that has children  *)
(* or is gone: only an obstacle can abort it.                              *)
THEOREM OnlyObstacles == Spec => OnlyObstaclesStopDeletion
<1>1. CallTyped /\ Path /\ [Next]_vars =>
        [proc = "delete_tree" => proc' \notin {"has_children", "not_found"}]_vars
  <2> SUFFICES ASSUME CallTyped, Path, [Next]_vars, proc = "delete_tree"
               PROVE  proc' \notin {"has_children", "not_found"}
    OBVIOUS
  <2>1. CASE DeleteTop
    BY <2>1, DeleteTopIs
  <2>2. CASE DeleteTreesReturns
    BY <2>2 DEF DeleteTreesReturns
  <2> QED
    BY <2>1, <2>2, DeletionStepIs
<1> QED
  BY <1>1, DocumentAlways, PTL DEF Spec, DocumentInv, OnlyObstaclesStopDeletion

(* The end of the path hangs below one of the nodes the deletion was       *)
(* called for.                                                             *)
LEMMA TopDescends ==
  ASSUME Shape, CallTyped, proc = "delete_tree", Path, Len(stack) > 1
  PROVE  DescendsFrom(Top.id, targets)
<1> SUFFICES ASSUME NEW S \in SUBSET Nodes, Top.id \in S,
                    \A y \in S : ItemAt(pages, y).parent \in S \cup {NullId}
             PROVE  S \cap targets # {}
  BY DEF DescendsFrom
<1>1. /\ DOMAIN stack = 1..Len(stack) /\ Len(stack) \in Nat \ {0}
      /\ Top.id = stack[Len(stack)].id
      /\ \A i \in DOMAIN stack : i > 1 =>
           /\ stack[i].id \in Pending(i - 1) /\ stack[i].id \in Nodes
      /\ \A i \in DOMAIN stack : i > 2 => Parent(stack[i].id) = stack[i - 1].id
  BY OnPath, TopIs
<1> DEFINE T == {i \in DOMAIN stack : i > 1 /\ stack[i].id \in S}
<1>2. PICK m \in T : \A i \in T : m <= i
  <2>1. T \subseteq Nat
    BY <1>1
  <2>2. T # {}
    BY <1>1
  <2> HIDE DEF T
  <2> QED
    BY <2>1, <2>2, LeastNumber
<1>3. m = 2
  <2> SUFFICES ASSUME m > 2 PROVE FALSE
    BY <1>1, <1>2
  <2>1. Parent(stack[m].id) = stack[m - 1].id /\ m - 1 \in DOMAIN stack /\ m - 1 > 1
    BY <1>1, <1>2
  <2>2. stack[m - 1].id \in NodeIds
    BY <1>1, <2>1, NodesTyped
  <2>3. stack[m - 1].id # NullId
    BY <2>2 DEF NodeIds, NullId
  <2>4. m - 1 \in T
    BY <1>2, <2>1, <2>3 DEF Parent
  <2> QED
    BY <1>1, <1>2, <2>4
<1>4. stack[2].id \in Pending(1) /\ stack[2].id \in S
  BY <1>1, <1>2, <1>3
<1>5. Pending(1) \subseteq targets
  BY DEF Path, PendingIsLeft
<1> QED
  BY <1>4, <1>5

(* A deletion of trees removes nothing else, and removes them to the last. *)
THEOREM ExactlyTheTrees == Spec => DeletesExactlyTheTrees
<1>1. IndShape /\ CallTyped /\ Path /\ [Next]_vars =>
        [proc = "delete_tree" =>
           /\ \A x \in Nodes \ ItemsOf(pages') : DescendsFrom(x, targets)
           /\ proc' = "idle" => targets \cap Nodes = {}]_vars
  <2> SUFFICES ASSUME Shape, CallTyped, Path, [Next]_vars, proc = "delete_tree"
               PROVE  /\ \A x \in Nodes \ ItemsOf(pages') : DescendsFrom(x, targets)
                      /\ proc' = "idle" => targets \cap Nodes = {}
    BY DEF IndShape
  <2>1. UNCHANGED pages => Nodes \ ItemsOf(pages') = {}
    BY DEF Nodes
  <2>2. CASE DeleteTop
    <3>1. CASE Erase(Top.id) /\ Top.id \in Nodes /\ proc' = "delete_tree"
      <4>1. Nodes \ ItemsOf(pages') = {Top.id}
        BY <3>1, Removed DEF Nodes
      <4>2. DescendsFrom(Top.id, targets)
        BY <2>2, TopDescends DEF DeleteTop
      <4> QED
        BY <3>1, <4>1, <4>2
    <3> QED
      BY <2>1, <2>2, <3>1, DeleteTopIs
  <2>3. CASE DeleteTreesReturns
    <3>1. Len(stack) = 1 /\ Top.todo = {} /\ UNCHANGED pages
      BY <2>3 DEF DeleteTreesReturns
    <3>2. Top = stack[1] /\ DOMAIN stack = {1}
      BY <3>1, OnPath, TopIs
    <3>3. Pending(1) = {}
      BY <3>1, <3>2 DEF Pending
    <3> QED
      BY <2>1, <3>1, <3>3 DEF Path, PendingIsLeft
  <2> QED
    BY <2>1, <2>2, <2>3, DeletionStepIs
<1> QED
  BY <1>1, DocumentAlways, PTL DEF Spec, DocumentInv, DeletesExactlyTheTrees
=============================================================================
