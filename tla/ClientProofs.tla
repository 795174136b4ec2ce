---------------------------- MODULE ClientProofs ----------------------------
(***************************************************************************)
(* The whole program: consoles, callers, the server, its kills and         *)
(* restarts.  Whatever they call, the file behind the server is a document *)
(* of module Document; a console's command does not end the server, create *)
(* adds where it was asked to, and init builds the tree of its file.       *)
(***************************************************************************)
EXTENDS Client, OperatorProofs

(* What is proved of the document, of the one behind the server: a process *)
(* that did exit(1) leaves the document as a call that failed does.        *)
DP == INSTANCE DocumentProofs WITH proc <- Outcome

(* The proofs are about the document of the refinement. *)
LEMMA SameNext == DP!Next <=> D!Next
  BY Zenon DEF DP!Next, D!Next, DP!AddNode, D!AddNode, DP!DeleteNode, D!DeleteNode,
     DP!UpdateNode, D!UpdateNode,
   DP!ReadNodes, D!ReadNodes, DP!DeleteTrees, D!DeleteTrees, DP!InCall, D!InCall,
   DP!Stop, D!Stop, DP!Open, D!Open,
   DP!UpdateAdd, D!UpdateAdd, DP!CountChildren, D!CountChildren, DP!Descend, D!Descend,
   DP!DeleteTop, D!DeleteTop,
   DP!DeleteTreesReturns, D!DeleteTreesReturns, DP!Add, D!Add, DP!Delete, D!Delete,
   DP!Persist, D!Persist, DP!Accepts, D!Accepts,
   DP!Sought, D!Sought, DP!HasRoom, D!HasRoom, DP!FreePage, D!FreePage, DP!Children,
   D!Children, DP!Nodes, D!Nodes,
   DP!NodeIds, D!NodeIds, DP!NullId, D!NullId, DP!RootId, D!RootId, DP!Node, D!Node,
   DP!NoUpdate, D!NoUpdate, DP!calls, D!calls,
   DP!Frame, D!Frame, DP!Top, D!Top, DP!Finds, D!Finds, DP!Trips, D!Trips, DP!Ends,
   D!Ends, DP!First, D!First, DP!Before, D!Before,
   DP!ItemsOf, D!ItemsOf, DP!ItemAt, D!ItemAt, DP!Obstacles, D!Obstacles, DP!Visible,
   D!Visible, DP!Tombstones, D!Tombstones,
   DP!NewPage, D!NewPage, DP!NoItems, D!NoItems, DP!WithItem, D!WithItem, DP!WithoutItem,
   D!WithoutItem

(* Pages are the same things in the server, its document and the proofs. *)
LEMMA SamePages ==
  /\ DP!NoItems = NoItems /\ Doc!NoItems = NoItems
  /\ \A i : DP!NewPage(i) = NewPage(i) /\ Doc!NewPage(i) = NewPage(i)
  /\ \A page, p : DP!WithItem(page, p) = WithItem(page, p) /\ Doc!WithItem(page, p) = WithItem(page, p)
  /\ \A page, s : DP!WithoutItem(page, s) = WithoutItem(page, s) /\ Doc!WithoutItem(page, s) = WithoutItem(page, s)
  BY Zenon DEF DP!NewPage, Doc!NewPage, NewPage, DP!WithItem, Doc!WithItem, WithItem,
         DP!WithoutItem, Doc!WithoutItem, WithoutItem, DP!NoItems, Doc!NoItems, NoItems

(* So are scans: the document the server runs, Doc, differs from the one   *)
(* proved about only in how its process ended.                             *)
LEMMA SameScans ==
  /\ \A f : DP!ItemsOf(f) = ItemsOf(f) /\ Doc!ItemsOf(f) = ItemsOf(f)
  /\ \A f, x : DP!ItemAt(f, x) = ItemAt(f, x) /\ Doc!ItemAt(f, x) = ItemAt(f, x)
  /\ \A f : DP!Obstacles(f) = Obstacles(f) /\ Doc!Obstacles(f) = Obstacles(f)
  /\ \A S : DP!First(S) = First(S) /\ Doc!First(S) = First(S)
  /\ \A f, S : /\ DP!Finds(f, S) <=> Finds(f, S)
               /\ Doc!Finds(f, S) <=> Finds(f, S)
               /\ DP!Trips(f, S) <=> Trips(f, S)
               /\ Doc!Trips(f, S) <=> Trips(f, S)
               /\ DP!Ends(f, S) <=> Ends(f, S)
               /\ Doc!Ends(f, S) <=> Ends(f, S)
<1>1. \A f : DP!ItemsOf(f) = ItemsOf(f) /\ Doc!ItemsOf(f) = ItemsOf(f)
  BY DEF DP!ItemsOf, Doc!ItemsOf, ItemsOf
<1>2. \A f, x : DP!ItemAt(f, x) = ItemAt(f, x) /\ Doc!ItemAt(f, x) = ItemAt(f, x)
  BY DEF DP!ItemAt, Doc!ItemAt, ItemAt
<1>3. \A f : DP!Obstacles(f) = Obstacles(f) /\ Doc!Obstacles(f) = Obstacles(f)
  BY DEF DP!Obstacles, Doc!Obstacles, Obstacles, DP!Visible, Doc!Visible, Visible,
         DP!Tombstones, Doc!Tombstones, Tombstones
<1>4. \A x, y : (DP!Before(x, y) <=> Before(x, y)) /\ (Doc!Before(x, y) <=> Before(x, y))
  BY DEF DP!Before, Doc!Before, Before
<1>5. \A S : DP!First(S) = First(S) /\ Doc!First(S) = First(S)
  BY DEF DP!First, Doc!First, First, DP!Before, Doc!Before, Before
<1>6. \A f, S : (DP!Finds(f, S) <=> Finds(f, S)) /\ (Doc!Finds(f, S) <=> Finds(f, S))
  BY <1>3, <1>4, <1>5 DEF DP!Finds, Doc!Finds, Finds
<1>7. \A f, S : (DP!Trips(f, S) <=> Trips(f, S)) /\ (Doc!Trips(f, S) <=> Trips(f, S))
  BY <1>3, <1>6 DEF DP!Trips, Doc!Trips, Trips
<1>8. \A f, S : (DP!Ends(f, S) <=> Ends(f, S)) /\ (Doc!Ends(f, S) <=> Ends(f, S))
  BY <1>3 DEF DP!Ends, Doc!Ends, Ends
<1> QED
  BY <1>1, <1>2, <1>3, <1>5, <1>6, <1>7, <1>8

(* What the operations of the document are made of is the same, too. *)
LEMMA SameParts ==
  /\ DP!Nodes = DOMAIN Nodes /\ Doc!Nodes = DOMAIN Nodes
  /\ DP!NodeIds = Doc!NodeIds /\ DP!NullId = NoNode /\ Doc!NullId = NoNode /\ DP!RootId = Doc!RootId
  /\ DP!HasRoom <=> Doc!HasRoom
  /\ DP!calls = Doc!calls /\ DP!NoUpdate = Doc!NoUpdate /\ DP!Top = Doc!Top
  /\ \A parent, v : DP!Node(parent, v) = Doc!Node(parent, v)
  /\ \A x : DP!Children(x) = Doc!Children(x)
  /\ \A parent : DP!Sought(parent) = Doc!Sought(parent) /\ (DP!Accepts(parent) <=> Doc!Accepts(parent))
  /\ \A node : DP!Persist(node) <=> Doc!Persist(node)
  /\ \A x, todo, counted : DP!Frame(x, todo, counted) = Doc!Frame(x, todo, counted)
<1>1. DP!Nodes = DOMAIN Nodes /\ Doc!Nodes = DOMAIN Nodes
  BY SameScans DEF DP!Nodes, Doc!Nodes, Nodes
<1> QED
  BY <1>1, Zenon DEF DP!Persist, Doc!Persist, DP!Accepts, Doc!Accepts,
   DP!Sought, Doc!Sought, DP!HasRoom, Doc!HasRoom, DP!FreePage, Doc!FreePage,
   DP!Children, Doc!Children, DP!Nodes, Doc!Nodes,
   DP!NodeIds, Doc!NodeIds, DP!NullId, Doc!NullId, DP!RootId, Doc!RootId, DP!Node,
   Doc!Node, DP!NoUpdate, Doc!NoUpdate, DP!calls, Doc!calls,
   DP!Frame, Doc!Frame, DP!Top, Doc!Top, DP!Finds, Doc!Finds, DP!Ends, Doc!Ends,
   DP!First, Doc!First, DP!Before, Doc!Before,
   DP!ItemsOf, Doc!ItemsOf, DP!ItemAt, Doc!ItemAt, DP!Obstacles, Doc!Obstacles,
   DP!Visible, Doc!Visible, DP!Tombstones, Doc!Tombstones,
   DP!NewPage, Doc!NewPage, DP!NoItems, Doc!NoItems, DP!WithItem, Doc!WithItem,
   DP!WithoutItem, Doc!WithoutItem, NoNode

-----------------------------------------------------------------------------
(* A chain of filters, of which it only matters that it has a length. *)
IsChain(chain) == Len(chain) \in Nat /\ DOMAIN chain = 1..Len(chain)

(* What is called is about values that nodes may have, and chains. *)
RequestOK(request) ==
  /\ request.method \in {"create_node", "update_node"} /\ Convertible(request.value) =>
       request.value \in Values
  /\ request.method = "delete_nodes_by_filter" => IsChain(request.chain)

RequestsOK == \A c \in Clients : rpc[c].stage = "called" => RequestOK(rpc[c].what)

(* A node that has no id of a node, because a caller made it up, is        *)
(* nowhere in the file: nothing is found for it.                           *)
LEMMA StrangersAre ==
  ASSUME DP!DocumentInv, NEW x, x \notin DP!NodeIds \cup {DP!NullId}
  PROVE  Doc!Sought(x) = {} /\ Doc!Children(x) = {} /\ x \notin Doc!Nodes
<1>1. DP!Shape
  BY DEF DP!DocumentInv, DP!IndShape
<1>2. \A y \in DP!Nodes : y \in DP!NodeIds /\ DP!ItemAt(pages, y) \in DP!NodeRecs
  BY <1>1, ServerAssumption, CapacityAssumption, DP!NodesTyped
<1>3. x \notin Doc!Nodes
  BY <1>2, SameParts
<1>4. \A y \in Doc!Nodes : ItemAt(pages, y).parent # x
  BY <1>2, SameParts, SameScans DEF DP!NodeRecs
<1> QED
  BY <1>3, <1>4, SameParts, SameScans DEF Doc!Sought, Doc!Children

(* handle_create_node_request adds a node to the document, or nothing. *)
LEMMA CreateServes ==
  ASSUME DP!DocumentInv, RequestsOK, NEW c \in Clients, HandleCreateNode(c)
  PROVE  [DP!Next]_(DP!vars)
<1> DEFINE request == rpc[c].what
           parent == request.parent
           v == request.value
<1>1. rpc[c].stage = "called" /\ request.method = "create_node" /\ proc = "idle"
  BY DEF HandleCreateNode, Takes
<1>2. CASE ~Convertible(v) /\ ProcessEnds("exit")
  BY <1>1, <1>2 DEF ProcessEnds, DP!vars, Outcome, DP!calls
<1>3. CASE Convertible(v) /\ Doc!AddNode(parent, v)
  <2>1. v \in Values
    BY <1>1, <1>3 DEF RequestsOK, RequestOK
  <2>2. proc' \in {"idle", "read_deleted"}
    BY <1>3 DEF Doc!AddNode, Doc!Add
  <2>3. Outcome = proc /\ Outcome' = proc'
    BY <1>1, <2>2 DEF Outcome
  <2>4. CASE parent \in DP!NodeIds \cup {DP!NullId}
    <3> HIDE DEF parent, v
    <3>1. DP!AddNode(parent, v)
      BY <1>3, <2>3, SameParts, SameScans DEF Doc!AddNode, Doc!Add, DP!AddNode, DP!Add,
         DP!calls, Doc!calls
    <3> QED
      BY <2>1, <2>4, <3>1 DEF DP!Next
  <2>5. CASE parent \notin DP!NodeIds \cup {DP!NullId}
    <3> HIDE DEF parent, v
    <3>1. Doc!Sought(parent) = {} /\ parent # Doc!NullId
      BY <2>5, StrangersAre, SameParts
    <3>2. ~Doc!Accepts(parent)
      BY <3>1 DEF Doc!Accepts, Doc!Finds
    <3>3. CASE Doc!Trips(pages, Doc!Sought(parent)) /\ proc' = "read_deleted"
      <4>1. DP!ReadNodes
        BY <1>1, <1>3, <2>3, <3>2, <3>3, SameScans, SameParts
           DEF Doc!AddNode, Doc!Add, Doc!Trips, DP!ReadNodes, DP!calls, Doc!calls
      <4> QED
        BY <4>1 DEF DP!Next
    <3>4. CASE proc' = "idle"
      BY <1>1, <1>3, <2>3, <3>2, <3>4, SameParts DEF Doc!AddNode, Doc!Add, DP!vars,
         DP!calls, Doc!calls
    <3> QED
      BY <1>3, <3>2, <3>3, <3>4 DEF Doc!AddNode, Doc!Add
  <2> QED
    BY <2>4, <2>5
<1> QED
  BY <1>2, <1>3 DEF HandleCreateNode

(* How the document ends when the process exits. *)
IdleIfExit(how) == IF how = "exit" THEN "idle" ELSE how

(* document_delete_node of the server is the one of the document. *)
LEMMA DeleteOutcome ==
  ASSUME NEW x, NEW deleted, NEW missing, Doc!Delete(x, deleted, missing)
  PROVE  DP!Delete(x, IdleIfExit(deleted), IdleIfExit(missing))
<1>1. Outcome' = IdleIfExit(proc')
  BY DEF Outcome, IdleIfExit
<1>2. IdleIfExit("has_children") = "has_children" /\ IdleIfExit("read_deleted") = "read_deleted"
  BY DEF IdleIfExit
<1> QED
  BY <1>1, <1>2, SameParts, SameScans, SamePages DEF Doc!Delete, DP!Delete

(* A node nobody has is not deleted. *)
LEMMA StrangerStays ==
  ASSUME DP!DocumentInv, NEW x, x \notin DP!NodeIds \cup {DP!NullId},
         NEW deleted, NEW missing, Doc!Delete(x, deleted, missing)
  PROVE  /\ pages' = pages
         /\ proc' = missing \/ (proc' = "read_deleted" /\ Obstacles(pages) # {})
  BY StrangersAre, SameScans DEF Doc!Delete, Doc!Finds, Trips

(* handle_update_node_request deletes the node of an update, or nothing. *)
LEMMA UpdateServes ==
  ASSUME DP!DocumentInv, RequestsOK, NEW c \in Clients, HandleUpdateNode(c)
  PROVE  [DP!Next]_(DP!vars)
<1> DEFINE request == rpc[c].what
           x == request.id
           v == request.value
<1>1. /\ rpc[c].stage = "called" /\ request.method = "update_node" /\ proc = "idle"
      /\ DP!HasRoom /\ Outcome = "idle"
  BY SameParts DEF HandleUpdateNode, Takes, Outcome
<1>2. CASE ~Convertible(v) /\ ProcessEnds("exit")
  BY <1>1, <1>2 DEF ProcessEnds, DP!vars, Outcome, DP!calls
<1>3. CASE /\ Convertible(v)
           /\ Doc!Delete(x, "update", "exit")
           /\ IF proc' = "update"
                THEN update' = [old |-> x, parent |-> Doc!RootId, value |-> v]
                ELSE UNCHANGED update
           /\ UNCHANGED <<targets, stack>>
  <2>1. v \in Values
    BY <1>1, <1>3 DEF RequestsOK, RequestOK
  <2>2. Outcome' = IdleIfExit(proc')
    BY DEF Outcome, IdleIfExit
  <2>3. DP!RootId \in DP!NodeIds \cup {DP!NullId}
    BY ServerAssumption, CapacityAssumption DEF DP!RootId, DP!NodeIds
  <2>4. CASE x \in DP!NodeIds \cup {DP!NullId}
    <3> HIDE DEF x, v
    <3>1. DP!Delete(x, "update", "idle")
      BY <1>3, DeleteOutcome DEF IdleIfExit
    <3>2. Outcome' = "update" <=> proc' = "update"
      BY <2>2 DEF IdleIfExit
    <3>3. DP!UpdateNode(x, DP!RootId, v)
      BY <1>1, <1>3, <3>1, <3>2, SameParts DEF DP!UpdateNode
    <3> QED
      BY <2>1, <2>3, <2>4, <3>3 DEF DP!Next
  <2>5. CASE x \notin DP!NodeIds \cup {DP!NullId}
    <3> HIDE DEF x, v
    <3>1. pages' = pages /\ (proc' = "exit" \/ (proc' = "read_deleted" /\ Obstacles(pages) # {}))
      BY <1>3, <2>5, StrangerStays
    <3>2. UNCHANGED DP!calls
      BY <1>3, <3>1 DEF DP!calls
    <3>3. CASE proc' = "exit"
      BY <1>1, <2>2, <3>1, <3>2, <3>3 DEF DP!vars, IdleIfExit
    <3>4. CASE proc' = "read_deleted" /\ Obstacles(pages) # {}
      BY <1>1, <2>2, <3>1, <3>2, <3>4, SameScans DEF DP!ReadNodes, IdleIfExit, DP!Next
    <3> QED
      BY <3>1, <3>3, <3>4
  <2> QED
    BY <2>4, <2>5
<1> QED
  BY <1>2, <1>3 DEF HandleUpdateNode

(* handle_delete_node_request deletes a node without children, or nothing, *)
(* and ends the process.                                                   *)
LEMMA DeleteServes ==
  ASSUME DP!DocumentInv, NEW c \in Clients, HandleDeleteNode(c)
  PROVE  [DP!Next]_(DP!vars)
<1> DEFINE x == rpc[c].what.id
<1>1. /\ proc = "idle" /\ Outcome = "idle" /\ Doc!Delete(x, "exit", "exit")
      /\ UNCHANGED <<update, targets, stack>>
  BY DEF HandleDeleteNode, Takes, Outcome
<1>2. Outcome' = IdleIfExit(proc') /\ UNCHANGED DP!calls
  BY <1>1 DEF Outcome, IdleIfExit, DP!calls
<1> HIDE DEF x
<1>3. CASE x \in DP!NodeIds \cup {DP!NullId}
  <2>1. DP!Delete(x, "idle", "idle")
    BY <1>1, DeleteOutcome DEF IdleIfExit
  <2>2. DP!DeleteNode(x)
    BY <1>1, <1>2, <2>1 DEF DP!DeleteNode
  <2> QED
    BY <1>3, <2>2 DEF DP!Next
<1>4. CASE x \notin DP!NodeIds \cup {DP!NullId}
  <2>1. pages' = pages /\ (proc' = "exit" \/ (proc' = "read_deleted" /\ Obstacles(pages) # {}))
    BY <1>1, <1>4, StrangerStays
  <2>2. CASE proc' = "exit"
    BY <1>1, <1>2, <2>1, <2>2 DEF DP!vars, IdleIfExit
  <2>3. CASE proc' = "read_deleted" /\ Obstacles(pages) # {}
    BY <1>1, <1>2, <2>1, <2>3, SameScans DEF DP!ReadNodes, IdleIfExit, DP!Next
  <2> QED
    BY <2>1, <2>2, <2>3
<1> QED
  BY <1>3, <1>4

(* How a query ends: by a deleted item only when there is one, in order    *)
(* only when it scans no file with one, and by an exit for a filter that   *)
(* is rejected or a node a condition cannot be put to.                     *)
LEMMA AskedIs ==
  ASSUME NEW chain
  PROVE  /\ Asked(chain) \in {"exit", "read_deleted", "idle"}
         /\ Asked(chain) = "read_deleted" => Obstacles(pages) # {}
         /\ Asked(chain) = "idle" => chain = <<>> \/ Obstacles(pages) = {}
         /\ Asked(chain) = "exit" => Rejects(chain) \/ Crashes(Nodes, Conditions(chain))
  BY DEF Asked

(* A query is a read of the document. *)
LEMMA QueryServes ==
  ASSUME NEW chain, proc = "idle", proc' = Asked(chain),
         UNCHANGED <<pages, update, targets, stack>>
  PROVE  [DP!Next]_(DP!vars)
<1>1. Outcome = "idle" /\ Outcome' = IdleIfExit(proc') /\ UNCHANGED DP!calls /\ UNCHANGED pages
  BY DEF Outcome, IdleIfExit, DP!calls
<1>2. CASE proc' = "read_deleted"
  <2>1. DP!ReadNodes
    BY <1>1, <1>2, AskedIs, SameScans DEF DP!ReadNodes, IdleIfExit
  <2> QED
    BY <2>1 DEF DP!Next
<1>3. CASE proc' \in {"exit", "idle"}
  BY <1>1, <1>3 DEF DP!vars, IdleIfExit
<1> QED
  BY <1>2, <1>3, AskedIs

(* The nodes of the file as PathQuery sees them: finitely many, each with  *)
(* its value and its parent in the file.                                   *)
LEMMA NodesAre ==
  ASSUME DP!DocumentInv
  PROVE  /\ DOMAIN Nodes \subseteq DP!NodeIds /\ DP!NodeIds \subseteq Nat \X Nat
         /\ IsFiniteSet(DOMAIN Nodes)
         /\ \A x \in DOMAIN Nodes :
              /\ Nodes[x] = ItemAt(pages, x)
              /\ Nodes[x].parent \in DOMAIN Nodes \cup {NoNode} /\ Nodes[x].value \in Values
<1>1. DP!Shape /\ DP!HasParents
  BY DEF DP!DocumentInv, DP!IndShape, DP!IndForest
<1>2. \A x \in DP!Nodes : x \in DP!NodeIds /\ DP!ItemAt(pages, x) \in DP!NodeRecs
  BY <1>1, ServerAssumption, CapacityAssumption, DP!NodesTyped
<1>3. DP!NodeIds \subseteq Nat \X Nat /\ IsFiniteSet(DP!NodeIds)
  <2> DEFINE S == 0..MaxPages - 1
             T == 0..Capacity - 1
  <2>1. IsFiniteSet(S) /\ S \subseteq Nat /\ IsFiniteSet(T) /\ T \subseteq Nat
    BY ServerAssumption, CapacityAssumption, FS_Interval
  <2>2. DP!NodeIds = S \X T
    BY DEF DP!NodeIds
  <2> HIDE DEF S, T
  <2>3. IsFiniteSet(S \X T)
    BY <2>1, FS_Product
  <2> QED
    BY <2>1, <2>2, <2>3
<1>4. DOMAIN Nodes \subseteq DP!NodeIds
  BY <1>2, SameParts
<1>5. IsFiniteSet(DOMAIN Nodes)
  BY <1>3, <1>4, FS_Subset
<1>6. \A x \in DOMAIN Nodes : Nodes[x] = ItemAt(pages, x)
  BY DEF Nodes
<1>7. \A x \in DOMAIN Nodes :
        ItemAt(pages, x).parent \in DOMAIN Nodes \cup {NoNode} /\ ItemAt(pages, x).value \in Values
  BY <1>1, <1>2, SameParts, SameScans DEF DP!HasParents, DP!NodeRecs
<1> QED
  BY <1>3, <1>4, <1>5, <1>6, <1>7

(* All nodes that a chain finds have one parent: this is what the deletion *)
(* of trees needs, and no check of the server looks for it.                *)
LEMMA FoundAre ==
  ASSUME DP!DocumentInv, NEW chain, IsChain(chain), Found(chain) # {}
  PROVE  \E parent \in DP!Nodes \cup {DP!NullId} : Found(chain) \subseteq DP!Children(parent)
<1> DEFINE path == Conditions(chain)
           n == Len(path)
           way == Way(Nodes, path)[n - 1]
<1>1. DOMAIN path = DOMAIN chain /\ Len(path) = Len(chain) /\ Len(path) \in Nat
  <2>1. path = [i \in 1..Len(chain) |-> path[i]] /\ Len(chain) \in Nat
    BY DEF Conditions, IsChain
  <2> HIDE DEF path
  <2> QED
    BY <2>1, LengthIs DEF IsChain
<1>2. Found(chain) = Answer(Nodes, path) /\ path # <<>> /\ Answer(Nodes, path) = Below(Nodes, path[n], way)
  BY DEF Found, Answer
<1>3. n \in Nat \ {0}
  <2> HIDE DEF path
  <2> QED
    BY <1>1, <1>2
<1>4. Found(chain) = {x \in DOMAIN Nodes : Nodes[x].parent \in way /\ Evaluate(path[n], Nodes[x]) = "yes"}
  <2> HIDE DEF path, n, way
  <2> QED
    BY <1>2, BelowIs
<1>5. way = {} \/ \E p \in DOMAIN Nodes \cup {NoNode} : way = {p}
  <2> HIDE DEF path
  <2>1. CASE n = 1
    BY <1>1, <2>1, WayIs
  <2>2. CASE n # 1
    <3> DEFINE k == n - 1
               found == Below(Nodes, path[k], Way(Nodes, path)[k - 1])
    <3>1. k \in 1..Len(path)
      <4>1. n = Len(path)
        OBVIOUS
      <4> HIDE DEF n
      <4> QED
        BY <1>3, <2>2, <4>1
    <3> HIDE DEF k
    <3>2. Way(Nodes, path)[k] = Leads(found)
      BY <1>1, <3>1, WayIs
    <3>3. found \subseteq DOMAIN Nodes
      BY BelowIs
    <3> HIDE DEF found
    <3>4. found # {} => First(found) \in found
      BY <3>3, NodesAre, FirstIs
    <3> QED
      BY <3>2, <3>3, <3>4 DEF Leads, k
  <2> QED
    BY <2>1, <2>2
<1>6. PICK p \in DOMAIN Nodes \cup {NoNode} : way = {p}
  BY <1>4, <1>5
<1>7. \A x \in Found(chain) : x \in DOMAIN Nodes /\ Nodes[x] = ItemAt(pages, x) /\ Nodes[x].parent = p
  <2> HIDE DEF way, path
  <2> QED
    BY <1>4, <1>6, NodesAre
<1>8. Found(chain) \subseteq DP!Children(p)
  <2> HIDE DEF way, path
  <2> QED
    BY <1>7, SameParts, SameScans DEF DP!Children
<1> QED
  BY <1>8, SameParts

(* handle_delete_nodes_by_filter_request starts to delete trees that are   *)
(* siblings, or reads only.                                                *)
LEMMA TreesServe ==
  ASSUME DP!DocumentInv, RequestsOK, NEW c \in Clients, HandleDeleteNodesByFilter(c)
  PROVE  [DP!Next]_(DP!vars)
<1> DEFINE chain == rpc[c].what.chain
<1>1. /\ proc = "idle" /\ rpc[c].stage = "called"
      /\ rpc[c].what.method = "delete_nodes_by_filter"
  BY DEF HandleDeleteNodesByFilter, Takes
<1>2. IsChain(chain)
  BY <1>1 DEF RequestsOK, RequestOK
<1>3. CASE proc' = Asked(chain) /\ UNCHANGED <<pages, update, targets, stack>>
  <2> HIDE DEF chain
  <2> QED
    BY <1>1, <1>3, QueryServes
<1>4. CASE Found(chain) # {} /\ Doc!DeleteTrees(Found(chain))
  <2> DEFINE S == Found(chain)
  <2> HIDE DEF chain
  <2>1. PICK parent \in DP!Nodes \cup {DP!NullId} : S \subseteq DP!Children(parent)
    BY <1>2, <1>4, FoundAre
  <2>2. S # {} /\ Doc!DeleteTrees(S)
    BY <1>4
  <2> HIDE DEF S
  <2>3. DP!DeleteTrees(S)
    BY <2>2, SameParts, SameScans DEF Doc!DeleteTrees, DP!DeleteTrees, Outcome
  <2> QED
    BY <2>1, <2>2, <2>3 DEF DP!Next
<1> QED
  BY <1>3, <1>4 DEF HandleDeleteNodesByFilter

(* The second half of an update is the one of the document. *)
LEMMA UpdateAddServes ==
  ASSUME HandleUpdateAdd
  PROVE  [DP!Next]_(DP!vars)
<1> DEFINE parent == update.parent
<1>1. proc = "update" /\ Outcome = "update" /\ Outcome' = IdleIfExit(proc')
  BY DEF HandleUpdateAdd, Outcome, IdleIfExit
<1>2. DP!UpdateAdd
  <2>1. CASE Doc!UpdateAdd
    <3>1. proc' \in {"idle", "read_deleted"}
      BY <2>1 DEF Doc!UpdateAdd, Doc!Add
    <3>2. Outcome' = proc'
      BY <1>1, <3>1 DEF IdleIfExit
    <3> QED
      BY <1>1, <2>1, <3>2, SameParts, SameScans DEF Doc!UpdateAdd, DP!UpdateAdd, Doc!Add,
         DP!Add
  <2>2. CASE /\ pages' = pages
             /\ proc' = IF Trips(pages, Doc!Sought(update.parent)) THEN "read_deleted" ELSE "exit"
             /\ ~Doc!Accepts(update.parent)
             /\ update' = Doc!NoUpdate
             /\ UNCHANGED <<targets, stack, rpc>>
    <3>1. DP!Add(update.parent, update.value)
      BY <1>1, <2>2, SameParts, SameScans DEF DP!Add, IdleIfExit
    <3> QED
      BY <1>1, <2>2, <3>1, SameParts DEF DP!UpdateAdd
  <2> QED
    BY <2>1, <2>2 DEF HandleUpdateAdd
<1> QED
  BY <1>2 DEF DP!Next, DP!InCall

(* The deletion of the descendants is the one of the document. *)
LEMMA DescendantsServe ==
  ASSUME DeleteDescendants
  PROVE  [DP!Next]_(DP!vars)
<1>1. proc = "delete_tree" /\ Outcome = "delete_tree" /\ Outcome' = IdleIfExit(proc')
  BY DEF DeleteDescendants, Doc!CountChildren, Doc!Descend, Doc!DeleteTop, Outcome,
     IdleIfExit
<1>2. CASE Doc!CountChildren
  <2>1. Outcome' = proc'
    BY <1>1, <1>2 DEF Doc!CountChildren, IdleIfExit
  <2>2. DP!CountChildren
    BY <1>1, <1>2, <2>1, SameParts, SameScans DEF Doc!CountChildren, DP!CountChildren
  <2> QED
    BY <2>2 DEF DP!Next, DP!InCall
<1>3. CASE Doc!Descend
  <2>1. Outcome' = proc'
    BY <1>1, <1>3 DEF Doc!Descend, IdleIfExit
  <2>2. DP!Descend
    BY <1>1, <1>3, <2>1, SameParts, SameScans DEF Doc!Descend, DP!Descend
  <2> QED
    BY <2>2 DEF DP!Next, DP!InCall
<1>4. CASE Doc!DeleteTop
  <2>1. DP!Delete(DP!Top.id, "delete_tree", "not_found")
    BY <1>4, DeleteOutcome, SameParts DEF Doc!DeleteTop, IdleIfExit
  <2>2. Outcome' = "delete_tree" <=> proc' = "delete_tree"
    BY <1>1 DEF IdleIfExit
  <2>3. DP!DeleteTop
    BY <1>1, <1>4, <2>1, <2>2, SameParts DEF Doc!DeleteTop, DP!DeleteTop
  <2> QED
    BY <2>3 DEF DP!Next, DP!InCall
<1> QED
  BY <1>2, <1>3, <1>4 DEF DeleteDescendants

(* The answer to a deletion is its return in the document. *)
LEMMA AnswersServe ==
  ASSUME DeleteNodesAnswers
  PROVE  [DP!Next]_(DP!vars)
<1>1. DP!DeleteTreesReturns
  BY SameParts DEF DeleteNodesAnswers, Doc!DeleteTreesReturns, DP!DeleteTreesReturns,
     Outcome
<1> QED
  BY <1>1 DEF DP!Next, DP!InCall

(* A kill stops the document between two writes. *)
LEMMA KillServes ==
  ASSUME Kill
  PROVE  [DP!Next]_(DP!vars)
<1>1. DP!Stop
  BY SameParts DEF Kill, Doc!Stop, DP!Stop, Outcome, Ended
<1> QED
  BY <1>1 DEF DP!Next

(* A server that is started has a new document. *)
LEMMA RestartServes ==
  ASSUME Restart
  PROVE  DP!Init'
  BY SameParts, SamePages DEF Restart, DP!Init, Outcome, DP!NoUpdate, Doc!NoUpdate,
     DP!NullId, Doc!NullId

(* What the document is not part of leaves it alone. *)
LEMMA WaitServes ==
  ASSUME UNCHANGED document
  PROVE  UNCHANGED DP!vars
  BY DEF document, DP!vars, DP!calls, Outcome

-----------------------------------------------------------------------------
(* What a console calls: strings to create, and chains whose filters have  *)
(* all their parts.                                                        *)
ConsoleRequest(request) ==
  \/ /\ request.method = "create_node"
     /\ request.value \in Values /\ request.value.type = "STRING"
  \/ /\ request.method \in {"get_nodes_by_filter", "delete_nodes_by_filter"}
     /\ IsChain(request.chain) /\ ~Rejects(request.chain)

(* The call a console waits for. *)
CallOf(doing) ==
  CASE doing \in {"get", "find"} -> "get_nodes_by_filter"
    [] doing \in {"delete", "clear"} -> "delete_nodes_by_filter"
    [] doing \in {"create", "fill"} -> "create_node"
    [] OTHER -> "none"

(* What a console does: nothing, or a command with what it needs for its   *)
(* next call.                                                              *)
Work(j) ==
  \/ j \in {Prompt, Dead}
  \/ j.doing \in {"get", "delete"}
  \/ /\ j = [doing |-> j.doing, path |-> j.path, value |-> j.value]
     /\ j.doing \in {"find", "create"}
     /\ j.value # <<>> => StringValue(j.value) \in Values
  \/ /\ j = [doing |-> j.doing, lines |-> j.lines, ids |-> j.ids, onto |-> j.onto]
     /\ j.doing \in {"clear", "fill"}
     /\ j.lines \in {InitLines, ExampleLines}
     /\ IsChain(j.ids) /\ Len(j.ids) <= Len(j.lines)
     /\ j.doing = "clear" => j.ids = <<>>
     /\ j.doing = "fill" => Len(j.ids) < Len(j.lines)

(* A console that does something has made a call, the one of its command,  *)
(* and one that does nothing has made none.                                *)
JobFits(j, r) ==
  /\ Work(j)
  /\ j \in {Prompt, Dead} => r = NoCall
  /\ j \notin {Prompt, Dead} => r.stage \in {"called", "answered"}
  /\ r.stage = "called" => ConsoleRequest(r.what) /\ r.what.method = CallOf(j.doing)

JobsFit ==
  /\ job = [c \in Consoles |-> job[c]]
  /\ \A c \in Consoles : JobFits(job[c], rpc[c])

(* The server is in the call of a client that waits for it, over a         *)
(* connection to this process.                                             *)
ServingOK ==
  proc \in {"update", "delete_tree"} =>
    /\ serving \in Clients \cap connected /\ rpc[serving].stage = "called"
    /\ rpc[serving].what.method =
         IF proc = "update" THEN "update_node" ELSE "delete_nodes_by_filter"

(* The invariant of what is called, and by whom. *)
Desk ==
  /\ rpc = [c \in Clients |-> rpc[c]]
  /\ RequestsOK
  /\ JobsFit
  /\ ServingOK

(* What a console calls can be called. *)
LEMMA RequestFits ==
  ASSUME NEW request, ConsoleRequest(request)
  PROVE  RequestOK(request)
  BY DEF ConsoleRequest, RequestOK

(* A step of a client leaves the server alone, and connects only itself. *)
Apart(c) ==
  /\ UNCHANGED document /\ UNCHANGED serving
  /\ UNCHANGED connected \/ connected' = connected \cup {c}

(* A console that was answered, or had not called, does its next step. *)
LEMMA ConsoleKeeps ==
  ASSUME Desk, NEW c \in Consoles, rpc[c].stage # "called", Apart(c),
         NEW j, NEW r, JobFits(j, r),
         job' = [job EXCEPT ![c] = j], rpc' = [rpc EXCEPT ![c] = r]
  PROVE  Desk'
<1>1. c \in Clients
  BY ClientsAssumption
<1>2. rpc' = [d \in Clients |-> rpc'[d]] /\ rpc'[c] = r /\ \A d \in Clients : d # c => rpc'[d] = rpc[d]
  BY <1>1 DEF Desk
<1>3. job' = [d \in Consoles |-> job'[d]] /\ job'[c] = j /\ \A d \in Consoles : d # c => job'[d] = job[d]
  BY DEF Desk, JobsFit
<1>4. RequestsOK'
  <2>1. r.stage = "called" => RequestOK(r.what)
    BY RequestFits DEF JobFits
  <2> QED
    BY <1>2, <2>1 DEF Desk, RequestsOK
<1>5. JobsFit'
  <2>1. \A d \in Consoles : JobFits(job'[d], rpc'[d])
    BY <1>2, <1>3, ClientsAssumption DEF Desk, JobsFit
  <2> QED
    BY <1>3, <2>1 DEF JobsFit
<1>6. ServingOK'
  BY <1>2 DEF Desk, ServingOK, Apart, document
<1> QED
  BY <1>2, <1>4, <1>5, <1>6 DEF Desk

(* A command is typed: its first call fits. *)
LEMMA TypeCommandKeeps ==
  ASSUME Desk, NEW c \in Consoles, NEW command \in Commands, TypeCommand(c, command)
  PROVE  Desk'
<1> DEFINE asked == RequestOf(command.func, Parsed(command.path))
<1>1. asked.chain \in Seq(Range(asked.chain)) /\ ~Rejects(asked.chain)
  <2>1. command.func \in FunctionTypes /\ IsTypedPath(command.path)
    BY CommandsAssumption
  <2> QED
    BY <2>1, RequestIsChain DEF Rejects
<1>2. asked.call = "create" /\ asked.value # <<>> => StringValue(asked.value) \in Values
  BY CommandsAssumption
<1>3. /\ Does(c, "prompt") /\ Apart(c)
      /\ \/ /\ job' = [job EXCEPT ![c] = Dead] /\ UNCHANGED rpc
         \/ /\ job' = [job EXCEPT ![c] = [doing |-> "get"]] /\ Call(c, GetNodes(asked.chain))
         \/ /\ job' = [job EXCEPT ![c] = [doing |-> "delete"]] /\ Call(c, DeleteNodes(asked.chain))
         \/ /\ asked.call = "create"
            /\ job' = [job EXCEPT ![c] = [doing |-> "find", path |-> command.path,
                                          value |-> asked.value]]
            /\ Call(c, GetNodes(asked.chain))
  BY DEF TypeCommand, Typed, ServerWaits, Apart
<1> HIDE DEF asked
<1>4. IsChain(asked.chain)
  BY <1>1 DEF IsChain
<1>5. /\ Apart(c)
      /\ rpc[c] = NoCall /\ rpc[c].stage # "called" /\ rpc = [rpc EXCEPT ![c] = NoCall]
  <2>1. JobFits(job[c], rpc[c]) /\ job[c].doing = "prompt"
    BY <1>3 DEF Desk, JobsFit, Does
  <2>2. job[c] = Prompt
    BY <2>1 DEF JobFits, Work, Dead
  <2> QED
    BY <1>3, <2>1, <2>2 DEF JobFits, Desk, NoCall, Rpc
<1>6. CASE job' = [job EXCEPT ![c] = Dead] /\ UNCHANGED rpc
  <2>1. JobFits(Dead, NoCall)
    BY DEF JobFits, Work, Dead, NoCall, Rpc
  <2> QED
    BY <1>5, <1>6, <2>1, ConsoleKeeps
<1>7. CASE job' = [job EXCEPT ![c] = [doing |-> "get"]] /\ Call(c, GetNodes(asked.chain))
  <2>1. JobFits([doing |-> "get"], Called(GetNodes(asked.chain)))
    BY <1>1, <1>4 DEF JobFits, Work, Dead, Prompt, Called, Rpc, GetNodes, ConsoleRequest,
       CallOf
  <2> QED
    BY <1>5, <1>7, <2>1, ConsoleKeeps DEF Call
<1>8. CASE job' = [job EXCEPT ![c] = [doing |-> "delete"]] /\ Call(c, DeleteNodes(asked.chain))
  <2>1. JobFits([doing |-> "delete"], Called(DeleteNodes(asked.chain)))
    BY <1>1, <1>4 DEF JobFits, Work, Dead, Prompt, Called, Rpc, DeleteNodes,
       ConsoleRequest, CallOf
  <2> QED
    BY <1>5, <1>8, <2>1, ConsoleKeeps DEF Call
<1>9. CASE /\ asked.call = "create"
           /\ job' = [job EXCEPT ![c] = [doing |-> "find", path |-> command.path,
                                          value |-> asked.value]]
           /\ Call(c, GetNodes(asked.chain))
  <2> DEFINE j == [doing |-> "find", path |-> command.path, value |-> asked.value]
  <2>1. JobFits(j, Called(GetNodes(asked.chain)))
    BY <1>1, <1>2, <1>4, <1>9 DEF JobFits, Work, Dead, Prompt, Called, Rpc, GetNodes,
       ConsoleRequest, CallOf
  <2> HIDE DEF j
  <2>2. job' = [job EXCEPT ![c] = j]
    BY <1>9 DEF j
  <2> QED
    BY <1>5, <1>9, <2>1, <2>2, ConsoleKeeps DEF Call
<1> QED
  BY <1>3, <1>6, <1>7, <1>8, <1>9

(* A console at its prompt waits for nothing. *)
LEMMA PromptIs ==
  ASSUME Desk, NEW c \in Consoles, Does(c, "prompt")
  PROVE  rpc[c] = NoCall /\ rpc[c].stage # "called" /\ rpc = [rpc EXCEPT ![c] = NoCall]
<1>1. JobFits(job[c], rpc[c]) /\ job[c].doing = "prompt"
  BY DEF Desk, JobsFit, Does
<1>2. job[c] = Prompt
  BY <1>1 DEF JobFits, Work, Dead
<1> QED
  BY <1>1, <1>2 DEF JobFits, Desk, NoCall, Rpc

(* A command is over. *)
LEMMA ReturnKeeps ==
  ASSUME Desk, NEW c \in Consoles, rpc[c].stage = "answered", Apart(c),
         NEW j \in {Prompt, Dead}, Return(c, j)
  PROVE  Desk'
<1>1. JobFits(j, NoCall)
  BY DEF JobFits, Work, NoCall, Rpc
<1>2. rpc[c].stage # "called"
  OBVIOUS
<1> QED
  BY <1>1, <1>2, ConsoleKeeps DEF Return

(* A console leaves. *)
LEMMA LeaveKeeps ==
  ASSUME Desk, NEW c \in Consoles, Leave(c)
  PROVE  Desk'
<1>1. JobFits(Dead, NoCall)
  BY DEF JobFits, Work, Dead, NoCall, Rpc
<1>2. /\ Does(c, "prompt") /\ Apart(c) /\ UNCHANGED rpc /\ job' = [job EXCEPT ![c] = Dead]
  BY DEF Leave, Typed, ServerWaits, Apart
<1> QED
  BY <1>1, <1>2, PromptIs, ConsoleKeeps

(* A console is started. *)
LEMMA StartKeeps ==
  ASSUME Desk, NEW c \in Consoles, Start(c)
  PROVE  Desk' /\ UNCHANGED document /\ rpc[c] = NoCall /\ rpc = [rpc EXCEPT ![c] = NoCall]
<1>1. JobFits(Prompt, NoCall)
  BY DEF JobFits, Work, NoCall, Rpc
<1>2. /\ Does(c, "dead") /\ Apart(c) /\ UNCHANGED rpc /\ job' = [job EXCEPT ![c] = Prompt]
  BY DEF Start, ServerWaits, Apart
<1>3. JobFits(job[c], rpc[c]) /\ job[c].doing = "dead"
  BY <1>2 DEF Desk, JobsFit, Does
<1>4. job[c] = Dead
  BY <1>3 DEF JobFits, Work, Prompt
<1>5. rpc[c] = NoCall /\ rpc[c].stage # "called" /\ rpc = [rpc EXCEPT ![c] = NoCall]
  BY <1>3, <1>4 DEF JobFits, Desk, NoCall, Rpc
<1> QED
  BY <1>1, <1>2, <1>5, ConsoleKeeps DEF Apart

(* The lines of init are values, and name lines before them. *)
LEMMA LinesAre ==
  ASSUME NEW lines \in {InitLines, ExampleLines}
  PROVE  /\ Len(lines) \in Nat /\ DOMAIN lines = 1..Len(lines)
         /\ \A k \in 1..Len(lines) :
              /\ lines[k].entry \in 0..k - 1
              /\ lines[k].value \in Values /\ lines[k].value.type = "STRING"
<1>1. lines \in Seq(Range(lines))
  BY LinesAssumption
<1>2. Len(lines) \in Nat /\ DOMAIN lines = 1..Len(lines)
  BY <1>1
<1> QED
  BY <1>2, LinesAssumption

(* The command init asks for the deletion of everything. *)
LEMMA TypeInitKeeps ==
  ASSUME Desk, NEW c \in Consoles, NEW lines \in {InitLines, ExampleLines}, TypeInit(c, lines)
  PROVE  Desk'
<1> DEFINE j == [doing |-> "clear", lines |-> lines, ids |-> <<>>, onto |-> pages]
<1>1. /\ Does(c, "prompt") /\ Apart(c)
      /\ job' = [job EXCEPT ![c] = j] /\ rpc' = [rpc EXCEPT ![c] = Called(DeleteNodes(<<>>))]
  BY DEF TypeInit, Typed, Call, ServerWaits, Apart
<1>2. IsChain(<<>>) /\ ~Rejects(<<>>) /\ Len(<<>>) = 0
  BY DEF IsChain, Rejects
<1>3. JobFits(j, Called(DeleteNodes(<<>>)))
  BY <1>2, LinesAre DEF JobFits, Work, Dead, Prompt, Called, Rpc, DeleteNodes,
     ConsoleRequest, CallOf
<1> HIDE DEF j
<1> QED
  BY <1>1, <1>3, PromptIs, ConsoleKeeps

(* Callers call what they want, and nothing of a console changes. *)
LEMMA RawCallKeeps ==
  ASSUME Desk, NEW c \in Callers, NEW raw \in RawRequests, RawCall(c, raw)
  PROVE  Desk'
<1>1. /\ rpc[c].stage # "called" /\ rpc' = [rpc EXCEPT ![c] = Called(raw)] /\ Apart(c)
      /\ UNCHANGED job
  BY DEF RawCall, Call, ServerWaits, Apart
<1>2. c \in Clients /\ c \notin Consoles /\ Consoles \subseteq Clients
  BY ClientsAssumption
<1>3. rpc' = [d \in Clients |-> rpc'[d]] /\ rpc'[c] = Called(raw)
      /\ \A d \in Clients : d # c => rpc'[d] = rpc[d]
  BY <1>1, <1>2 DEF Desk
<1>4. RequestOK(raw)
  <2>1. raw.method = "delete_nodes_by_filter" => raw.chain \in Seq(Range(raw.chain))
    BY RequestsAssumption
  <2>2. raw.method = "delete_nodes_by_filter" => IsChain(raw.chain)
    BY <2>1 DEF IsChain
  <2> QED
    BY <2>2, RequestsAssumption DEF RequestOK
<1>5. RequestsOK'
  BY <1>3, <1>4 DEF Desk, RequestsOK, Called, Rpc
<1>6. JobsFit'
  BY <1>1, <1>2, <1>3 DEF Desk, JobsFit
<1>7. ServingOK'
  BY <1>1, <1>3 DEF Desk, ServingOK, Apart, document
<1> QED
  BY <1>3, <1>5, <1>6, <1>7 DEF Desk

(* A console that receives has what its command left for that. *)
LEMMA AnsweredIs ==
  ASSUME Desk, NEW c \in Consoles, NEW what, Receives(c, what)
  PROVE  /\ JobFits(job[c], rpc[c]) /\ job[c].doing = what /\ rpc[c].stage = "answered" /\ Apart(c)
         /\ Work(job[c])
         /\ what \in {"find", "create"} =>
              /\ job[c] = [doing |-> what, path |-> job[c].path, value |-> job[c].value]
              /\ job[c].value # <<>> => StringValue(job[c].value) \in Values
         /\ what \in {"clear", "fill"} =>
              /\ job[c] = [doing |-> what, lines |-> job[c].lines, ids |-> job[c].ids,
                           onto |-> job[c].onto]
              /\ job[c].lines \in {InitLines, ExampleLines}
              /\ IsChain(job[c].ids) /\ Len(job[c].ids) <= Len(job[c].lines)
              /\ what = "fill" => Len(job[c].ids) < Len(job[c].lines)
  BY DEF Desk, JobsFit, Receives, ServerWaits, Apart, Does, JobFits, Work, Prompt, Dead

(* The second call of the command create fits its answer. *)
LEMMA FindResponseKeeps ==
  ASSUME Desk, NEW c \in Consoles, FindResponse(c)
  PROVE  Desk'
<1> DEFINE response == rpc[c].what
           v == job[c].value
           q == CreateNode(First(response.ids), StringValue(v))
           j == [doing |-> "create", path |-> job[c].path, value |-> v]
<1>1. Receives(c, "find")
  BY DEF FindResponse
<1>2. /\ job[c] = [doing |-> "find", path |-> job[c].path, value |-> v]
      /\ v # <<>> => StringValue(v) \in Values
      /\ rpc[c].stage = "answered" /\ Apart(c)
  BY <1>1, AnsweredIs
<1>3. CASE Return(c, Dead) \/ Return(c, Prompt)
  BY <1>2, <1>3, ReturnKeeps
<1>4. CASE v # <<>> /\ job' = [job EXCEPT ![c].doing = "create"] /\ Call(c, q)
  <2>1. job' = [job EXCEPT ![c] = j]
    <3> DEFINE g == [job[c] EXCEPT !.doing = "create"]
    <3>1. g = j
      <4> DEFINE path == job[c].path
      <4>1. job[c] = [doing |-> "find", path |-> path, value |-> v]
        BY <1>2
      <4> HIDE DEF path, v
      <4> QED
        BY <4>1
    <3>2. job' = [job EXCEPT ![c] = g]
      BY <1>4
    <3> HIDE DEF g, j
    <3> QED
      BY <3>1, <3>2
  <2>2. StringValue(v) \in Values /\ StringValue(v).type = "STRING"
    BY <1>2, <1>4 DEF StringValue, Value
  <2>3. JobFits(j, Called(q))
    BY <1>4, <2>2 DEF JobFits, Work, Dead, Prompt, Called, Rpc, CreateNode,
       ConsoleRequest, CallOf
  <2> HIDE DEF j, q
  <2> QED
    BY <1>2, <1>4, <2>1, <2>3, ConsoleKeeps DEF Call
<1> QED
  BY <1>3, <1>4 DEF FindResponse

(* init goes on, with the ids of the nodes it has created. *)
FillOn(j, ids) == [j EXCEPT !.doing = "fill", !.ids = ids]

LEMMA WorkGoesOn ==
  ASSUME NEW doing, NEW lines, NEW before, NEW onto, NEW ids, NEW r,
         r = [doing |-> doing, lines |-> lines, ids |-> before, onto |-> onto]
  PROVE  FillOn(r, ids)
           = [doing |-> "fill", lines |-> lines, ids |-> ids, onto |-> onto]
<1> DEFINE f == [r EXCEPT !.doing = "fill"]
<1>1. f = [doing |-> "fill", lines |-> lines, ids |-> before, onto |-> onto]
  OBVIOUS
<1>2. [r EXCEPT !.doing = "fill", !.ids = ids] = [f EXCEPT !.ids = ids]
  OBVIOUS
<1> HIDE DEF f
<1>3. [f EXCEPT !.ids = ids] = [doing |-> "fill", lines |-> lines, ids |-> ids, onto |-> onto]
  BY <1>1
<1> QED
  BY <1>2, <1>3 DEF FillOn

(* The next line of init fits, or the command is over. *)
LEMMA FillNextKeeps ==
  ASSUME Desk, NEW c \in Consoles, NEW what \in {"clear", "fill"}, Receives(c, what),
         NEW ids, IsChain(ids), Len(ids) <= Len(job[c].lines), FillNext(c, ids)
  PROVE  Desk'
<1> DEFINE lines == job[c].lines
           line == lines[Len(ids) + 1]
           q == CreateNode(ParentOf(line, ids), line.value)
           j == [doing |-> "fill", lines |-> lines, ids |-> ids, onto |-> job[c].onto]
<1>1. /\ job[c] = [doing |-> what, lines |-> lines, ids |-> job[c].ids, onto |-> job[c].onto]
      /\ lines \in {InitLines, ExampleLines}
      /\ rpc[c].stage = "answered" /\ Apart(c)
  BY AnsweredIs
<1>2. CASE Return(c, Dead) \/ Return(c, Prompt)
  BY <1>1, <1>2, ReturnKeeps
<1>3. CASE /\ Len(ids) # Len(lines)
           /\ job' = [job EXCEPT ![c] = [job[c] EXCEPT !.doing = "fill", !.ids = ids]]
           /\ Call(c, q)
  <2>1. job' = [job EXCEPT ![c] = j]
    <3> DEFINE g == FillOn(job[c], ids)
    <3>1. g = j
      <4> DEFINE before == job[c].ids
                 onto == job[c].onto
      <4>1. job[c] = [doing |-> what, lines |-> lines, ids |-> before, onto |-> onto]
        BY <1>1
      <4> HIDE DEF lines, before, onto
      <4>2. g = [doing |-> "fill", lines |-> lines, ids |-> ids, onto |-> onto]
        BY <4>1, WorkGoesOn
      <4> QED
        BY <4>2 DEF onto
    <3>2. job' = [job EXCEPT ![c] = g]
      BY <1>3 DEF FillOn
    <3> HIDE DEF g, j
    <3> QED
      BY <3>1, <3>2
  <2>2. Len(ids) \in Nat /\ Len(lines) \in Nat /\ Len(ids) < Len(lines)
    BY <1>1, <1>3, LinesAre DEF IsChain
  <2>3. line.value \in Values /\ line.value.type = "STRING"
    BY <1>1, <2>2, LinesAre
  <2>4. JobFits(j, Called(q))
    <3> HIDE DEF line, lines
    <3> QED
      BY <1>1, <2>2, <2>3 DEF JobFits, Work, Dead, Prompt, Called, Rpc, CreateNode,
         ConsoleRequest, CallOf
  <2> HIDE DEF j, q
  <2> QED
    BY <1>1, <1>3, <2>1, <2>4, ConsoleKeeps DEF Call
<1> QED
  BY <1>2, <1>3 DEF FillNext

(* Whatever a console receives, its next call fits. *)
LEMMA ReceiveKeeps ==
  ASSUME Desk, NEW c \in Consoles, Receive(c)
  PROVE  Desk'
<1>1. ASSUME GetResponse(c) PROVE Desk'
  <2>1. rpc[c].stage = "answered" /\ Apart(c)
    BY <1>1 DEF GetResponse, Receives, ServerWaits, Apart
  <2>2. Return(c, Dead) \/ Return(c, Prompt)
    BY <1>1 DEF GetResponse
  <2> QED
    BY <2>1, <2>2, ReturnKeeps
<1>2. ASSUME CreateResponse(c) \/ DeleteResponse(c) PROVE Desk'
  <2>1. rpc[c].stage = "answered" /\ Apart(c) /\ Return(c, Prompt)
    BY <1>2 DEF CreateResponse, DeleteResponse, Receives, ServerWaits, Apart
  <2> QED
    BY <2>1, ReturnKeeps
<1>3. ASSUME ClearResponse(c) PROVE Desk'
  <2>1. IsChain(<<>>) /\ Len(<<>>) = 0 /\ Receives(c, "clear") /\ FillNext(c, <<>>)
    BY <1>3 DEF IsChain, ClearResponse
  <2>2. Len(<<>>) <= Len(job[c].lines)
    BY <2>1, AnsweredIs, LinesAre
  <2> QED
    BY <2>1, <2>2, FillNextKeeps
<1>4. ASSUME FillResponse(c) PROVE Desk'
  <2> DEFINE ids == Append(job[c].ids, AddedAfter(c))
  <2>1. Receives(c, "fill") /\ FillNext(c, ids)
    BY <1>4 DEF FillResponse
  <2>2. /\ IsChain(job[c].ids) /\ Len(job[c].ids) < Len(job[c].lines)
        /\ job[c].lines \in {InitLines, ExampleLines}
    BY <2>1, AnsweredIs
  <2>3. IsChain(ids) /\ Len(ids) = Len(job[c].ids) + 1
    <3>1. ids = [i \in 1..Len(job[c].ids) + 1 |-> IF i = Len(job[c].ids) + 1 THEN AddedAfter(c) ELSE job[c].ids[i]]
      BY <2>2 DEF IsChain
    <3> HIDE DEF ids
    <3> QED
      BY <2>2, <3>1, LengthIs DEF IsChain
  <2> HIDE DEF ids
  <2>4. Len(ids) <= Len(job[c].lines)
    BY <2>2, <2>3, LinesAre DEF IsChain
  <2> QED
    BY <2>1, <2>3, <2>4, FillNextKeeps
<1> QED
  BY <1>1, <1>2, <1>3, <1>4, FindResponseKeeps DEF Receive

-----------------------------------------------------------------------------
(* What the server does to a call: it answers, or never will when the call *)
(* is get_node.                                                            *)
Replied(r, s) ==
  \/ s = r
  \/ /\ r.stage \in {"called", "unanswered"}
     /\ \/ s.stage = "answered"
        \/ s.stage = "unanswered" /\ r.what.method = "get_node"

Reply ==
  /\ rpc' = [c \in Clients |-> rpc'[c]]
  /\ \A c \in Clients : Replied(rpc[c], rpc'[c])

(* A step of the server that only replies leaves the consoles waiting for  *)
(* what they wait for.                                                     *)
LEMMA ServerKeeps ==
  ASSUME Desk, UNCHANGED job, Reply, ServingOK'
  PROVE  Desk'
<1>1. RequestsOK'
  BY DEF Desk, RequestsOK, Reply, Replied
<1>2. ASSUME NEW c \in Consoles PROVE JobFits(job'[c], rpc'[c])
  <2>1. c \in Clients /\ JobFits(job[c], rpc[c]) /\ Replied(rpc[c], rpc'[c])
    BY ClientsAssumption DEF Desk, JobsFit, Reply
  <2>2. CASE rpc'[c] = rpc[c]
    BY <2>1, <2>2
  <2>3. CASE rpc'[c] # rpc[c]
    <3>1. rpc[c].stage # "none" /\ job[c] \notin {Prompt, Dead}
      BY <2>1, <2>3 DEF Replied, JobFits, NoCall, Rpc
    <3>2. rpc[c].stage = "called" /\ rpc[c].what.method # "get_node"
      BY <2>1, <2>3, <3>1 DEF Replied, JobFits, ConsoleRequest
    <3>3. rpc'[c].stage = "answered"
      BY <2>1, <2>3, <3>2 DEF Replied
    <3> QED
      BY <2>1, <3>1, <3>3 DEF JobFits
  <2> QED
    BY <2>2, <2>3
<1>3. JobsFit'
  BY <1>2 DEF Desk, JobsFit
<1> QED
  BY <1>1, <1>3 DEF Desk, Reply

(* No reply is one. *)
LEMMA NoReplyIs ==
  ASSUME Desk, UNCHANGED rpc
  PROVE  Reply
  BY DEF Desk, Reply, Replied

(* An answer is a reply. *)
LEMMA AnswerIs ==
  ASSUME Desk, NEW c \in Clients, rpc[c].stage \in {"called", "unanswered"},
         NEW response, AnswerTo(c, response)
  PROVE  Reply
  BY DEF Desk, Reply, Replied, AnswerTo, Answered, Rpc

(* A handler replies, and goes on only in the call it took. *)
LEMMA HandleReplies ==
  ASSUME Desk, NEW c \in Clients, Handle(c)
  PROVE  Reply /\ ServingOK'
<1>1. ASSUME NEW method, Takes(c, method)
      PROVE  proc = "idle" /\ rpc[c].stage \in {"called", "unanswered"}
             /\ rpc[c].stage = "called" /\ rpc[c].what.method = method
             /\ c \in connected
  BY <1>1 DEF Takes
<1>2. UNCHANGED connected
  BY DEF Handle, HandleCreateNode, HandleUpdateNode, HandleDeleteNode, HandleGetNode,
     HandleGetNodesByFilter, HandleDeleteNodesByFilter, links
<1>3. CASE HandleCreateNode(c)
  <2>1. UNCHANGED rpc \/ AnswerTo(c, NodeResponse(AssignedId))
    BY <1>3 DEF HandleCreateNode, ProcessEnds
  <2>2. proc' \in {"idle", "read_deleted", "exit"}
    BY <1>3 DEF HandleCreateNode, ProcessEnds, Doc!AddNode, Doc!Add
  <2> QED
    BY <1>1, <1>3, <2>1, <2>2, NoReplyIs, AnswerIs DEF HandleCreateNode, ServingOK
<1>4. CASE HandleUpdateNode(c)
  <2>1. UNCHANGED rpc
    BY <1>4 DEF HandleUpdateNode, ProcessEnds
  <2>2. proc' = "update" => serving' = c
    BY <1>4 DEF HandleUpdateNode, ProcessEnds
  <2>3. proc' # "delete_tree"
    BY <1>4 DEF HandleUpdateNode, ProcessEnds, Doc!Delete
  <2> QED
    BY <1>1, <1>4, <1>2, <2>1, <2>2, <2>3, NoReplyIs DEF HandleUpdateNode, ServingOK
<1>5. CASE HandleDeleteNode(c)
  <2>1. UNCHANGED rpc /\ proc' \notin {"update", "delete_tree"}
    BY <1>5 DEF HandleDeleteNode, Doc!Delete
  <2> QED
    BY <2>1, NoReplyIs DEF ServingOK
<1>6. CASE HandleGetNode(c)
  <2>1. proc = "idle" /\ proc' = proc /\ rpc[c].stage = "called" /\ rpc[c].what.method = "get_node"
        /\ rpc' = [rpc EXCEPT ![c] = Rpc("unanswered", rpc[c].what)]
    BY <1>6 DEF HandleGetNode, Takes, document
  <2> QED
    BY <2>1 DEF Desk, Reply, Replied, Rpc, ServingOK
<1>7. CASE HandleGetNodesByFilter(c)
  <2> DEFINE chain == rpc[c].what.chain
  <2>1. UNCHANGED rpc \/ AnswerTo(c, NodesResponse(Found(chain)))
    BY <1>7 DEF HandleGetNodesByFilter
  <2>2. proc' = Asked(chain)
    BY <1>7 DEF HandleGetNodesByFilter
  <2> HIDE DEF chain
  <2> QED
    BY <1>1, <1>7, <2>1, <2>2, AskedIs, NoReplyIs, AnswerIs DEF HandleGetNodesByFilter,
       ServingOK
<1>8. CASE HandleDeleteNodesByFilter(c)
  <2> DEFINE chain == rpc[c].what.chain
  <2>1. UNCHANGED rpc \/ AnswerTo(c, DeletedNodes(0))
    BY <1>8 DEF HandleDeleteNodesByFilter
  <2>2. \/ proc' = Asked(chain)
        \/ proc' = "delete_tree" /\ serving' = c /\ UNCHANGED rpc
    BY <1>8 DEF HandleDeleteNodesByFilter, Doc!DeleteTrees
  <2>3. Takes(c, "delete_nodes_by_filter")
    BY <1>8 DEF HandleDeleteNodesByFilter
  <2> HIDE DEF chain
  <2> QED
    BY <1>1, <1>2, <2>1, <2>2, <2>3, AskedIs, NoReplyIs, AnswerIs DEF ServingOK
<1> QED
  BY <1>3, <1>4, <1>5, <1>6, <1>7, <1>8 DEF Handle

(* So do the later steps of a call. *)
LEMMA ProceedReplies ==
  ASSUME Desk, Proceed
  PROVE  Reply /\ ServingOK'
<1>1. CASE HandleUpdateAdd
  <2>1. UNCHANGED rpc \/ AnswerTo(serving, NodeResponse(AssignedId))
    BY <1>1 DEF HandleUpdateAdd
  <2>2. proc = "update" /\ proc' \in {"idle", "read_deleted", "exit"}
    BY <1>1 DEF HandleUpdateAdd, Doc!UpdateAdd, Doc!Add
  <2>3. serving \in Clients /\ rpc[serving].stage \in {"called", "unanswered"}
    BY <2>2 DEF Desk, ServingOK
  <2> QED
    BY <2>1, <2>2, <2>3, NoReplyIs, AnswerIs DEF ServingOK
<1>2. CASE DeleteDescendants
  <2>1. /\ UNCHANGED <<rpc, serving, connected>>
        /\ proc = "delete_tree" /\ proc' # "update"
    BY <1>2 DEF DeleteDescendants, links, Doc!CountChildren, Doc!Descend, Doc!DeleteTop,
       Doc!Delete
  <2> QED
    BY <2>1, NoReplyIs DEF ServingOK, Desk
<1>3. CASE DeleteNodesAnswers
  <2>1. /\ proc = "delete_tree" /\ proc' = "idle"
        /\ AnswerTo(serving, DeletedNodes(Cardinality(targets)))
    BY <1>3 DEF DeleteNodesAnswers, Doc!DeleteTreesReturns
  <2>2. serving \in Clients /\ rpc[serving].stage \in {"called", "unanswered"}
    BY <2>1 DEF Desk, ServingOK
  <2> QED
    BY <2>1, <2>2, AnswerIs DEF ServingOK
<1> QED
  BY <1>1, <1>2, <1>3 DEF Proceed

(* A connection that is lost is a reply. *)
LEMMA LostReplies ==
  ASSUME Desk, NEW c \in Clients, ConnectionLost(c)
  PROVE  Reply /\ ServingOK'
<1>1. /\ rpc[c].stage \in {"called", "unanswered"} /\ AnswerTo(c, Failed)
      /\ UNCHANGED <<proc, serving, connected>> /\ Gone(c)
  BY DEF ConnectionLost, document, links
<1>2. ASSUME proc \in {"update", "delete_tree"} PROVE c # serving
  BY <1>1, <1>2 DEF Gone, Ended, Doc!Endings, Desk, ServingOK
<1>3. \A d \in Clients : d # c => rpc'[d] = rpc[d]
  BY <1>1 DEF AnswerTo, Desk
<1>4. ServingOK'
  BY <1>1, <1>2, <1>3 DEF Desk, ServingOK
<1> QED
  BY <1>1, <1>4, AnswerIs

(* A server that is killed or started does not reply, and is in no call. *)
LEMMA KillReplies ==
  ASSUME Desk, Kill \/ Restart
  PROVE  Reply /\ ServingOK'
<1>1. proc' \in {"down", "idle"}
  BY DEF Kill, Restart, Doc!Stop
<1>2. CASE Kill
  BY <1>1, <1>2, NoReplyIs DEF Kill, ServingOK
<1>3. CASE Restart
  BY <1>1, <1>3, NoReplyIs DEF Restart, ServingOK
<1> QED
  BY <1>2, <1>3

-----------------------------------------------------------------------------
(* The invariant of the program: the one of the document behind the        *)
(* server, with the one of the calls.                                      *)
CInv == DP!DocumentInv /\ Desk

(* A step of the document, or a new one. *)
Serves == [DP!Next]_(DP!vars) \/ DP!Init'

(* Every step keeps the calls as they should be and is, for the document,  *)
(* a step of its own, a new start or nothing.  The cases are those of      *)
(* Next.                                                                   *)
LEMMA StepServes ==
  ASSUME CInv, [Next]_vars
  PROVE  Desk' /\ Serves
<1>1. DP!DocumentInv /\ Desk /\ RequestsOK
  BY DEF CInv, Desk
<1>2. ASSUME UNCHANGED vars PROVE Desk' /\ Serves
  <2>1. UNCHANGED document
    BY <1>2 DEF vars, serverVars
  <2>2. Desk'
    BY <1>1, <1>2 DEF vars, serverVars, links, document, clientVars, Desk, RequestsOK, JobsFit,
       ServingOK
  <2> QED
    BY <2>1, <2>2, WaitServes DEF Serves
<1>3. ASSUME NEW c \in Consoles,
             \/ \E command \in Commands : TypeCommand(c, command)
             \/ TypeInit(c, InitLines) \/ TypeInit(c, ExampleLines)
             \/ Leave(c) \/ Start(c) \/ Receive(c)
      PROVE  Desk' /\ Serves
  <2>1. Desk'
    BY <1>1, <1>3, TypeCommandKeeps, TypeInitKeeps, LeaveKeeps,
       StartKeeps, ReceiveKeeps
  <2>2. UNCHANGED document
    BY <1>3 DEF Start, TypeCommand, TypeInit, Leave, Typed, Receive, GetResponse, FindResponse,
                CreateResponse, DeleteResponse, ClearResponse, FillResponse, Receives, ServerWaits
  <2> QED
    BY <2>1, <2>2, WaitServes DEF Serves
<1>4. ASSUME NEW c \in Callers, NEW raw \in RawRequests, RawCall(c, raw)
      PROVE  Desk' /\ Serves
  <2>1. UNCHANGED document
    BY <1>4 DEF RawCall, ServerWaits
  <2> QED
    BY <1>1, <1>4, <2>1, RawCallKeeps, WaitServes DEF Serves
<1>5. ASSUME NEW c \in Clients, ServerStep(c)
      PROVE  Desk' /\ Serves
  <2>1. UNCHANGED job
    BY <1>5 DEF ServerStep, By
  <2>2. CASE Handle(c)
    <3>1. Desk'
      BY <1>1, <2>1, <2>2, HandleReplies, ServerKeeps
    <3>2. CASE HandleGetNode(c)
      <4>1. UNCHANGED document
        BY <3>2 DEF HandleGetNode
      <4> QED
        BY <3>1, <4>1, WaitServes DEF Serves
    <3>3. CASE HandleGetNodesByFilter(c)
      <4> DEFINE chain == rpc[c].what.chain
      <4>1. /\ proc = "idle" /\ proc' = Asked(chain)
            /\ UNCHANGED <<pages, update, targets, stack>>
        BY <3>3 DEF HandleGetNodesByFilter, Takes
      <4> HIDE DEF chain
      <4> QED
        BY <3>1, <4>1, QueryServes DEF Serves
    <3> QED
      BY <1>1, <2>2, <3>1, <3>2, <3>3, CreateServes, UpdateServes, DeleteServes,
         TreesServe
         DEF Handle, Serves
  <2>3. CASE Proceed
    BY <1>1, <2>1, <2>3, ProceedReplies, ServerKeeps, UpdateAddServes, DescendantsServe,
       AnswersServe DEF Proceed, Serves
  <2>4. CASE ConnectionLost(c)
    <3>1. UNCHANGED document
      BY <2>4 DEF ConnectionLost
    <3> QED
      BY <1>1, <2>1, <2>4, <3>1, LostReplies, ServerKeeps, WaitServes DEF Serves
  <2> QED
    BY <1>5, <2>2, <2>3, <2>4 DEF ServerStep, By
<1>6. ASSUME By(Nobody, Kill \/ Restart)
      PROVE  Desk' /\ Serves
  <2>1. UNCHANGED job /\ (Kill \/ Restart)
    BY <1>6 DEF By
  <2> QED
    BY <1>1, <2>1, KillReplies, ServerKeeps, KillServes, RestartServes DEF Serves
<1> QED
  BY <1>2, <1>3, <1>4, <1>5, <1>6 DEF Next

(* At first the document is a new one and nobody has called. *)
LEMMA CInvInit == Init => DP!Init /\ Desk
<1> SUFFICES ASSUME Init PROVE DP!Init /\ Desk
  OBVIOUS
<1>1. DP!Init
  BY SameParts, SamePages DEF Init, ServerInit, Doc!Init, DP!Init, Outcome
<1>2. Desk
  BY ClientsAssumption DEF Init, ServerInit, Doc!Init, Desk, RequestsOK, JobsFit,
     JobFits, Work, Prompt, NoCall, Rpc, ServingOK
<1> QED
  BY <1>1, <1>2

(* The file behind the server is a forest in every state, with what the    *)
(* call it is in has left to do, whatever consoles and callers call and    *)
(* whenever the server is killed or started: nodes have ids of their own,  *)
(* parents that are there and no cycles; each call fits what its console   *)
(* does, and the server is in a call only for a client that waits for its  *)
(* answer.                                                                 *)
THEOREM ProgramInvariant == Spec => []CInv
<1>1. Init => DP!DocumentInv /\ Desk
  BY CInvInit, DP!DocumentInit, ServerAssumption, CapacityAssumption
<1>2. CInv /\ [Next]_vars => Desk' /\ Serves
  BY StepServes
<1>3. DP!Init => DP!DocumentInv
  BY DP!DocumentInit, ServerAssumption, CapacityAssumption
<1>4. DP!DocumentInv /\ [DP!Next]_(DP!vars) => DP!DocumentInv'
  BY DP!DocumentStep, ServerAssumption, CapacityAssumption
<1> QED
  BY <1>1, <1>2, <1>3, <1>4, PTL DEF Spec, CInv, Serves

(* Whatever clients call, every step of the server is a step of the        *)
(* document, or starts over with an empty file (server/server.c over       *)
(* document_db/document.c, server/main.c).                                 *)
THEOREM ProgramServes == Spec => ServesADocument
<1>1. CInv /\ [Next]_vars => [D!Next \/ D!Init']_(D!vars)
  <2> SUFFICES ASSUME CInv, [Next]_vars PROVE [D!Next \/ D!Init']_(D!vars)
    OBVIOUS
  <2>1. Serves
    BY StepServes
  <2>2. DP!Init' => D!Init'
    BY Zenon DEF DP!Init, D!Init, DP!NewPage, D!NewPage, DP!NoItems, D!NoItems,
       DP!NoUpdate, D!NoUpdate, DP!NullId, D!NullId
  <2>3. UNCHANGED DP!vars => UNCHANGED D!vars
    BY Zenon DEF DP!vars, D!vars, DP!calls, D!calls
  <2> QED
    BY <2>1, <2>2, <2>3, SameNext DEF Serves
<1> QED
  BY <1>1, ProgramInvariant, PTL DEF Spec, ServesADocument

-----------------------------------------------------------------------------
(* A condition that cannot be put to a node is put to one that is no file  *)
(* with all its attributes.                                                *)
LEMMA CrashIs ==
  ASSUME NEW filter, NEW node, Evaluate(ConditionOf(filter), node) = "crash"
  PROVE  ~IsFileInfo(node.value)
<1> DEFINE value == node.value
           all == [kind |-> "all"]
           attribute == [kind |-> "attribute", name |-> filter.name, word |-> filter.argument]
           plain == [kind |-> "value", word |-> filter.argument]
<1>1. \/ ConditionOf(filter) = all
      \/ ConditionOf(filter) = attribute /\ IsAttribute(filter.name)
      \/ ConditionOf(filter) = plain
  BY DEF ConditionOf
<1>2. CASE ConditionOf(filter) = all
  <2>1. Evaluate(all, node) = "yes"
    BY DEF Evaluate
  <2> QED
    BY <1>2, <2>1
<1>3. CASE ConditionOf(filter) = attribute /\ IsAttribute(filter.name)
  <2>1. Evaluate(attribute, node) = "crash" => ~HasWord(value, filter.name)
    BY DEF Evaluate, Verdict
  <2>2. ~HasWord(value, filter.name)
    BY <1>3, <2>1
  <2> HIDE DEF value
  <2>3. ~IsFileInfo(value)
    BY <1>3, <2>2 DEF IsFileInfo, IsAttribute
  <2> QED
    BY <2>3 DEF value
<1>4. CASE ConditionOf(filter) = plain
  <2>1. Evaluate(plain, node) = "crash" => value.type # "STRING"
    BY DEF Evaluate, Verdict
  <2>2. value.type # "STRING"
    BY <1>4, <2>1
  <2> QED
    BY <2>2 DEF IsFileInfo, HasWord, Attributes
<1> QED
  BY <1>1, <1>2, <1>3, <1>4

LEMMA CrashesIs ==
  ASSUME NEW chain, Crashes(Nodes, Conditions(chain))
  PROVE  \E x \in DOMAIN Nodes : ~IsFileInfo(Nodes[x].value)
<1>1. PICK k \in DOMAIN chain, x \in DOMAIN Nodes :
        Evaluate(Conditions(chain)[k], Nodes[x]) = "crash"
  BY DEF Crashes, Conditions
<1>2. Conditions(chain)[k] = ConditionOf(chain[k])
  BY DEF Conditions
<1> QED
  BY <1>1, <1>2, CrashIs

(* What may end the server in a call of a console. *)
Excused == Obstacles(pages) # {} \/ \E x \in DOMAIN Nodes : ~IsFileInfo(Nodes[x].value)

(* The deletion of descendants never meets a node with children, or one    *)
(* that is gone: only a deleted item ends it.                              *)
LEMMA DescendantsHarm ==
  ASSUME CInv, DeleteDescendants
  PROVE  proc' \in Ended => Obstacles(pages) # {}
<1>1. proc = "delete_tree" /\ Outcome = "delete_tree" /\ Outcome' = IdleIfExit(proc')
  BY DEF DeleteDescendants, Doc!CountChildren, Doc!Descend, Doc!DeleteTop, Outcome,
     IdleIfExit
<1>2. "delete_tree" \notin Ended
  BY DEF Ended, Doc!Endings
<1>3. CASE Doc!CountChildren \/ Doc!Descend
  BY <1>1, <1>2, <1>3, SameScans DEF Doc!CountChildren, Doc!Descend
<1>4. CASE Doc!DeleteTop
  <2>1. DP!Delete(DP!Top.id, "delete_tree", "not_found")
    BY <1>4, DeleteOutcome, SameParts DEF Doc!DeleteTop, IdleIfExit
  <2>2. Outcome' = "delete_tree" <=> proc' = "delete_tree"
    BY <1>1 DEF IdleIfExit
  <2>3. DP!DeleteTop
    BY <1>1, <1>4, <2>1, <2>2, SameParts DEF Doc!DeleteTop, DP!DeleteTop
  <2>4. Outcome' \in {"delete_tree", "read_deleted"}
    BY <2>3, DP!DeleteTopIs, ServerAssumption, CapacityAssumption DEF CInv, DP!DocumentInv
  <2>5. proc' \in {"has_children", "read_deleted", "delete_tree", "not_found"}
    BY <1>4 DEF Doc!DeleteTop, Doc!Delete
  <2>6. proc' \in {"delete_tree", "read_deleted"}
    BY <1>1, <2>4, <2>5 DEF IdleIfExit
  <2>7. proc' = "read_deleted" => Obstacles(pages) # {}
    BY <1>4, SameScans DEF Doc!DeleteTop, Doc!Delete, Trips
  <2> QED
    BY <1>2, <2>6, <2>7
<1> QED
  BY <1>3, <1>4 DEF DeleteDescendants

(* A console's call ends the server only with such an excuse. *)
LEMMA ConsoleHarm ==
  ASSUME CInv, NEW c \in Consoles, proc \notin Ended, proc' \in Ended, ServerStep(c)
  PROVE  Excused
<1>1. Desk /\ c \in Clients /\ JobFits(job[c], rpc[c])
  BY ClientsAssumption DEF CInv, Desk, JobsFit
<1>2. rpc[c].stage = "called" => ConsoleRequest(rpc[c].what)
  BY <1>1 DEF JobFits
<1>3. "idle" \notin Ended
  BY DEF Ended, Doc!Endings
<1>4. CASE Handle(c)
  <2> DEFINE request == rpc[c].what
             chain == request.chain
  <2>1. rpc[c].stage = "called" /\ ConsoleRequest(request)
    BY <1>2, <1>4 DEF Handle, HandleCreateNode, HandleUpdateNode, HandleDeleteNode,
       HandleGetNode,
                      HandleGetNodesByFilter, HandleDeleteNodesByFilter, Takes
  <2>2. CASE HandleCreateNode(c)
    <3>1. Convertible(request.value)
      BY <2>1, <2>2 DEF HandleCreateNode, Takes, ConsoleRequest, Convertible
    <3>2. Doc!AddNode(request.parent, request.value)
      BY <2>2, <3>1 DEF HandleCreateNode
    <3> QED
      BY <1>3, <3>2, SameScans DEF Doc!AddNode, Doc!Add, Trips, Excused
  <2>3. CASE HandleGetNodesByFilter(c) \/ HandleDeleteNodesByFilter(c)
    <3>1. ~Rejects(chain)
      BY <2>1, <2>3 DEF HandleGetNodesByFilter, HandleDeleteNodesByFilter, Takes,
         ConsoleRequest
    <3>2. proc' = Asked(chain) \/ proc' = "delete_tree"
      BY <2>3 DEF HandleGetNodesByFilter, HandleDeleteNodesByFilter, Doc!DeleteTrees
    <3> HIDE DEF chain
    <3>3. Asked(chain) # "idle"
      BY <1>3, <3>2 DEF Ended, Doc!Endings
    <3> QED
      BY <3>1, <3>3, AskedIs, CrashesIs DEF Excused
  <2>4. request.method \in {"create_node", "get_nodes_by_filter", "delete_nodes_by_filter"}
    BY <2>1 DEF ConsoleRequest
  <2> QED
    BY <1>4, <2>2, <2>3, <2>4
       DEF Handle, HandleUpdateNode, HandleDeleteNode, HandleGetNode, Takes
<1>5. CASE serving = c /\ Proceed
  <2>1. CASE HandleUpdateAdd
    <3>1. proc = "update" /\ rpc[c].stage = "called" /\ rpc[c].what.method = "update_node"
      BY <1>1, <1>5, <2>1 DEF HandleUpdateAdd, Desk, ServingOK
    <3> QED
      BY <1>2, <3>1 DEF ConsoleRequest
  <2>2. CASE DeleteDescendants
    BY <2>2, DescendantsHarm DEF Excused
  <2>3. CASE DeleteNodesAnswers
    BY <1>3, <2>3 DEF DeleteNodesAnswers, Doc!DeleteTreesReturns
  <2> QED
    BY <1>5, <2>1, <2>2, <2>3 DEF Proceed
<1>6. CASE ConnectionLost(c)
  BY <1>6 DEF ConnectionLost, document
<1> QED
  BY <1>4, <1>5, <1>6 DEF ServerStep, By

(* A console's command does not end the server, unless a deleted item is   *)
(* in the way or a node is not a file with all its attributes              *)
(* (client/helpers.c, server/server.c): a value it creates can be          *)
(* converted, its filters are not rejected, and what it deletes has no     *)
(* children left.                                                          *)
THEOREM ConsolesHarmless == Spec => ConsolesDoNoHarm
<1>1. CInv /\ [Next]_vars =>
        [\A c \in Consoles :
           proc \notin Ended /\ proc' \in Ended /\ ServerStep(c) =>
             \/ Obstacles(pages) # {}
             \/ \E x \in DOMAIN Nodes : ~IsFileInfo(Nodes[x].value)]_vars
  BY ConsoleHarm DEF Excused
<1> QED
  BY <1>1, ProgramInvariant, PTL DEF Spec, ConsolesDoNoHarm

-----------------------------------------------------------------------------
(* A step that loses no node adds one behind all others, or none.          *)
LEMMA OnlyGrows ==
  ASSUME CInv, [Next]_vars, ItemsOf(pages) \subseteq ItemsOf(pages'), DOMAIN Nodes # {}
  PROVE  GrownTo(Nodes, Nodes')
<1>1. DP!Shape /\ DP!UpdateReady /\ DP!DocumentInv
  BY DEF CInv, DP!DocumentInv, DP!IndShape
<1>2. /\ DOMAIN Nodes = ItemsOf(pages) /\ DOMAIN Nodes' = ItemsOf(pages')
      /\ \A x \in ItemsOf(pages) : Nodes[x] = ItemAt(pages, x)
      /\ \A x \in ItemsOf(pages') : Nodes'[x] = ItemAt(pages', x)
      /\ ItemsOf(pages) \subseteq DP!NodeIds /\ DP!NodeIds \subseteq Nat \X Nat
  BY <1>1, NodesAre DEF Nodes
<1>3. DP!Nodes = ItemsOf(pages) /\ DP!Nodes' = ItemsOf(pages')
  BY SameScans DEF DP!Nodes
<1>4. CASE UNCHANGED pages
  BY <1>2, <1>4 DEF GrownTo
<1>5. CASE DP!Grows
  <2>1. PICK n \in DP!NodeIds, parent \in DP!Nodes \cup {DP!NullId}, v \in Values :
          /\ \A x \in DP!Nodes : DP!Before(x, n)
          /\ n \notin DP!Nodes /\ DP!Nodes' = DP!Nodes \cup {n}
          /\ DP!ItemAt(pages', n) = DP!Node(parent, v)
          /\ \A x \in DP!Nodes : DP!ItemAt(pages', x) = DP!ItemAt(pages, x)
    BY <1>1, <1>5, DP!GrowsIs, ServerAssumption, CapacityAssumption
  <2>2. \A x \in ItemsOf(pages) : Before(x, n)
    BY <1>3, <2>1 DEF DP!Before, Before
  <2>3. \A x \in ItemsOf(pages) : ItemAt(pages', x) = ItemAt(pages, x)
    BY <1>3, <2>1, SameScans
  <2> QED
    BY <1>2, <1>3, <2>1, <2>2, <2>3 DEF GrownTo
<1>6. CASE DP!Shrinks
  <2>1. PICK x \in DP!Nodes : DP!Erase(x)
    BY <1>6 DEF DP!Shrinks
  <2>2. DP!Nodes' = DP!Nodes \ {x}
    BY <1>1, <2>1, DP!Removed, ServerAssumption, CapacityAssumption
  <2> QED
    BY <1>3, <2>1, <2>2
<1>7. CASE DP!Init'
  <2>1. pages' = <<DP!NewPage(0)>>
    BY <1>7 DEF DP!Init
  <2>2. ItemsOf(pages') = {}
    <3>1. ASSUME NEW k \in DOMAIN pages' PROVE DOMAIN pages'[k].live = {}
      BY <2>1 DEF DP!NewPage, DP!NoItems
    <3> QED
      BY <3>1 DEF ItemsOf
  <2> QED
    BY <1>2, <2>2
<1>8. CASE [DP!Next]_(DP!vars)
  <2>1. DP!Grows \/ DP!Shrinks \/ UNCHANGED pages
    BY <1>1, <1>8, DP!StepIs, ServerAssumption, CapacityAssumption
  <2> QED
    BY <1>4, <1>5, <1>6, <2>1
<1> QED
  BY <1>7, <1>8, StepServes DEF Serves

(* What a chain finds, it finds after such a step. *)
LEMMA FoundStays ==
  ASSUME CInv, [Next]_vars, ItemsOf(pages) \subseteq ItemsOf(pages'), NEW chain, IsChain(chain)
  PROVE  Found(chain) \subseteq Found(chain)'
<1> DEFINE path == Conditions(chain)
<1>1. Len(path) \in Nat /\ (path # <<>> => Len(path) # 0)
  <2>1. path = [i \in 1..Len(chain) |-> path[i]] /\ Len(chain) \in Nat
    BY DEF Conditions, IsChain
  <2> HIDE DEF path
  <2>2. Len(path) = Len(chain) /\ Len(path) \in Nat
    BY <2>1, LengthIs DEF IsChain
  <2> QED
    BY <2>1, <2>2
<1>2. Found(chain) = Answer(Nodes, path) /\ Found(chain)' = Answer(Nodes', path)
  BY DEF Found, Conditions
<1> HIDE DEF path
<1>3. CASE DOMAIN Nodes # {}
  <2>1. GrownTo(Nodes, Nodes')
    BY <1>3, OnlyGrows
  <2> QED
    BY <1>1, <1>2, <2>1, AnswerGrows
<1>4. CASE DOMAIN Nodes = {}
  <2>1. Answer(Nodes, path) = {}
    BY <1>4, BelowIs DEF Answer
  <2> QED
    BY <1>2, <2>1
<1> QED
  BY <1>3, <1>4

-----------------------------------------------------------------------------
(* The chain of the command create. *)
ParentChain(path) == PathChain(Parsed(path))

(* A console relies on no more than on its connection: what was there is   *)
(* lost with it.                                                           *)
Worst(c) == IF Gone(c) THEN "losses" ELSE meanwhile[c]

(* What the command create knows between its calls: it asked for the nodes *)
(* of its path; those it was answered, and the parent it names, are among  *)
(* them until nodes, or the connection, are lost.                          *)
FindFits(j, r, worst) ==
  /\ j.doing \in {"find", "create"} => IsTypedPath(j.path)
  /\ j.doing = "find" /\ r.stage = "called" => r.what = GetNodes(ParentChain(j.path))
  /\ j.doing = "find" /\ r.stage = "answered" /\ r.what # Failed /\ worst # "losses" =>
       r.what.ids \subseteq Found(ParentChain(j.path))
  /\ j.doing = "create" /\ r.stage = "called" =>
       /\ r.what.value = StringValue(j.value)
       /\ worst # "losses" => r.what.parent \in Found(ParentChain(j.path))

Finding == \A c \in Consoles : FindFits(job[c], rpc[c], Worst(c))

(* It is a function, whatever others do. *)
Watched == meanwhile = [c \in Consoles |-> meanwhile[c]]

LEMMA WatchedStep == Watched /\ [Next]_vars => Watched'
<1> SUFFICES ASSUME Watched, [Next]_vars PROVE Watched'
  OBVIOUS
<1>1. ASSUME NEW c \in Consoles, Typed(c) PROVE Watched'
  BY <1>1 DEF Typed, Watched
<1>2. ASSUME UNCHANGED meanwhile PROVE Watched'
  BY <1>2 DEF Watched
<1>3. ASSUME NEW c, NEW step, By(c, step) PROVE Watched'
  BY <1>3 DEF By, Watched
<1> QED
  BY <1>1, <1>2, <1>3 DEF Next, vars, clientVars, TypeCommand, TypeInit, Leave, Start, Receive,
     GetResponse, FindResponse, CreateResponse, DeleteResponse, ClearResponse, FillResponse,
     Receives, RawCall, ServerStep

(* A step of a client leaves the others their connections. *)
LEMMA WorstStays ==
  ASSUME NEW c, Apart(c), NEW d, d # c, meanwhile'[d] = meanwhile[d]
  PROVE  Worst(d)' = Worst(d)
  BY DEF Worst, Gone, Apart, document

(* No step of the server or of its machine brings one back. *)
LEMMA StaysGone ==
  ASSUME NEW d, Gone(d), (\E c \in Clients : ServerStep(c)) \/ Kill \/ Restart
  PROVE  Gone(d)'
<1>1. CASE Kill
  BY <1>1 DEF Kill, Doc!Stop, Gone, Ended
<1>2. CASE Restart
  BY <1>2 DEF Restart, Gone
<1>3. ASSUME NEW c \in Clients, ServerStep(c) PROVE Gone(d)'
  <2>1. CASE Handle(c)
    <3>1. UNCHANGED connected
      BY <2>1 DEF Handle, HandleCreateNode, HandleUpdateNode, HandleDeleteNode, HandleGetNode,
         HandleGetNodesByFilter, HandleDeleteNodesByFilter, links
    <3>2. proc = "idle"
      BY <2>1 DEF Handle, HandleCreateNode, HandleUpdateNode, HandleDeleteNode, HandleGetNode,
         HandleGetNodesByFilter, HandleDeleteNodesByFilter, Takes
    <3> QED
      BY <3>1, <3>2 DEF Gone, Ended, Doc!Endings
  <2>2. CASE Proceed
    <3>1. UNCHANGED connected
      BY <2>2 DEF Proceed, HandleUpdateAdd, DeleteDescendants, DeleteNodesAnswers, links
    <3>2. proc \in {"update", "delete_tree"}
      BY <2>2 DEF Proceed, HandleUpdateAdd, DeleteDescendants, DeleteNodesAnswers,
         Doc!CountChildren, Doc!Descend, Doc!DeleteTop, Doc!DeleteTreesReturns
    <3> QED
      BY <3>1, <3>2 DEF Gone, Ended, Doc!Endings
  <2>3. CASE ConnectionLost(c)
    BY <2>3 DEF ConnectionLost, Gone, document, links
  <2> QED
    BY <1>3, <2>1, <2>2, <2>3 DEF ServerStep, By
<1> QED
  BY <1>1, <1>2, <1>3

(* A chain of the command create is a chain. *)
LEMMA ParentChainIs ==
  ASSUME NEW path, IsTypedPath(path)
  PROVE  IsChain(ParentChain(path))
<1> DEFINE nodes == Parsed(path)
<1>1. Len(nodes) \in Nat /\ DOMAIN nodes = 1..Len(nodes)
  BY ParsedIs
<1> HIDE DEF nodes
<1>2. PathChain(nodes) = [i \in 1..Len(nodes) |-> PathChain(nodes)[i]]
  BY <1>1 DEF PathChain
<1> DEFINE chain == PathChain(nodes)
<1> HIDE DEF chain
<1>3. IsChain(chain)
  BY <1>1, <1>2, LengthIs DEF IsChain, chain
<1> QED
  BY <1>3 DEF ParentChain, chain, nodes

(* Nothing has to fit when the console does something else. *)
LEMMA OtherwiseFits ==
  ASSUME NEW j, j.doing \notin {"find", "create"}, NEW r, NEW worst
  PROVE  FindFits(j, r, worst)
  BY DEF FindFits

(* A step of one console leaves the others what they know. *)
LEMMA ConsoleFinds ==
  ASSUME Desk, Watched, Finding, NEW c \in Consoles, Apart(c),
         NEW j, NEW r, FindFits(j, r, Worst(c)'),
         job' = [job EXCEPT ![c] = j], rpc' = [rpc EXCEPT ![c] = r],
         UNCHANGED meanwhile \/ \E w : meanwhile' = [meanwhile EXCEPT ![c] = w]
  PROVE  Finding'
<1>1. c \in Clients /\ Consoles \subseteq Clients
  BY ClientsAssumption
<1>2. rpc'[c] = r /\ \A d \in Clients : d # c => rpc'[d] = rpc[d]
  BY <1>1 DEF Desk
<1>3. job'[c] = j /\ \A d \in Consoles : d # c => job'[d] = job[d]
  BY DEF Desk, JobsFit
<1>4. \A d \in Consoles : d # c => meanwhile'[d] = meanwhile[d]
  BY DEF Watched
<1>5. \A chain : Found(chain)' = Found(chain)
  BY DEF Apart, document, Found, Nodes, Conditions
<1>6. ASSUME NEW d \in Consoles PROVE FindFits(job[d], rpc[d], Worst(d))'
  <2>1. CASE d = c
    BY <1>2, <1>3, <1>5, <2>1 DEF FindFits
  <2>2. CASE d # c
    <3>1. FindFits(job[d], rpc[d], Worst(d))
      BY DEF Finding
    <3>2. job'[d] = job[d] /\ rpc'[d] = rpc[d] /\ Worst(d)' = Worst(d)
      BY <1>1, <1>2, <1>3, <1>4, <2>2, WorstStays
    <3> QED
      BY <1>5, <3>1, <3>2 DEF FindFits
  <2> QED
    BY <2>1, <2>2
<1> QED
  BY <1>6 DEF Finding

(* The command create asks for the nodes of its path. *)
LEMMA TypeCommandFinds ==
  ASSUME Desk, Watched, Finding, NEW c \in Consoles, NEW command \in Commands,
         TypeCommand(c, command)
  PROVE  Finding'
<1> DEFINE asked == RequestOf(command.func, Parsed(command.path))
           j == [doing |-> "find", path |-> command.path, value |-> asked.value]
<1>1. /\ Does(c, "prompt") /\ Apart(c) /\ meanwhile' = [meanwhile EXCEPT ![c] = "nothing"]
      /\ \/ /\ job' = [job EXCEPT ![c] = Dead] /\ UNCHANGED rpc
         \/ /\ job' = [job EXCEPT ![c] = [doing |-> "get"]] /\ Call(c, GetNodes(asked.chain))
         \/ /\ job' = [job EXCEPT ![c] = [doing |-> "delete"]] /\ Call(c, DeleteNodes(asked.chain))
         \/ /\ asked.call = "create" /\ job' = [job EXCEPT ![c] = j]
            /\ Call(c, GetNodes(asked.chain))
  BY DEF TypeCommand, Typed, ServerWaits, Apart
<1>2. asked.call = "create" => asked.chain = ParentChain(command.path)
  <2>1. command.func \in FunctionTypes
    BY CommandsAssumption
  <2> QED
    BY <2>1 DEF RequestOf, Request, CreateChain, ParentChain, FunctionTypes
<1>3. IsTypedPath(command.path)
  BY CommandsAssumption
<1> HIDE DEF asked
<1>4. rpc = [rpc EXCEPT ![c] = NoCall]
  BY <1>1, PromptIs
<1>5. CASE job' = [job EXCEPT ![c] = Dead] /\ UNCHANGED rpc
  <2>1. FindFits(Dead, NoCall, Worst(c)')
    BY OtherwiseFits DEF Dead
  <2> QED
    BY <1>1, <1>4, <1>5, <2>1, ConsoleFinds
<1>6. ASSUME NEW doing \in {"get", "delete"}, job' = [job EXCEPT ![c] = [doing |-> doing]],
             NEW q, Call(c, q)
      PROVE  Finding'
  <2> DEFINE k == [doing |-> doing]
  <2>1. FindFits(k, Called(q), Worst(c)')
    BY OtherwiseFits
  <2>2. job' = [job EXCEPT ![c] = k]
    BY <1>6
  <2> HIDE DEF k
  <2> QED
    BY <1>1, <1>4, <1>6, <2>1, <2>2, ConsoleFinds DEF Call
<1>7. CASE /\ asked.call = "create" /\ job' = [job EXCEPT ![c] = j]
           /\ Call(c, GetNodes(asked.chain))
  <2>1. FindFits(j, Called(GetNodes(asked.chain)), Worst(c)')
    BY <1>2, <1>3, <1>7 DEF FindFits, Called, Rpc
  <2> HIDE DEF j
  <2> QED
    BY <1>1, <1>4, <1>7, <2>1, ConsoleFinds DEF Call
<1> QED
  BY <1>1, <1>5, <1>6, <1>7

(* The nodes it was answered are those of its path, and it names the first *)
(* of them.                                                                *)
LEMMA FindResponseFinds ==
  ASSUME CInv, Watched, Finding, NEW c \in Consoles, FindResponse(c)
  PROVE  Finding'
<1> DEFINE response == rpc[c].what
           v == job[c].value
           q == CreateNode(First(response.ids), StringValue(v))
           j == [doing |-> "create", path |-> job[c].path, value |-> v]
<1>1. Receives(c, "find") /\ Desk
  BY DEF FindResponse, CInv
<1>2. /\ job[c] = [doing |-> "find", path |-> job[c].path, value |-> v]
      /\ rpc[c].stage = "answered" /\ Apart(c) /\ UNCHANGED meanwhile
      /\ FindFits(job[c], rpc[c], Worst(c))
  BY <1>1, AnsweredIs DEF Receives, Finding
<1>3. Worst(c)' = Worst(c)
  BY <1>1, <1>2 DEF Receives, Worst, Gone, Apart, document
<1>4. ASSUME NEW k \in {Prompt, Dead}, Return(c, k) PROVE Finding'
  <2>1. FindFits(k, NoCall, Worst(c)')
    BY OtherwiseFits DEF Prompt, Dead
  <2> QED
    BY <1>1, <1>2, <1>4, <2>1, ConsoleFinds DEF Return
<1>5. CASE /\ response # Failed /\ response.ids # {}
           /\ job' = [job EXCEPT ![c].doing = "create"] /\ Call(c, q)
  <2>1. job' = [job EXCEPT ![c] = j]
    <3> DEFINE g == [job[c] EXCEPT !.doing = "create"]
    <3>1. g = j
      <4> DEFINE path == job[c].path
      <4>1. job[c] = [doing |-> "find", path |-> path, value |-> v]
        BY <1>2
      <4> HIDE DEF path, v
      <4> QED
        BY <4>1
    <3>2. job' = [job EXCEPT ![c] = g]
      BY <1>5
    <3> HIDE DEF g, j
    <3> QED
      BY <3>1, <3>2
  <2>2. job[c].doing = "find"
    BY <1>1 DEF Receives, Does
  <2>3. /\ IsTypedPath(job[c].path)
        /\ Worst(c) # "losses" => response.ids \subseteq Found(ParentChain(job[c].path))
    BY <1>2, <1>5, <2>2 DEF FindFits
  <2>4. ASSUME Worst(c) # "losses"
        PROVE  First(response.ids) \in Found(ParentChain(job[c].path))
    <3> DEFINE S == response.ids
               path == Conditions(ParentChain(job[c].path))
    <3>1. S # {} /\ S \subseteq Answer(Nodes, path)
      BY <1>5, <2>3, <2>4 DEF Found
    <3> HIDE DEF S, path
    <3>2. Answer(Nodes, path) \subseteq DOMAIN Nodes
      BY BelowIs DEF Answer
    <3>3. DOMAIN Nodes \subseteq Nat \X Nat
      BY NodesAre DEF CInv
    <3>4. First(S) \in S
      BY <3>1, <3>2, <3>3, FirstIs
    <3> QED
      BY <3>1, <3>4 DEF Found, S, path
  <2> DEFINE p == First(response.ids)
  <2> HIDE DEF p
  <2>5. q.parent = p /\ q.value = StringValue(v)
    BY DEF CreateNode, p
  <2> HIDE DEF q
  <2>6. FindFits(j, Called(q), Worst(c)')
    <3> DEFINE path == job[c].path
    <3>1. j.doing = "create" /\ j.path = path /\ j.value = v
      OBVIOUS
    <3>2. Called(q).stage = "called" /\ Called(q).what = q
      BY DEF Called, Rpc
    <3> HIDE DEF j
    <3> QED
      BY <1>3, <2>3, <2>4, <2>5, <3>1, <3>2 DEF FindFits, p
  <2> HIDE DEF j
  <2> QED
    BY <1>1, <1>2, <1>5, <2>1, <2>6, ConsoleFinds DEF Call, q
<1> QED
  BY <1>4, <1>5 DEF FindResponse

(* A command that is over has nothing to fit. *)
LEMMA ReturnFinds ==
  ASSUME Desk, Watched, Finding, NEW c \in Consoles, Apart(c), UNCHANGED meanwhile,
         NEW k \in {Prompt, Dead}, Return(c, k)
  PROVE  Finding'
<1>1. FindFits(k, NoCall, Worst(c)')
  BY OtherwiseFits DEF Prompt, Dead
<1> QED
  BY <1>1, ConsoleFinds DEF Return

(* Nor has init. *)
LEMMA FillNextFinds ==
  ASSUME Desk, Watched, Finding, NEW c \in Consoles, NEW what \in {"clear", "fill"},
         Receives(c, what), NEW ids, FillNext(c, ids)
  PROVE  Finding'
<1> DEFINE line == job[c].lines[Len(ids) + 1]
           q == CreateNode(ParentOf(line, ids), line.value)
           j == FillOn(job[c], ids)
<1>1. /\ job[c] = [doing |-> what, lines |-> job[c].lines, ids |-> job[c].ids,
                   onto |-> job[c].onto]
      /\ Apart(c) /\ UNCHANGED meanwhile
  BY AnsweredIs DEF Receives
<1>2. CASE Return(c, Dead) \/ Return(c, Prompt)
  BY <1>1, <1>2, ReturnFinds
<1>3. CASE /\ job' = [job EXCEPT ![c] = [job[c] EXCEPT !.doing = "fill", !.ids = ids]]
           /\ Call(c, q)
  <2>1. job' = [job EXCEPT ![c] = j]
    BY <1>3 DEF FillOn
  <2>2. j.doing = "fill"
    <3> DEFINE lines == job[c].lines
               before == job[c].ids
               onto == job[c].onto
    <3>1. job[c] = [doing |-> what, lines |-> lines, ids |-> before, onto |-> onto]
      BY <1>1
    <3> HIDE DEF lines, before, onto
    <3> QED
      BY <3>1, WorkGoesOn
  <2> HIDE DEF j, q
  <2>3. FindFits(j, Called(q), Worst(c)')
    BY <2>2, OtherwiseFits
  <2> QED
    BY <1>1, <1>3, <2>1, <2>3, ConsoleFinds DEF Call
<1> QED
  BY <1>2, <1>3 DEF FillNext

(* Whatever a console does, its command create goes on as it should. *)
LEMMA ConsoleStepFinds ==
  ASSUME CInv, Watched, Finding, NEW c \in Consoles,
         \/ \E command \in Commands : TypeCommand(c, command)
         \/ TypeInit(c, InitLines) \/ TypeInit(c, ExampleLines)
         \/ Leave(c) \/ Start(c) \/ Receive(c)
  PROVE  Finding'
<1>1. Desk
  BY DEF CInv
<1>2. ASSUME NEW lines, TypeInit(c, lines) PROVE Finding'
  <2> DEFINE j == [doing |-> "clear", lines |-> lines, ids |-> <<>>, onto |-> pages]
             q == DeleteNodes(<<>>)
  <2>1. FindFits(j, Called(q), Worst(c)')
    BY OtherwiseFits
  <2>2. /\ job' = [job EXCEPT ![c] = j] /\ rpc' = [rpc EXCEPT ![c] = Called(q)]
        /\ Apart(c) /\ meanwhile' = [meanwhile EXCEPT ![c] = "nothing"]
    BY <1>2 DEF TypeInit, Typed, ServerWaits, Apart, Call
  <2> HIDE DEF j, q
  <2> QED
    BY <1>1, <2>1, <2>2, ConsoleFinds
<1>3. ASSUME Leave(c) PROVE Finding'
  <2>1. FindFits(Dead, NoCall, Worst(c)')
    BY OtherwiseFits DEF Dead
  <2>2. /\ job' = [job EXCEPT ![c] = Dead] /\ Does(c, "prompt") /\ UNCHANGED rpc
        /\ Apart(c) /\ meanwhile' = [meanwhile EXCEPT ![c] = "nothing"]
    BY <1>3 DEF Leave, Typed, ServerWaits, Apart
  <2>3. rpc' = [rpc EXCEPT ![c] = NoCall]
    BY <1>1, <2>2, PromptIs
  <2> QED
    BY <1>1, <2>1, <2>2, <2>3, ConsoleFinds
<1>4. ASSUME GetResponse(c) \/ CreateResponse(c) \/ DeleteResponse(c) PROVE Finding'
  <2>1. Apart(c) /\ UNCHANGED meanwhile /\ (Return(c, Dead) \/ Return(c, Prompt))
    BY <1>4 DEF GetResponse, CreateResponse, DeleteResponse, Receives, ServerWaits, Apart
  <2> QED
    BY <1>1, <2>1, ReturnFinds
<1>5. ASSUME ClearResponse(c) PROVE Finding'
  <2> DEFINE none == <<>>
  <2>1. Receives(c, "clear") /\ FillNext(c, none)
    BY <1>5 DEF ClearResponse
  <2> HIDE DEF none
  <2> QED
    BY <1>1, <2>1, FillNextFinds
<1>6. ASSUME FillResponse(c) PROVE Finding'
  <2> DEFINE ids == Append(job[c].ids, AddedAfter(c))
  <2>1. Receives(c, "fill") /\ FillNext(c, ids)
    BY <1>6 DEF FillResponse
  <2> HIDE DEF ids
  <2> QED
    BY <1>1, <2>1, FillNextFinds
<1>7. ASSUME Start(c) PROVE Finding'
  <2>1. FindFits(Prompt, NoCall, Worst(c)')
    BY OtherwiseFits DEF Prompt
  <2>2. job' = [job EXCEPT ![c] = Prompt] /\ UNCHANGED rpc /\ Apart(c) /\ UNCHANGED meanwhile
    BY <1>7 DEF Start, ServerWaits, Apart
  <2>3. rpc' = [rpc EXCEPT ![c] = NoCall]
    BY <1>1, <1>7, <2>2, StartKeeps
  <2> QED
    BY <1>1, <2>1, <2>2, <2>3, ConsoleFinds
<1> QED
  BY <1>1, <1>2, <1>3, <1>4, <1>5, <1>6, <1>7, TypeCommandFinds, FindResponseFinds DEF Receive

(* A step that costs a console nothing loses no node, nor the server. *)
LEMMA WorseIs ==
  ASSUME NEW d, meanwhile'[d] = Worse(d), Gone(d) => Gone(d)', Worst(d)' # "losses"
  PROVE  /\ Worst(d) = meanwhile[d] /\ Worst(d)' = Worse(d)
         /\ Worst(d) # "losses" /\ proc \notin Ended /\ proc' \notin Ended
         /\ ItemsOf(pages) \subseteq ItemsOf(pages')
  BY DEF Worst, Worse, Gone

(* A step of others leaves a console what it knows, as long as no node is  *)
(* lost; if it gets an answer, its call has failed.                        *)
LEMMA OthersFind ==
  ASSUME CInv, [Next]_vars, NEW d \in Consoles, FindFits(job[d], rpc[d], Worst(d)),
         job'[d] = job[d], rpc'[d] = rpc[d] \/ rpc'[d] = Answered(Failed),
         Worst(d)' # "losses" =>
           Worst(d) # "losses" /\ ItemsOf(pages) \subseteq ItemsOf(pages')
  PROVE  FindFits(job[d], rpc[d], Worst(d))'
<1> DEFINE chain == ParentChain(job[d].path)
<1>1. ASSUME job[d].doing \in {"find", "create"}, ItemsOf(pages) \subseteq ItemsOf(pages')
      PROVE  \E found : chain = found /\ Found(found) \subseteq Found(found)'
  <2>1. IsChain(chain)
    BY <1>1, ParentChainIs DEF FindFits
  <2>2. PICK found : found = chain
    OBVIOUS
  <2>3. IsChain(found)
    BY <2>1, <2>2
  <2> HIDE DEF chain
  <2> QED
    BY <1>1, <2>2, <2>3, FoundStays
<1>2. CASE rpc'[d] = Answered(Failed)
  BY <1>2 DEF FindFits, Answered, Rpc
<1>3. CASE rpc'[d] = rpc[d]
  <2>1. ASSUME job[d].doing \in {"find", "create"}, Worst(d)' # "losses",
               NEW x \in Found(chain)
        PROVE  x \in Found(ParentChain(job[d].path))'
    BY <1>1, <2>1 DEF chain
  <2> QED
    BY <1>3, <2>1 DEF FindFits
<1> QED
  BY <1>2, <1>3

(* The server answers the call it is in, or takes. *)
LEMMA OnlyItsOwn ==
  ASSUME Desk, NEW e \in Clients, ServerStep(e), NEW d \in Clients, d # e
  PROVE  rpc'[d] = rpc[d]
<1>1. ASSUME NEW r, rpc' = [rpc EXCEPT ![e] = r] PROVE rpc'[d] = rpc[d]
  BY <1>1 DEF Desk
<1>2. ASSUME NEW what, AnswerTo(e, what) PROVE rpc'[d] = rpc[d]
  BY <1>1, <1>2 DEF AnswerTo
<1>3. CASE Handle(e)
  <2>1. CASE HandleGetNode(e)
    BY <1>1, <2>1 DEF HandleGetNode
  <2>2. CASE ~HandleGetNode(e)
    <3>1. UNCHANGED rpc \/ \E what : AnswerTo(e, what)
      BY <1>3, <2>2 DEF Handle, HandleCreateNode, HandleUpdateNode, HandleDeleteNode,
         HandleGetNodesByFilter, HandleDeleteNodesByFilter, ProcessEnds
    <3> QED
      BY <1>2, <3>1
  <2> QED
    BY <2>1, <2>2
<1>4. CASE serving = e /\ Proceed
  <2>1. UNCHANGED rpc \/ \E what : AnswerTo(e, what)
    BY <1>4 DEF Proceed, HandleUpdateAdd, DeleteDescendants, DeleteNodesAnswers
  <2> QED
    BY <1>2, <2>1
<1>5. CASE ConnectionLost(e)
  BY <1>2, <1>5 DEF ConnectionLost
<1> QED
  BY <1>3, <1>4, <1>5 DEF ServerStep, By

(* The server, in the call of the command create: it finds the nodes of    *)
(* the path, or creates one, or does not answer.                           *)
LEMMA CreateAnswers ==
  ASSUME Desk, NEW c \in Consoles, job[c].doing \in {"find", "create"}, ServerStep(c)
  PROVE  \/ UNCHANGED pages /\ (rpc'[c] = rpc[c] \/ rpc'[c] = Answered(Failed))
         \/ /\ job[c].doing = "find" /\ rpc[c].stage = "called" /\ UNCHANGED pages
            /\ rpc'[c] = Answered(NodesResponse(Found(rpc[c].what.chain)))
         \/ /\ job[c].doing = "create" /\ rpc[c].stage = "called" /\ HandleCreateNode(c)
            /\ proc' = "idle" /\ Convertible(rpc[c].what.value)
            /\ rpc'[c] = Answered(NodeResponse(AssignedId))
<1>1. c \in Clients /\ JobFits(job[c], rpc[c])
  BY ClientsAssumption DEF Desk, JobsFit
<1>2. rpc[c].stage = "called" =>
        rpc[c].what.method = IF job[c].doing = "find" THEN "get_nodes_by_filter" ELSE "create_node"
  BY <1>1 DEF JobFits, CallOf
<1>3. ASSUME NEW what, AnswerTo(c, what) PROVE rpc'[c] = Answered(what)
  BY <1>1, <1>3 DEF AnswerTo, Desk
<1>4. CASE Handle(c)
  <2>1. HandleGetNodesByFilter(c) \/ HandleCreateNode(c)
    BY <1>2, <1>4 DEF Handle, HandleUpdateNode, HandleDeleteNode, HandleGetNode,
                      HandleDeleteNodesByFilter, Takes
  <2>2. CASE HandleGetNodesByFilter(c)
    <3> DEFINE found == Found(rpc[c].what.chain)
    <3>1. /\ rpc[c].stage = "called" /\ rpc[c].what.method = "get_nodes_by_filter" /\ UNCHANGED pages
          /\ UNCHANGED rpc \/ AnswerTo(c, NodesResponse(found))
      BY <2>2 DEF HandleGetNodesByFilter, Takes
    <3> HIDE DEF found
    <3>2. job[c].doing = "find"
      BY <1>2, <3>1
    <3>3. rpc'[c] = rpc[c] \/ rpc'[c] = Answered(NodesResponse(found))
      BY <1>3, <3>1
    <3> QED
      BY <3>1, <3>2, <3>3 DEF found
  <2>3. CASE HandleCreateNode(c)
    <3>1. rpc[c].stage = "called" /\ rpc[c].what.method = "create_node" /\ job[c].doing = "create"
      BY <1>2, <2>3 DEF HandleCreateNode, Takes
    <3>2. CASE ProcessEnds("exit")
      BY <3>2 DEF ProcessEnds
    <3>3. CASE /\ Convertible(rpc[c].what.value)
               /\ Doc!AddNode(rpc[c].what.parent, rpc[c].what.value)
               /\ IF proc' = "idle" THEN AnswerTo(c, NodeResponse(AssignedId)) ELSE UNCHANGED rpc
      <4>1. CASE proc' = "idle"
        BY <1>3, <2>3, <3>1, <3>3, <4>1
      <4>2. CASE proc' # "idle"
        BY <3>3, <4>2 DEF Doc!AddNode, Doc!Add
      <4> QED
        BY <4>1, <4>2
    <3> QED
      BY <2>3, <3>2, <3>3 DEF HandleCreateNode
  <2> QED
    BY <2>1, <2>2, <2>3
<1>5. CASE serving = c /\ Proceed
  <2>1. /\ proc \in {"update", "delete_tree"}
        /\ proc = "update" => HandleUpdateAdd
    BY <1>5 DEF Proceed, HandleUpdateAdd, DeleteDescendants, DeleteNodesAnswers,
       Doc!CountChildren, Doc!Descend, Doc!DeleteTop, Doc!DeleteTreesReturns
  <2> QED
    BY <1>2, <1>5, <2>1 DEF Desk, ServingOK
<1>6. CASE ConnectionLost(c)
  <2>1. rpc'[c] = Answered(Failed)
    BY <1>3, <1>6 DEF ConnectionLost
  <2> QED
    BY <1>6, <2>1 DEF ConnectionLost, document
<1> QED
  BY <1>4, <1>5, <1>6 DEF ServerStep, By

(* What a console has been answered, and what it asks for next, is among   *)
(* the nodes of its path.                                                  *)
LEMMA ServerFinds ==
  ASSUME CInv, [Next]_vars, Watched, Finding, NEW c \in Clients, ServerStep(c)
  PROVE  Finding'
<1>1. Desk /\ UNCHANGED job
  BY DEF CInv, ServerStep, By
<1>2. meanwhile' = [d \in Consoles |-> IF d = c THEN meanwhile[d] ELSE Worse(d)]
  BY DEF ServerStep, By
<1>3. ASSUME NEW d \in Consoles PROVE FindFits(job[d], rpc[d], Worst(d))'
  <2>1. FindFits(job[d], rpc[d], Worst(d)) /\ job'[d] = job[d] /\ d \in Clients
    BY <1>1, ClientsAssumption DEF Finding
  <2>2. Gone(d) => Gone(d)'
    BY StaysGone
  <2>3. CASE d # c
    <3>1. rpc'[d] = rpc[d]
      BY <1>1, <2>1, <2>3, OnlyItsOwn
    <3>2. meanwhile'[d] = Worse(d)
      BY <1>2, <2>3
    <3> QED
      BY <2>1, <2>2, <3>1, <3>2, WorseIs, OthersFind
  <2>4. CASE d = c
    <3>1. Worst(d)' # "losses" => Worst(d) # "losses"
      BY <1>2, <2>4, <2>2 DEF Worst
    <3>2. CASE job[d].doing \notin {"find", "create"}
      BY <2>1, <3>2, OtherwiseFits DEF FindFits
    <3>3. CASE UNCHANGED pages /\ (rpc'[d] = rpc[d] \/ rpc'[d] = Answered(Failed))
      BY <2>1, <3>1, <3>3, OthersFind
    <3>4. CASE /\ job[d].doing = "find" /\ rpc[d].stage = "called" /\ UNCHANGED pages
               /\ rpc'[d] = Answered(NodesResponse(Found(rpc[d].what.chain)))
      <4>1. rpc[d].what.chain = ParentChain(job[d].path) /\ IsTypedPath(job[d].path)
        BY <2>1, <3>4 DEF FindFits, GetNodes
      <4>2. PICK chain : chain = ParentChain(job[d].path)
        OBVIOUS
      <4>3. Found(chain)' = Found(chain)
        BY <3>4 DEF Found, Nodes, Conditions
      <4>4. rpc'[d].stage = "answered" /\ rpc'[d].what.ids = Found(chain)
        BY <3>4, <4>1, <4>2 DEF Answered, Rpc, NodesResponse
      <4>5. Found(ParentChain(job[d].path))' = Found(chain)
        BY <2>1, <4>2, <4>3
      <4> QED
        BY <2>1, <3>4, <4>1, <4>4, <4>5 DEF FindFits
    <3>5. CASE /\ job[d].doing = "create" /\ rpc[d].stage = "called"
               /\ rpc'[d] = Answered(NodeResponse(AssignedId))
      BY <2>1, <3>5 DEF FindFits, Answered, Rpc
    <3> QED
      BY <1>1, <2>4, <3>2, <3>3, <3>4, <3>5, CreateAnswers
  <2> QED
    BY <2>3, <2>4
<1> QED
  BY <1>3 DEF Finding

(* Every step keeps what the command create knows.  The cases are those of *)
(* Next.                                                                   *)
LEMMA FindingStep ==
  ASSUME CInv, [Next]_vars, Watched, Finding
  PROVE  Finding'
<1>1. Desk
  BY DEF CInv
<1>2. ASSUME NEW d \in Consoles, job'[d] = job[d], rpc'[d] = rpc[d] \/ rpc'[d] = Answered(Failed),
             \/ UNCHANGED pages /\ Worst(d)' = Worst(d)
             \/ meanwhile'[d] = Worse(d) /\ (Gone(d) => Gone(d)')
      PROVE  FindFits(job[d], rpc[d], Worst(d))'
  BY <1>2, WorseIs, OthersFind DEF Finding
<1>3. ASSUME UNCHANGED vars PROVE Finding'
  BY <1>2, <1>3 DEF vars, serverVars, links, document, clientVars, Finding, Worst, Gone
<1>4. ASSUME NEW c \in Callers, NEW raw \in RawRequests, RawCall(c, raw) PROVE Finding'
  <2>1. \A d \in Consoles : d \in Clients /\ d # c
    BY ClientsAssumption
  <2>2. UNCHANGED <<pages, job, meanwhile>> /\ rpc' = [rpc EXCEPT ![c] = Called(raw)] /\ Apart(c)
    BY <1>4 DEF RawCall, Call, ServerWaits, Apart, document
  <2>3. \A d \in Consoles : rpc'[d] = rpc[d]
    BY <1>1, <2>1, <2>2 DEF Desk
  <2> QED
    BY <1>2, <2>1, <2>2, <2>3, WorstStays DEF Finding
<1>5. ASSUME By(Nobody, Kill \/ Restart) PROVE Finding'
  <2>1. \A d \in Consoles : d \in Clients /\ d # Nobody
    BY ClientsAssumption
  <2>2. UNCHANGED job /\ \A d \in Consoles : meanwhile'[d] = Worse(d)
    BY <1>5, <2>1 DEF By
  <2>3. UNCHANGED rpc
    BY <1>5 DEF By, Kill, Restart
  <2>4. \A d \in Consoles : Gone(d) => Gone(d)'
    BY <1>5, StaysGone DEF By
  <2> QED
    BY <1>2, <2>2, <2>3, <2>4 DEF Finding
<1> QED
  BY <1>3, <1>4, <1>5, ConsoleStepFinds, ServerFinds DEF Next

(* A console is answered by a step of the server for it, unless its call   *)
(* has failed.                                                             *)
LEMMA AnswerComes ==
  ASSUME Desk, [Next]_vars, NEW c \in Consoles, rpc[c].stage = "called",
         rpc'[c].stage = "answered", rpc'[c].what # Failed
  PROVE  ServerStep(c)
<1>1. rpc'[c] # rpc[c] /\ c \in Clients
  BY ClientsAssumption
<1>2. ASSUME NEW d \in Clients, NEW r, rpc' = [rpc EXCEPT ![d] = r] PROVE d = c
  BY <1>1, <1>2 DEF Desk
<1>3. ASSUME NEW d \in Consoles,
             \/ \E command \in Commands : TypeCommand(d, command)
             \/ TypeInit(d, InitLines) \/ TypeInit(d, ExampleLines)
             \/ Leave(d) \/ Start(d) \/ Receive(d)
      PROVE  FALSE
  <2>1. d # c
    <3>1. JobFits(job[c], rpc[c]) /\ rpc[c] # NoCall
      BY DEF Desk, JobsFit, NoCall, Rpc
    <3>2. job[c].doing \notin {"prompt", "dead"}
      BY <3>1 DEF JobFits, Work, Prompt, Dead
    <3> QED
      BY <1>3, <3>2 DEF Start, TypeCommand, TypeInit, Leave, Typed, Does, Receive, GetResponse, FindResponse,
         CreateResponse, DeleteResponse, ClearResponse, FillResponse, Receives
  <2>2. UNCHANGED rpc \/ \E r : rpc' = [rpc EXCEPT ![d] = r]
    BY <1>3 DEF Start, TypeCommand, TypeInit, Leave, Call, Receive, GetResponse, FindResponse, CreateResponse,
       DeleteResponse, ClearResponse, FillResponse, FillNext, Return
  <2>3. d \in Clients
    BY ClientsAssumption
  <2> QED
    BY <1>1, <1>2, <2>1, <2>2, <2>3
<1>4. ASSUME NEW d \in Callers, NEW raw \in RawRequests, RawCall(d, raw) PROVE FALSE
  BY <1>2, <1>4, ClientsAssumption DEF RawCall, Call
<1>5. ASSUME NEW d \in Clients, ServerStep(d) PROVE d = c
  BY <1>1, <1>5, OnlyItsOwn
<1>6. ASSUME By(Nobody, Kill \/ Restart) PROVE FALSE
  BY <1>1, <1>6 DEF By, Kill, Restart
<1>7. ~UNCHANGED vars
  BY <1>1 DEF vars, serverVars
<1> QED
  BY <1>3, <1>4, <1>5, <1>6, <1>7 DEF Next

(* The parent of the new node is there, so that the node is accepted.      *)
LEMMA CreatedIs ==
  ASSUME CInv, NEW c \in Consoles, HandleCreateNode(c), proc' = "idle",
         Convertible(rpc[c].what.value), rpc[c].what.parent \in DOMAIN Nodes
  PROVE  \E x \in ItemsOf(pages') \ ItemsOf(pages) :
           /\ ItemAt(pages', x).parent = rpc[c].what.parent
           /\ ItemAt(pages', x).value = rpc[c].what.value
<1> DEFINE p == rpc[c].what.parent
           v == rpc[c].what.value
<1>1. c \in Clients /\ rpc[c].stage = "called" /\ rpc[c].what.method = "create_node"
  BY ClientsAssumption DEF HandleCreateNode, Takes
<1>2. v \in Values
  BY <1>1 DEF CInv, Desk, RequestsOK, RequestOK
<1>3. Doc!AddNode(p, v)
  BY DEF HandleCreateNode, ProcessEnds
<1>4. p \in DP!Nodes /\ p \in DP!NodeIds /\ p # DP!NullId /\ DP!Shape
  <2>1. p \in Nat \X Nat
    BY NodesAre DEF CInv
  <2> HIDE DEF p
  <2>2. p # DP!NullId
    BY <2>1 DEF DP!NullId
  <2> QED
    BY <2>2, NodesAre, SameParts DEF CInv, DP!DocumentInv, DP!IndShape, p
<1> HIDE DEF p, v
<1>5. Doc!HasRoom /\ Doc!Add(p, v)
  BY <1>3 DEF Doc!AddNode
<1>6. Doc!Sought(p) = {p} /\ p # Doc!NullId
  BY <1>4, SameParts DEF DP!Sought
<1>7. Doc!Accepts(p) \/ Doc!Trips(pages, Doc!Sought(p))
  BY <1>6 DEF Doc!Accepts, Doc!Trips, Doc!Finds
<1>8. Doc!Persist(Doc!Node(p, v))
  BY <1>5, <1>7 DEF Doc!Add
<1>9. DP!HasRoom /\ DP!Persist(DP!Node(p, v)) /\ DP!Node(p, v) \in DP!NodeRecs
  BY <1>2, <1>4, <1>5, <1>8, SameParts DEF DP!NodeRecs, DP!Node
<1>10. PICK n \in DP!NodeIds :
         n \notin DP!Nodes /\ DP!Nodes' = DP!Nodes \cup {n} /\ DP!ItemAt(pages', n) = DP!Node(p, v)
  BY <1>4, <1>9, DP!Persisted, ServerAssumption, CapacityAssumption
<1>11. DP!Nodes = ItemsOf(pages) /\ DP!Nodes' = ItemsOf(pages')
  BY SameScans DEF DP!Nodes
<1>12. ItemAt(pages', n).parent = p /\ ItemAt(pages', n).value = v
  BY <1>10, SameScans DEF DP!Node
<1> QED
  BY <1>10, <1>11, <1>12 DEF p, v

(* The node that the command create adds (client/helpers.c) is below a     *)
(* node that the path leads to when it is added, and has the value that    *)
(* was typed, unless others removed nodes between the two calls of the     *)
(* command: others only add nodes behind those that are there, and the     *)
(* first that a condition finds stays the first.                           *)
THEOREM CreatesWhereAsked == Spec => CreatesUnderThePath
<1>1. Init => Watched /\ Finding
  BY DEF Init, Watched, Finding, FindFits, Prompt
<1>2. CInv /\ Watched /\ Finding /\ [Next]_vars => Watched' /\ Finding'
  BY WatchedStep, FindingStep
<1>3. CInv /\ Finding /\ [Next]_vars =>
        [\A c \in Consoles :
           Does(c, "create") /\ rpc[c].stage = "called" /\ rpc'[c].stage = "answered"
             /\ meanwhile[c] # "losses" /\ rpc'[c].what # Failed
             /\ (\A i \in DOMAIN job[c].path : job[c].path[i].name # RootName)
           => \E x \in ItemsOf(pages') \ ItemsOf(pages) :
                /\ ItemAt(pages', x).parent \in Answer(Nodes, Conditions(PathChain(job[c].path)))
                /\ ItemAt(pages', x).value = StringValue(job[c].value)]_vars
  <2> SUFFICES ASSUME CInv, Finding, [Next]_vars, NEW c \in Consoles,
                      Does(c, "create"), rpc[c].stage = "called", rpc'[c].stage = "answered",
                      meanwhile[c] # "losses", rpc'[c].what # Failed,
                      \A i \in DOMAIN job[c].path : job[c].path[i].name # RootName
               PROVE  \E x \in ItemsOf(pages') \ ItemsOf(pages) :
                        /\ ItemAt(pages', x).parent \in Answer(Nodes, Conditions(PathChain(job[c].path)))
                        /\ ItemAt(pages', x).value = StringValue(job[c].value)
    OBVIOUS
  <2>1. Desk /\ job[c].doing = "create" /\ ServerStep(c)
    BY AnswerComes DEF CInv, Does
  <2>2. HandleCreateNode(c) /\ proc' = "idle" /\ Convertible(rpc[c].what.value)
    <3>1. rpc'[c] # rpc[c] /\ rpc'[c] # Answered(Failed)
      BY DEF Answered, Rpc
    <3> QED
      BY <2>1, <3>1, CreateAnswers
  <2>3. Worst(c) # "losses"
    BY <2>2 DEF HandleCreateNode, Takes, Worst, Gone, Ended, Doc!Endings
  <2>4. /\ rpc[c].what.value = StringValue(job[c].value)
        /\ rpc[c].what.parent \in Found(ParentChain(job[c].path))
        /\ IsTypedPath(job[c].path)
    BY <2>1, <2>3 DEF Finding, FindFits
  <2>5. ParentChain(job[c].path) = PathChain(job[c].path)
    BY <2>4, ParsedNames DEF ParentChain
  <2>6. rpc[c].what.parent \in Answer(Nodes, Conditions(PathChain(job[c].path)))
    BY <2>4, <2>5 DEF Found
  <2>7. rpc[c].what.parent \in DOMAIN Nodes
    BY <2>6, BelowIs DEF Answer
  <2> QED
    BY <2>2, <2>4, <2>6, <2>7, CreatedIs
<1> QED
  BY <1>1, <1>2, <1>3, ProgramInvariant, PTL DEF Spec, CreatesUnderThePath

-----------------------------------------------------------------------------
(* What init leaves behind.  A file is `f', and `worst' what others did to *)
(* it since the command was typed.                                         *)

(* The ids that the lines have whose calls are over. *)
Given(j, r) ==
  IF j.doing = "fill" /\ r.stage = "answered" THEN Append(j.ids, r.what.id) ELSE j.ids

(* Others did no more than init puts up with: nothing, if the file was new *)
(* and init was alone with it; or they only added, if there were no nodes  *)
(* and the lines are not the example's.                                    *)
Undisturbed(j, worst) ==
  \/ j.onto = <<NewPage(0)>> /\ worst = "nothing"
  \/ j.lines # ExampleLines /\ ItemsOf(j.onto) = {} /\ worst # "losses"

NodeOfLine(f, line, ids, id) ==
  id \in ItemsOf(f) /\ ItemAt(f, id) = Doc!Node(ParentOf(line, ids), line.value)

(* The node of the first line may be one of somebody else. *)
NodeOfOthers(f, worst, k, id) ==
  k = 1 /\ worst = "adds" /\ id = Doc!RootId /\ id \in ItemsOf(f)

(* Each line has a node, and no two lines have the same. *)
Built(f, lines, ids, worst) ==
  /\ \A k \in DOMAIN ids :
       NodeOfLine(f, lines[k], ids, ids[k]) \/ NodeOfOthers(f, worst, k, ids[k])
  /\ \A k, l \in DOMAIN ids : ids[k] = ids[l] => k = l

(* In a new file the first two nodes have the ids that the example names. *)
ExampleBegun(f, ids) ==
  /\ Len(ids) >= 1 => ids[1] = <<0, 0>>
  /\ Len(ids) = 1 => Len(f) = 1 /\ f[1].next = 1
  /\ Len(ids) >= 2 => ids[2] = <<0, 1>>

(* While others do nothing, the first line is written to the file that was *)
(* there when the command was typed.                                       *)
Begun(f, onto, ids, worst) ==
  worst = "nothing" =>
    /\ Len(ids) = 0 => f = onto
    /\ onto = <<NewPage(0)>> => ExampleBegun(f, ids)

(* What init knows: its calls are the ones of its lines, the server is not *)
(* in a deletion for it, which finds nothing, and as long as it is         *)
(* undisturbed and connected it has answers to all its lines, and no       *)
(* deleted item is in its way.                                             *)
FillFits(c) ==
  /\ meanwhile[c] \in {"nothing", "adds", "losses"}
  /\ job[c].doing = "clear" =>
       /\ proc = "delete_tree" => serving # c
       /\ rpc[c].stage = "called" => rpc[c].what = DeleteNodes(<<>>)
  /\ job[c].doing = "fill" /\ rpc[c].stage = "called" =>
       \E line \in {job[c].lines[Len(job[c].ids) + 1]} :
         rpc[c].what = CreateNode(ParentOf(line, job[c].ids), line.value)
  /\ job[c].doing \in {"clear", "fill"} /\ Undisturbed(job[c], Worst(c)) =>
       /\ Obstacles(pages) = {}
       /\ job[c].doing = "fill" /\ rpc[c].stage = "answered" => rpc[c].what # Failed
       /\ \E ids \in {Given(job[c], rpc[c])} :
            /\ Built(pages, job[c].lines, ids, Worst(c))
            /\ Begun(pages, job[c].onto, ids, Worst(c))

Filling == \A c \in Consoles : FillFits(c)

(* The parent of a line is the node of a line before it, but for the first *)
(* line, and the example, which names the ids of its first two nodes.      *)
LEMMA LineParents ==
  ASSUME NEW lines \in {InitLines, ExampleLines}, NEW k \in 1..Len(lines), lines[k].entry = 0
  PROVE  \/ k = 1 /\ lines[k].id = NoNode
         \/ lines = ExampleLines /\ k >= 2 /\ lines[k].id = <<0, 0>>
         \/ lines = ExampleLines /\ k >= 3 /\ lines[k].id = <<0, 1>>
<1>1. CASE lines = InitLines
  BY <1>1, LinesAre, LinesAssumption
<1>2. CASE lines = ExampleLines
  <2>1. Len(lines) = 5 /\ k \in 1..5
    BY <1>2 DEF ExampleLines
  <2>2. CASE k = 1
    BY <1>2, <2>2 DEF ExampleLines, Line
  <2>3. CASE k = 2
    BY <1>2, <2>3 DEF ExampleLines, Line
  <2>4. CASE k = 3
    BY <1>2, <2>4 DEF ExampleLines, Line
  <2>5. CASE k = 4
    BY <1>2, <2>5 DEF ExampleLines, Line
  <2>6. CASE k = 5
    BY <1>2, <2>6 DEF ExampleLines, Line
  <2> QED
    BY <2>1, <2>2, <2>3, <2>4, <2>5, <2>6
<1> QED
  BY <1>1, <1>2

(* A new file has no nodes and no deleted items. *)
LEMMA NewFileIs ==
  ItemsOf(<<NewPage(0)>>) = {} /\ Obstacles(<<NewPage(0)>>) = {}
<1>1. \A k \in DOMAIN <<NewPage(0)>> :
        DOMAIN <<NewPage(0)>>[k].live = {} /\ Tombstones(<<NewPage(0)>>[k]) = {}
  BY DEF NewPage, NoItems, Tombstones
<1>2. \A k \in Visible(<<NewPage(0)>>) : Tombstones(<<NewPage(0)>>[k]) = {}
  BY <1>1 DEF Visible
<1> QED
  BY <1>1, <1>2 DEF ItemsOf, Obstacles

(* Nor has a file without nodes deleted items. *)
LEMMA EmptyIsClear ==
  ASSUME CInv, ItemsOf(pages) = {}
  PROVE  Obstacles(pages) = {}
<1>1. DP!ObstaclesSeen
  BY DEF CInv, DP!DocumentInv, DP!IndObstacles
<1> QED
  BY <1>1, DP!EmptyIsClear, SameScans, ServerAssumption, CapacityAssumption DEF DP!Nodes

(* An empty chain finds nothing, and no filter of it ends the server. *)
LEMMA NothingAsked ==
  Found(<<>>) = {} /\ Asked(<<>>) = "idle"
<1> DEFINE path == Conditions(<<>>)
<1>1. DOMAIN path = {} /\ path = <<>>
  BY DEF Conditions
<1>2. ~Rejects(<<>>)
  BY DEF Rejects
<1> HIDE DEF path
<1>3. ~Crashes(Nodes, path)
  BY <1>1 DEF Crashes
<1>4. Answer(Nodes, path) = {}
  BY <1>1 DEF Answer
<1> QED
  BY <1>2, <1>3, <1>4 DEF Found, Asked, path

(* An id behind the others. *)
LEMMA LongerIs ==
  ASSUME NEW ids, IsChain(ids), NEW n
  PROVE  /\ IsChain(Append(ids, n)) /\ Len(Append(ids, n)) = Len(ids) + 1
         /\ \A k \in 1..Len(ids) : Append(ids, n)[k] = ids[k]
         /\ Append(ids, n)[Len(ids) + 1] = n
<1>1. Len(ids) \in Nat /\ DOMAIN ids = 1..Len(ids)
  BY DEF IsChain
<1>2. /\ DOMAIN Append(ids, n) = 1..Len(ids) + 1 /\ Append(ids, n)[Len(ids) + 1] = n
      /\ \A k \in 1..Len(ids) : Append(ids, n)[k] = ids[k]
  BY <1>1
<1>3. Len(Append(ids, n)) = Len(ids) + 1
  BY <1>1
<1> QED
  BY <1>1, <1>2, <1>3 DEF IsChain

(* Different ids are as many as there are places. *)
LEMMA DifferentAre ==
  ASSUME NEW ids, IsChain(ids), \A k, l \in DOMAIN ids : ids[k] = ids[l] => k = l
  PROVE  Cardinality({ids[k] : k \in DOMAIN ids}) = Len(ids)
<1> DEFINE n == Len(ids)
           S == {ids[k] : k \in DOMAIN ids}
           f == [k \in 1..n |-> ids[k]]
<1>1. n \in Nat /\ DOMAIN ids = 1..n
  BY DEF IsChain
<1>2. f \in [1..n -> S]
  BY <1>1
<1>3. \A k, l \in 1..n : f[k] = f[l] => k = l
  BY <1>1
<1>4. \A x \in S : \E k \in 1..n : f[k] = x
  BY <1>1
<1> HIDE DEF f, S, n
<1>5. f \in Bijection(1..n, S)
  BY <1>2, <1>3, <1>4 DEF Bijection, Injection, IsInjective, Surjection
<1>6. ExistsBijection(1..n, S)
  BY <1>5 DEF ExistsBijection
<1>7. Cardinality(S) = n
  BY <1>1, <1>6, FS_CountingElements
<1> QED
  BY <1>7 DEF S, n

(* Nodes that come do not change those that lines have. *)
LEMMA BuiltStays ==
  ASSUME NEW f, NEW g, NEW lines, NEW ids, NEW w, NEW v, Built(f, lines, ids, w),
         ItemsOf(f) \subseteq ItemsOf(g), \A x \in ItemsOf(f) : ItemAt(g, x) = ItemAt(f, x),
         w = "adds" => v = "adds"
  PROVE  Built(g, lines, ids, v)
  BY DEF Built, NodeOfLine, NodeOfOthers

(* A node for the next line, that was not there before. *)
LEMMA BuiltOn ==
  ASSUME NEW lines \in {InitLines, ExampleLines}, NEW ids, IsChain(ids), Len(ids) < Len(lines),
         NEW f, NEW g, NEW w, Built(f, lines, ids, w),
         ItemsOf(f) \subseteq ItemsOf(g), \A x \in ItemsOf(f) : ItemAt(g, x) = ItemAt(f, x),
         NEW n, n \notin ItemsOf(f), NodeOfLine(g, lines[Len(ids) + 1], ids, n)
  PROVE  Built(g, lines, Append(ids, n), w)
<1> DEFINE more == Append(ids, n)
           l == Len(ids) + 1
<1>1. /\ IsChain(more) /\ Len(more) = l /\ more[l] = n /\ Len(ids) \in Nat /\ l \in 1..Len(lines)
      /\ DOMAIN more = 1..l /\ DOMAIN ids = 1..Len(ids)
      /\ \A k \in 1..Len(ids) : more[k] = ids[k]
  BY LongerIs, LinesAre DEF IsChain
<1> HIDE DEF more, l
<1>2. \A k \in 1..l : k # l => k \in 1..Len(ids)
  BY <1>1 DEF l
<1>3. ASSUME NEW k \in 1..l PROVE ParentOf(lines[k], more) = ParentOf(lines[k], ids)
  <2>1. k \in 1..Len(lines)
    <3>1. Len(lines) \in Nat
      BY LinesAre
    <3> QED
      BY <1>1, <3>1
  <2>2. lines[k].entry \in 0..k - 1
    BY <2>1, LinesAre
  <2>3. lines[k].entry = 0 \/ lines[k].entry \in 1..Len(ids)
    BY <1>1, <2>2 DEF l
  <2> QED
    BY <1>1, <2>3 DEF ParentOf
<1>4. Built(g, lines, ids, w)
  BY BuiltStays
<1>5. ASSUME NEW k \in DOMAIN more
      PROVE  NodeOfLine(g, lines[k], more, more[k]) \/ NodeOfOthers(g, w, k, more[k])
  <2>1. CASE k = l
    BY <1>1, <1>3, <2>1 DEF NodeOfLine, l
  <2>2. CASE k # l
    BY <1>1, <1>2, <1>3, <1>4, <2>2 DEF Built, NodeOfLine
  <2> QED
    BY <2>1, <2>2
<1>6. \A k \in DOMAIN ids : ids[k] # n
  BY DEF Built, NodeOfLine, NodeOfOthers
<1>7. \A j, k \in DOMAIN more : more[j] = more[k] => j = k
  BY <1>1, <1>2, <1>6 DEF Built
<1> QED
  BY <1>5, <1>7 DEF Built, more

(* Or the answer for the first is the node somebody else has added. *)
LEMMA BuiltOnOthers ==
  ASSUME NEW ids, IsChain(ids), Len(ids) = 0, NEW f, NEW lines, Doc!RootId \in ItemsOf(f)
  PROVE  Built(f, lines, Append(ids, Doc!RootId), "adds")
<1> DEFINE more == Append(ids, Doc!RootId)
<1>1. DOMAIN more = 1..1 /\ more[1] = Doc!RootId
  BY LongerIs DEF IsChain
<1> HIDE DEF more
<1> QED
  BY <1>1 DEF Built, NodeOfOthers, more

(* A step that loses no node leaves a file without deleted items without,  *)
(* and the nodes what they are.                                            *)
LEMMA StaysClear ==
  ASSUME CInv, [Next]_vars, ItemsOf(pages) \subseteq ItemsOf(pages'), Obstacles(pages) = {}
  PROVE  /\ Obstacles(pages') = {}
         /\ \A x \in ItemsOf(pages) : ItemAt(pages', x) = ItemAt(pages, x)
<1>1. /\ DP!Shape /\ DP!UpdateReady /\ DP!DocumentInv /\ DP!ObstaclesSeen
  BY DEF CInv, DP!DocumentInv, DP!IndShape, DP!IndObstacles
<1>2. DP!Nodes = ItemsOf(pages) /\ DP!Nodes' = ItemsOf(pages')
  BY SameScans DEF DP!Nodes
<1>3. CASE UNCHANGED pages
  BY <1>3
<1>4. CASE DP!Grows
  <2>1. DP!Obstacles(pages') = DP!Obstacles(pages)
    BY <1>1, <1>4, DP!GrowsKeepsObstacles, ServerAssumption, CapacityAssumption
  <2>2. \A x \in DP!Nodes : DP!ItemAt(pages', x) = DP!ItemAt(pages, x)
    BY <1>1, <1>4, DP!GrowsIs, ServerAssumption, CapacityAssumption
  <2> QED
    BY <1>2, <2>1, <2>2, SameScans
<1>5. CASE DP!Shrinks
  <2>1. PICK x \in DP!Nodes : DP!Erase(x)
    BY <1>5 DEF DP!Shrinks
  <2>2. DP!Nodes' = DP!Nodes \ {x}
    BY <1>1, <2>1, DP!Removed, ServerAssumption, CapacityAssumption
  <2> QED
    BY <1>2, <2>1, <2>2
<1>6. CASE DP!Init'
  <2>1. pages' = <<NewPage(0)>>
    BY <1>6, SamePages DEF DP!Init
  <2>2. ItemsOf(pages') = {} /\ Obstacles(pages') = {}
    BY <2>1, NewFileIs
  <2> QED
    BY <2>2
<1>7. CASE [DP!Next]_(DP!vars)
  <2>1. DP!Grows \/ DP!Shrinks \/ UNCHANGED pages
    BY <1>1, <1>7, DP!StepIs, ServerAssumption, CapacityAssumption
  <2> QED
    BY <1>3, <1>4, <1>5, <2>1
<1> QED
  BY <1>6, <1>7, StepServes DEF Serves

(* What others do to init, and what it may still rely on. *)
LEMMA WorseKeeps ==
  ASSUME NEW d, meanwhile'[d] = Worse(d), Gone(d) => Gone(d)', Worst(d)' # "losses"
  PROVE  /\ Worst(d) # "losses" /\ ItemsOf(pages) \subseteq ItemsOf(pages')
         /\ Worst(d) = "adds" => Worst(d)' = "adds"
         /\ Worst(d)' = "nothing" => pages' = pages /\ Worst(d) = "nothing"
  BY WorseIs DEF Worse

(* The call of a line, when no deleted item is in its way: the node is     *)
(* added with a new id if its parent is there, or it is the first root and *)
(* no node has its id.                                                     *)
LEMMA LineIsAdded ==
  ASSUME CInv, NEW c \in Consoles, HandleCreateNode(c), Obstacles(pages) = {},
         NEW p, NEW v \in Values, Convertible(v), rpc[c].what = CreateNode(p, v),
         p \in ItemsOf(pages) \/ (p = NoNode /\ Doc!RootId \notin ItemsOf(pages))
  PROVE  /\ proc' = "idle" /\ DP!Persist(DP!Node(p, v))
         /\ \E n : /\ n = DP!NewId /\ n \notin ItemsOf(pages)
                   /\ ItemsOf(pages') = ItemsOf(pages) \cup {n}
                   /\ ItemAt(pages', n) = Doc!Node(p, v)
                   /\ \A x \in ItemsOf(pages) : ItemAt(pages', x) = ItemAt(pages, x)
                   /\ rpc'[c] = Answered(NodeResponse(n))
<1>1. /\ c \in Clients /\ rpc = [d \in Clients |-> rpc[d]] /\ DP!DocumentInv /\ DP!Shape
  BY ClientsAssumption DEF CInv, Desk, DP!DocumentInv, DP!IndShape
<1>2. rpc[c].what.parent = p /\ rpc[c].what.value = v
  BY DEF CreateNode
<1>3. /\ Doc!HasRoom /\ Doc!Add(p, v)
      /\ proc' = "idle" => AnswerTo(c, NodeResponse(AssignedId))
  BY <1>2 DEF HandleCreateNode, Doc!AddNode
<1>4. ItemsOf(pages) = DP!Nodes /\ DP!Nodes \subseteq DP!NodeIds /\ DP!NodeIds \subseteq Nat \X Nat
  BY <1>1, NodesAre, SameParts, SameScans DEF DP!Nodes
<1>5. ~Doc!Trips(pages, Doc!Sought(p))
  BY SameScans DEF Trips
<1>6. Doc!Accepts(p) /\ p \in DP!NodeIds \cup {DP!NullId}
  <2>1. CASE p \in ItemsOf(pages)
    <3>1. p \in Nat \X Nat
      BY <1>4, <2>1
    <3>2. p # NoNode
      BY <3>1 DEF NoNode
    <3>3. Doc!Sought(p) = {p}
      BY <1>4, <2>1, <3>2, SameParts DEF DP!Sought
    <3>4. Doc!Finds(pages, Doc!Sought(p))
      BY <3>3, SameScans DEF Finds
    <3> QED
      BY <1>4, <2>1, <3>2, <3>4, SameParts DEF Doc!Accepts
  <2>2. CASE p = NoNode /\ Doc!RootId \notin ItemsOf(pages)
    <3>1. Doc!Sought(p) = {}
      BY <1>4, <2>2, SameParts DEF DP!Sought
    <3>2. Doc!Ends(pages, Doc!Sought(p))
      BY <3>1, SameScans DEF Ends
    <3> QED
      BY <2>2, <3>2, SameParts DEF Doc!Accepts
  <2> QED
    BY <2>1, <2>2
<1>7. proc' = "idle" /\ Doc!Persist(Doc!Node(p, v))
  BY <1>3, <1>5, <1>6 DEF Doc!Add
<1>8. DP!HasRoom /\ DP!Persist(DP!Node(p, v)) /\ DP!Node(p, v) \in DP!NodeRecs
  BY <1>3, <1>6, <1>7, SameParts DEF DP!NodeRecs, DP!Node
<1>9. PICK n \in DP!NodeIds :
        /\ n = DP!NewId /\ n \notin DP!Nodes /\ DP!Nodes' = DP!Nodes \cup {n}
        /\ DP!ItemAt(pages', n) = DP!Node(p, v)
        /\ \A x \in DP!Nodes : DP!ItemAt(pages', x) = DP!ItemAt(pages, x)
  BY <1>1, <1>8, DP!Persisted, ServerAssumption, CapacityAssumption
<1>10. /\ n \notin ItemsOf(pages) /\ ItemsOf(pages') = ItemsOf(pages) \cup {n}
       /\ ItemAt(pages', n) = Doc!Node(p, v)
       /\ \A x \in ItemsOf(pages) : ItemAt(pages', x) = ItemAt(pages, x)
  BY <1>4, <1>9, SameScans, SameParts DEF DP!Nodes
<1>11. AssignedId = n
  <2>1. pages' # pages
    BY <1>10
  <2>2. \A x \in ItemsOf(pages') : x \notin ItemsOf(pages) <=> x = n
    BY <1>10
  <2> QED
    BY <1>10, <2>1, <2>2 DEF AssignedId
<1>12. rpc'[c] = Answered(NodeResponse(n))
  BY <1>1, <1>3, <1>7, <1>11 DEF AnswerTo
<1> QED
  BY <1>7, <1>8, <1>9, <1>10, <1>12

(* A root beside the node with ROOT_NODE_ID is not added, and the answer   *)
(* names that node.                                                        *)
LEMMA RootIsRefused ==
  ASSUME CInv, NEW c \in Consoles, HandleCreateNode(c), Obstacles(pages) = {},
         NEW v, Convertible(v), rpc[c].what = CreateNode(NoNode, v),
         Doc!RootId \in ItemsOf(pages)
  PROVE  proc' = "idle" /\ UNCHANGED pages /\ rpc'[c] = Answered(NodeResponse(Doc!RootId))
<1>1. c \in Clients /\ rpc = [d \in Clients |-> rpc[d]]
  BY ClientsAssumption DEF CInv, Desk
<1>2. rpc[c].what.parent = NoNode /\ rpc[c].what.value = v
  BY DEF CreateNode
<1>3. /\ Doc!Add(NoNode, v)
      /\ proc' = "idle" => AnswerTo(c, NodeResponse(AssignedId))
  BY <1>2 DEF HandleCreateNode, Doc!AddNode
<1>4. ~Doc!Trips(pages, Doc!Sought(NoNode))
  BY SameScans DEF Trips
<1>5. ~Doc!Accepts(NoNode)
  <2>1. ItemsOf(pages) = DOMAIN Nodes
    BY DEF Nodes
  <2>2. Doc!Sought(NoNode) = {Doc!RootId}
    BY <2>1, SameParts DEF Doc!Sought
  <2> QED
    BY <2>2, SameParts DEF Doc!Accepts, Doc!Ends
<1>6. proc' = "idle" /\ UNCHANGED pages
  BY <1>3, <1>4, <1>5 DEF Doc!Add
<1>7. AssignedId = Doc!RootId
  BY <1>6 DEF AssignedId
<1> QED
  BY <1>1, <1>3, <1>6, <1>7 DEF AnswerTo

(* The first two nodes of a new file have the ids that the example names.  *)
LEMMA ExampleGoesOn ==
  ASSUME CInv, NEW node, DP!Persist(node), NEW ids, IsChain(ids),
         Len(ids) = 0 => pages = <<NewPage(0)>>, ExampleBegun(pages, ids)
  PROVE  ExampleBegun(pages', Append(ids, DP!NewId))
<1> DEFINE more == Append(ids, DP!NewId)
<1>1. /\ IsChain(more) /\ Len(more) = Len(ids) + 1 /\ more[Len(ids) + 1] = DP!NewId
      /\ \A k \in 1..Len(ids) : more[k] = ids[k]
  BY LongerIs
<1>2. Len(ids) \in Nat /\ Capacity > 1 /\ Capacity \in Nat
  BY RoomAssumption, CapacityAssumption DEF IsChain
<1> HIDE DEF more
<1>3. CASE Len(ids) = 0
  <2>1. Len(pages) = 1 /\ pages[1] = NewPage(0)
    BY <1>3
  <2>2. DP!FreePage.room > 0 /\ DP!FreePage.next = 0
    BY <1>2, <2>1 DEF DP!FreePage, NewPage
  <2>3. DP!NewId = <<0, 0>>
    BY <2>1, <2>2 DEF DP!NewId
  <2>4. pages' = [pages EXCEPT ![1] = WithItem(pages[1], node)]
    BY <2>1, <2>2, SamePages DEF DP!Persist
  <2>5. WithItem(pages[1], node).next = 1
    BY <2>1 DEF WithItem, NewPage
  <2>6. pages' = <<WithItem(pages[1], node)>>
    BY <1>3, <2>4
  <2> QED
    BY <1>1, <1>3, <2>3, <2>5, <2>6 DEF ExampleBegun, more
<1>4. CASE Len(ids) = 1
  <2>1. /\ Len(pages) = 1 /\ pages[1].next = 1 /\ ids[1] = <<0, 0>>
    BY <1>4 DEF ExampleBegun
  <2>2. pages[1].room = Capacity - 1
    <3>1. DP!Shape
      BY DEF CInv, DP!DocumentInv, DP!IndShape
    <3>2. 1 \in DOMAIN pages
      BY <2>1, <3>1 DEF DP!Shape
    <3> QED
      BY <2>1, <3>1, <3>2 DEF DP!Shape
  <2>3. DP!FreePage.room > 0 /\ DP!FreePage.next = 1
    BY <1>2, <2>1, <2>2 DEF DP!FreePage
  <2>4. DP!NewId = <<0, 1>>
    BY <2>1, <2>3 DEF DP!NewId
  <2> QED
    BY <1>1, <1>4, <2>1, <2>4 DEF ExampleBegun, more
<1>5. CASE Len(ids) > 1
  BY <1>1, <1>2, <1>5 DEF ExampleBegun, more
<1>6. Len(ids) = 0 \/ Len(ids) = 1 \/ Len(ids) > 1
  <2>1. \A n \in Nat : n = 0 \/ n = 1 \/ n > 1
    OBVIOUS
  <2> QED
    BY <1>2, <2>1
<1> QED
  BY <1>3, <1>4, <1>5, <1>6

-----------------------------------------------------------------------------
(* A step that is not one of init leaves it what it knows.                 *)
LEMMA FillStays ==
  ASSUME NEW c \in Consoles, FillFits(c), job'[c] = job[c],
         rpc'[c] = rpc[c] \/ rpc'[c] = Answered(Failed),
         meanwhile'[c] \in {"nothing", "adds", "losses"},
         job[c].doing = "clear" /\ (proc = "delete_tree" => serving # c) =>
           (proc' = "delete_tree" => serving' # c),
         Undisturbed(job[c], Worst(c)') =>
           /\ Undisturbed(job[c], Worst(c))
           /\ Worst(c) = "adds" => Worst(c)' = "adds"
           /\ Worst(c)' = "nothing" => pages' = pages /\ Worst(c) = "nothing"
           /\ ItemsOf(pages) \subseteq ItemsOf(pages'),
         Undisturbed(job[c], Worst(c)') /\ Obstacles(pages) = {} =>
           /\ rpc'[c] = rpc[c] /\ Obstacles(pages') = {}
           /\ \A x \in ItemsOf(pages) : ItemAt(pages', x) = ItemAt(pages, x)
  PROVE  FillFits(c)'
<1>1. ASSUME job[c].doing = "clear"
      PROVE  /\ proc' = "delete_tree" => serving' # c
             /\ rpc'[c].stage = "called" => rpc'[c].what = DeleteNodes(<<>>)
  BY <1>1 DEF FillFits, Answered, Rpc
<1>2. ASSUME job[c].doing = "fill", rpc'[c].stage = "called"
      PROVE  \E line \in {job[c].lines[Len(job[c].ids) + 1]} :
               rpc'[c].what = CreateNode(ParentOf(line, job[c].ids), line.value)
  BY <1>2 DEF FillFits, Answered, Rpc
<1>3. ASSUME job[c].doing \in {"clear", "fill"}, Undisturbed(job[c], Worst(c)')
      PROVE  /\ Obstacles(pages') = {} /\ rpc'[c] = rpc[c]
             /\ job[c].doing = "fill" /\ rpc[c].stage = "answered" => rpc[c].what # Failed
             /\ \E ids \in {Given(job[c], rpc[c])} :
                  /\ Built(pages', job[c].lines, ids, Worst(c)')
                  /\ Begun(pages', job[c].onto, ids, Worst(c)')
  <2>1. /\ Obstacles(pages) = {}
        /\ job[c].doing = "fill" /\ rpc[c].stage = "answered" => rpc[c].what # Failed
    BY <1>3 DEF FillFits
  <2>2. PICK ids \in {Given(job[c], rpc[c])} :
          Built(pages, job[c].lines, ids, Worst(c)) /\ Begun(pages, job[c].onto, ids, Worst(c))
    BY <1>3 DEF FillFits
  <2>3. Built(pages', job[c].lines, ids, Worst(c)')
    BY <1>3, <2>1, <2>2, BuiltStays
  <2>4. Begun(pages', job[c].onto, ids, Worst(c)')
    BY <1>3, <2>2 DEF Begun
  <2> QED
    BY <1>3, <2>1, <2>2, <2>3, <2>4
<1> QED
  BY <1>1, <1>2, <1>3 DEF FillFits

(* Steps of others are such steps. *)
LEMMA OthersFill ==
  ASSUME CInv, [Next]_vars, NEW c \in Consoles, FillFits(c), job'[c] = job[c], rpc'[c] = rpc[c],
         meanwhile'[c] = Worse(c), Gone(c) => Gone(c)',
         (proc = "delete_tree" => serving # c) => (proc' = "delete_tree" => serving' # c)
  PROVE  FillFits(c)'
<1>1. ASSUME Undisturbed(job[c], Worst(c)')
      PROVE  /\ Undisturbed(job[c], Worst(c))
             /\ Worst(c) = "adds" => Worst(c)' = "adds"
             /\ Worst(c)' = "nothing" => pages' = pages /\ Worst(c) = "nothing"
             /\ ItemsOf(pages) \subseteq ItemsOf(pages')
  <2>1. Worst(c)' # "losses"
    BY <1>1 DEF Undisturbed
  <2> QED
    BY <1>1, <2>1, WorseKeeps DEF Undisturbed
<1>2. ASSUME Undisturbed(job[c], Worst(c)'), Obstacles(pages) = {}
      PROVE  /\ Obstacles(pages') = {}
             /\ \A x \in ItemsOf(pages) : ItemAt(pages', x) = ItemAt(pages, x)
  BY <1>1, <1>2, StaysClear
<1>3. Worse(c) \in {"nothing", "adds", "losses"}
  BY DEF FillFits, Worse
<1> QED
  BY <1>1, <1>2, <1>3, FillStays

(* So are those that leave the file and the server alone. *)
LEMMA WaitFills ==
  ASSUME NEW c \in Consoles, FillFits(c), job'[c] = job[c], meanwhile'[c] = meanwhile[c],
         rpc'[c] = rpc[c], UNCHANGED pages, UNCHANGED proc, UNCHANGED serving, Worst(c)' = Worst(c)
  PROVE  FillFits(c)'
<1>1. meanwhile'[c] \in {"nothing", "adds", "losses"}
  BY DEF FillFits
<1> QED
  BY <1>1, FillStays

(* A step of the server for another client does not put it into a deletion *)
(* for this one.                                                           *)
LEMMA NotServed ==
  ASSUME NEW c \in Clients, NEW d \in Clients, d # c, ServerStep(d),
         proc = "delete_tree" => serving # c
  PROVE  proc' = "delete_tree" => serving' # c
<1>1. Nobody # c
  BY ClientsAssumption
<1>2. CASE Handle(d)
  <2>1. CASE HandleDeleteNodesByFilter(d)
    BY <1>1, <2>1, AskedIs DEF HandleDeleteNodesByFilter
  <2>2. CASE HandleGetNodesByFilter(d)
    BY <2>2, AskedIs DEF HandleGetNodesByFilter
  <2>3. CASE HandleCreateNode(d)
    BY <2>3 DEF HandleCreateNode, ProcessEnds, Doc!AddNode, Doc!Add
  <2>4. CASE HandleUpdateNode(d) \/ HandleDeleteNode(d) \/ HandleGetNode(d)
    BY <2>4 DEF HandleUpdateNode, HandleDeleteNode, HandleGetNode, ProcessEnds, Doc!Delete,
                Takes, document
  <2> QED
    BY <1>2, <2>1, <2>2, <2>3, <2>4 DEF Handle
<1>3. CASE serving = d /\ Proceed
  BY <1>1, <1>3 DEF Proceed, HandleUpdateAdd, DeleteDescendants, DeleteNodesAnswers
<1>4. CASE ConnectionLost(d)
  BY <1>4 DEF ConnectionLost, document
<1> QED
  BY <1>2, <1>3, <1>4 DEF ServerStep, By

(* The server in the call of a console that does init: it answers, the     *)
(* first call without looking at a node.                                   *)
LEMMA InitServed ==
  ASSUME Desk, NEW c \in Consoles, job[c].doing \in {"clear", "fill"}, FillFits(c), ServerStep(c)
  PROVE  \/ Gone(c)' /\ UNCHANGED <<document, serving>> /\ rpc'[c] = Answered(Failed)
         \/ /\ job[c].doing = "clear" /\ proc' = "idle" /\ UNCHANGED <<pages, serving>>
            /\ rpc'[c].stage = "answered"
         \/ /\ job[c].doing = "fill" /\ HandleCreateNode(c) /\ rpc[c].stage = "called"
            /\ rpc'[c] = rpc[c] \/ rpc'[c].stage = "answered"
<1>1. c \in Clients /\ JobFits(job[c], rpc[c])
  BY ClientsAssumption DEF Desk, JobsFit
<1>2. rpc[c].stage = "called" =>
        rpc[c].what.method = IF job[c].doing = "clear" THEN "delete_nodes_by_filter" ELSE "create_node"
  BY <1>1 DEF JobFits, CallOf
<1>3. ASSUME NEW what, AnswerTo(c, what) PROVE rpc'[c] = Answered(what) /\ rpc'[c].stage = "answered"
  BY <1>1, <1>3 DEF AnswerTo, Desk, Answered, Rpc
<1>4. CASE Handle(c)
  <2>1. HandleDeleteNodesByFilter(c) \/ HandleCreateNode(c)
    BY <1>2, <1>4 DEF Handle, HandleUpdateNode, HandleDeleteNode, HandleGetNode,
                      HandleGetNodesByFilter, Takes
  <2>2. CASE HandleDeleteNodesByFilter(c)
    <3>1. rpc[c].stage = "called" /\ rpc[c].what.method = "delete_nodes_by_filter"
      BY <2>2 DEF HandleDeleteNodesByFilter, Takes
    <3>2. job[c].doing = "clear" /\ rpc[c].what = DeleteNodes(<<>>)
      BY <1>2, <3>1 DEF FillFits
    <3>3. rpc[c].what.chain = <<>>
      BY <3>2 DEF DeleteNodes
    <3>4. PICK chain : chain = rpc[c].what.chain
      OBVIOUS
    <3>5. Found(chain) = {} /\ Asked(chain) = "idle"
      BY <3>3, <3>4, NothingAsked
    <3>6. /\ proc' = "idle" /\ UNCHANGED <<pages, serving>>
          /\ AnswerTo(c, DeletedNodes(0))
      BY <2>2, <3>4, <3>5 DEF HandleDeleteNodesByFilter
    <3> QED
      BY <1>3, <3>2, <3>6
  <2>3. CASE HandleCreateNode(c)
    <3>1. rpc[c].stage = "called" /\ rpc[c].what.method = "create_node"
      BY <2>3 DEF HandleCreateNode, Takes
    <3>2. UNCHANGED rpc \/ AnswerTo(c, NodeResponse(AssignedId))
      BY <2>3 DEF HandleCreateNode, ProcessEnds
    <3> QED
      BY <1>2, <1>3, <2>3, <3>1, <3>2
  <2> QED
    BY <2>1, <2>2, <2>3
<1>5. CASE serving = c /\ Proceed
  <2>1. proc \in {"update", "delete_tree"}
    BY <1>5 DEF Proceed, HandleUpdateAdd, DeleteDescendants, DeleteNodesAnswers,
       Doc!CountChildren, Doc!Descend, Doc!DeleteTop, Doc!DeleteTreesReturns
  <2>2. /\ rpc[c].stage = "called"
        /\ rpc[c].what.method = IF proc = "update" THEN "update_node" ELSE "delete_nodes_by_filter"
    BY <1>5, <2>1 DEF Desk, ServingOK
  <2>3. proc = "delete_tree" /\ job[c].doing = "clear"
    BY <1>2, <2>1, <2>2
  <2> QED
    BY <1>5, <2>3 DEF FillFits
<1>6. CASE ConnectionLost(c)
  BY <1>3, <1>6 DEF ConnectionLost, Gone, document, links
<1> QED
  BY <1>4, <1>5, <1>6 DEF ServerStep, By

(* The answer to a line is the id of its node.                             *)
LEMMA LineAnswered ==
  ASSUME CInv, NEW c \in Consoles, job[c].doing = "fill", FillFits(c), HandleCreateNode(c),
         rpc[c].stage = "called", Undisturbed(job[c], Worst(c))
  PROVE  /\ proc' = "idle"
         /\ ItemsOf(pages) \subseteq ItemsOf(pages')
         /\ rpc'[c].stage = "answered" /\ rpc'[c].what # Failed
         /\ \E ids \in {Append(job[c].ids, rpc'[c].what.id)} :
              /\ Built(pages', job[c].lines, ids, Worst(c))
              /\ Begun(pages', job[c].onto, ids, Worst(c))
<1> DEFINE w == Worst(c)
<1>1. /\ JobFits(job[c], rpc[c]) /\ Work(job[c]) /\ Desk
  BY ClientsAssumption DEF CInv, Desk, JobsFit, JobFits
<1>2. PICK lines, ids :
        /\ lines = job[c].lines /\ ids = job[c].ids
        /\ lines \in {InitLines, ExampleLines} /\ IsChain(ids) /\ Len(ids) < Len(lines)
  BY <1>1 DEF Work, Prompt, Dead
<1>3. PICK l : l = Len(ids) + 1
  OBVIOUS
<1>4. /\ l \in 1..Len(lines) /\ Len(ids) \in Nat /\ Len(lines) \in Nat /\ DOMAIN ids = 1..Len(ids)
      /\ lines[l].entry \in 0..l - 1
      /\ lines[l].value \in Values /\ lines[l].value.type = "STRING"
  <2>1. Len(ids) \in Nat /\ Len(lines) \in Nat /\ l \in 1..Len(lines)
    BY <1>2, <1>3, LinesAre DEF IsChain
  <2> QED
    BY <1>2, <2>1, LinesAre DEF IsChain
<1>5. PICK p, v : p = ParentOf(lines[l], ids) /\ v = lines[l].value
  OBVIOUS
<1>6. rpc[c].what = CreateNode(p, v) /\ v \in Values /\ Convertible(v)
  BY <1>2, <1>3, <1>4, <1>5 DEF FillFits, Convertible
<1>7. /\ Built(pages, lines, ids, w) /\ Begun(pages, job[c].onto, ids, w)
      /\ Obstacles(pages) = {} /\ w \in {"nothing", "adds"}
  <2>1. w \in {"nothing", "adds"}
    BY DEF FillFits, Undisturbed, Worst
  <2> QED
    BY <1>2, <2>1 DEF FillFits, Given
<1>8. \A k \in DOMAIN ids : ids[k] \in ItemsOf(pages)
  BY <1>7 DEF Built, NodeOfLine, NodeOfOthers
<1>9. (l = 1 /\ p = NoNode) \/ p \in ItemsOf(pages)
  <2>1. CASE lines[l].entry # 0
    <3>1. lines[l].entry \in DOMAIN ids
      BY <1>3, <1>4, <2>1
    <3> QED
      BY <1>5, <1>8, <2>1, <3>1 DEF ParentOf
  <2>2. CASE lines[l].entry = 0 /\ l = 1 /\ lines[l].id = NoNode
    BY <1>5, <2>2 DEF ParentOf
  <2>3. CASE /\ lines[l].entry = 0 /\ lines = ExampleLines
             /\ (l >= 2 /\ lines[l].id = <<0, 0>>) \/ (l >= 3 /\ lines[l].id = <<0, 1>>)
    <3>1. job[c].onto = <<NewPage(0)>> /\ w = "nothing"
      BY <1>2, <2>3 DEF Undisturbed
    <3>2. ExampleBegun(pages, ids)
      BY <1>7, <3>1 DEF Begun
    <3>3. p = lines[l].id
      BY <1>5, <2>3 DEF ParentOf
    <3>4. \E k \in 1..Len(ids) : p = ids[k]
      BY <1>3, <1>4, <2>3, <3>2, <3>3 DEF ExampleBegun
    <3> QED
      BY <1>4, <1>8, <3>4
  <2>4. CASE lines[l].entry = 0
    <3>1. \/ l = 1 /\ lines[l].id = NoNode
          \/ lines = ExampleLines /\ l >= 2 /\ lines[l].id = <<0, 0>>
          \/ lines = ExampleLines /\ l >= 3 /\ lines[l].id = <<0, 1>>
      BY <1>2, <1>4, <2>4, LineParents
    <3> QED
      BY <2>2, <2>3, <2>4, <3>1
  <2> QED
    BY <2>1, <2>4
<1>10. CASE p \in ItemsOf(pages) \/ (p = NoNode /\ Doc!RootId \notin ItemsOf(pages))
  <2>1. proc' = "idle" /\ DP!Persist(DP!Node(p, v))
    BY <1>6, <1>7, <1>10, LineIsAdded
  <2>2. PICK n : /\ n = DP!NewId /\ n \notin ItemsOf(pages)
                 /\ ItemsOf(pages') = ItemsOf(pages) \cup {n}
                 /\ ItemAt(pages', n) = Doc!Node(p, v)
                 /\ \A x \in ItemsOf(pages) : ItemAt(pages', x) = ItemAt(pages, x)
                 /\ rpc'[c] = Answered(NodeResponse(n))
    BY <1>6, <1>7, <1>10, LineIsAdded
  <2>3. rpc'[c].stage = "answered" /\ rpc'[c].what # Failed /\ rpc'[c].what.id = n
    BY <2>2 DEF Answered, Rpc, NodeResponse, Failed
  <2>4. Built(pages', lines, Append(ids, n), w)
    <3>1. NodeOfLine(pages', lines[Len(ids) + 1], ids, n)
      BY <1>3, <1>5, <2>2 DEF NodeOfLine
    <3>2. ItemsOf(pages) \subseteq ItemsOf(pages')
      BY <2>2
    <3> QED
      BY <1>2, <1>7, <2>2, <3>1, <3>2, BuiltOn
  <2>5. Begun(pages', job[c].onto, Append(ids, n), w)
    <3>1. Len(Append(ids, n)) # 0
      BY <1>2, <1>4, LongerIs
    <3>2. ASSUME w = "nothing", job[c].onto = <<NewPage(0)>>
          PROVE  ExampleBegun(pages', Append(ids, n))
      <4>1. ExampleBegun(pages, ids) /\ (Len(ids) = 0 => pages = <<NewPage(0)>>)
        BY <1>7, <3>2 DEF Begun
      <4> QED
        BY <1>2, <2>1, <2>2, <4>1, ExampleGoesOn
    <3> QED
      BY <3>1, <3>2 DEF Begun
  <2> QED
    BY <1>2, <2>1, <2>2, <2>3, <2>4, <2>5
<1>11. CASE l = 1 /\ p = NoNode /\ Doc!RootId \in ItemsOf(pages)
  <2>1. proc' = "idle" /\ UNCHANGED pages /\ rpc'[c] = Answered(NodeResponse(Doc!RootId))
    BY <1>6, <1>7, <1>11, RootIsRefused
  <2>2. rpc'[c].stage = "answered" /\ rpc'[c].what # Failed /\ rpc'[c].what.id = Doc!RootId
    BY <2>1 DEF Answered, Rpc, NodeResponse, Failed
  <2>3. Len(ids) = 0
    BY <1>3, <1>4, <1>11
  <2>4. w = "adds"
    <3>1. ItemsOf(job[c].onto) = {}
      BY NewFileIs DEF Undisturbed
    <3>2. w = "nothing" => pages = job[c].onto
      BY <1>7, <2>3 DEF Begun
    <3> QED
      BY <1>7, <1>11, <3>1, <3>2
  <2>5. Built(pages', lines, Append(ids, Doc!RootId), "adds")
    BY <1>2, <1>11, <2>1, <2>3, BuiltOnOthers
  <2>6. Begun(pages', job[c].onto, Append(ids, Doc!RootId), "adds")
    BY DEF Begun
  <2> QED
    BY <1>2, <2>1, <2>2, <2>4, <2>5, <2>6
<1> QED
  BY <1>9, <1>10, <1>11

(* The step of the server in a call of init leaves it what it knows.       *)
LEMMA OwnServerFills ==
  ASSUME CInv, NEW c \in Consoles, job'[c] = job[c], meanwhile'[c] = meanwhile[c],
         FillFits(c), ServerStep(c)
  PROVE  FillFits(c)'
<1>1. Desk
  BY DEF CInv
<1>2. meanwhile'[c] \in {"nothing", "adds", "losses"}
  BY DEF FillFits
<1>3. Worst(c)' = Worst(c) \/ Worst(c)' = "losses"
  <2>1. Gone(c) => Gone(c)'
    BY ClientsAssumption, StaysGone
  <2> QED
    BY <2>1 DEF Worst
<1>4. CASE job[c].doing \notin {"clear", "fill"}
  BY <1>2, <1>4 DEF FillFits
<1>5. CASE Gone(c)' /\ UNCHANGED <<document, serving>> /\ rpc'[c] = Answered(Failed)
  <2>1. ~Undisturbed(job[c], Worst(c)')
    BY <1>5 DEF Worst, Undisturbed
  <2>2. rpc'[c].stage = "answered" /\ proc' = proc /\ serving' = serving
    BY <1>5 DEF Answered, Rpc, document
  <2> QED
    BY <1>2, <2>1, <2>2 DEF FillFits
<1>6. CASE /\ job[c].doing = "clear" /\ proc' = "idle" /\ UNCHANGED <<pages, serving>>
           /\ rpc'[c].stage = "answered"
  <2>1. Undisturbed(job[c], Worst(c)') => Worst(c)' = Worst(c)
    BY <1>3 DEF Undisturbed
  <2>2. Given(job[c], rpc'[c]) = Given(job[c], rpc[c])
    BY <1>6 DEF Given
  <2> QED
    BY <1>2, <1>6, <2>1, <2>2 DEF FillFits
<1>7. CASE /\ job[c].doing = "fill" /\ HandleCreateNode(c) /\ rpc[c].stage = "called"
           /\ rpc'[c] = rpc[c] \/ rpc'[c].stage = "answered"
  <2>1. ASSUME rpc'[c].stage = "called"
        PROVE  \E line \in {job[c].lines[Len(job[c].ids) + 1]} :
                 rpc'[c].what = CreateNode(ParentOf(line, job[c].ids), line.value)
    BY <1>7, <2>1 DEF FillFits
  <2>2. ASSUME Undisturbed(job[c], Worst(c))
        PROVE  /\ Obstacles(pages') = {}
               /\ rpc'[c].stage = "answered" => rpc'[c].what # Failed
               /\ \E ids \in {Given(job[c], rpc'[c])} :
                    /\ Built(pages', job[c].lines, ids, Worst(c))
                    /\ Begun(pages', job[c].onto, ids, Worst(c))
    <3>1. /\ proc' = "idle" /\ ItemsOf(pages) \subseteq ItemsOf(pages')
          /\ rpc'[c].stage = "answered" /\ rpc'[c].what # Failed
          /\ \E ids \in {Append(job[c].ids, rpc'[c].what.id)} :
               /\ Built(pages', job[c].lines, ids, Worst(c))
               /\ Begun(pages', job[c].onto, ids, Worst(c))
      BY <1>7, <2>2, LineAnswered
    <3>2. Given(job[c], rpc'[c]) = Append(job[c].ids, rpc'[c].what.id)
      BY <1>7, <3>1 DEF Given
    <3>3. Obstacles(pages') = {}
      <4>1. Obstacles(pages) = {}
        BY <1>7, <2>2 DEF FillFits
      <4>2. [Next]_vars
        BY ClientsAssumption DEF Next
      <4> QED
        BY <3>1, <4>1, <4>2, StaysClear
    <3> QED
      BY <3>1, <3>2, <3>3
  <2>3. Undisturbed(job[c], Worst(c)') => Worst(c)' = Worst(c)
    BY <1>3 DEF Undisturbed
  <2> QED
    BY <1>2, <1>7, <2>1, <2>2, <2>3 DEF FillFits
<1> QED
  BY <1>1, <1>4, <1>5, <1>6, <1>7, InitServed

(* Whatever client the server works for, each console that does init knows *)
(* what it knew.                                                           *)
LEMMA ServerFills ==
  ASSUME CInv, Filling, NEW c \in Clients, ServerStep(c)
  PROVE  Filling'
<1>1. Desk /\ UNCHANGED job /\ [Next]_vars
  BY DEF CInv, ServerStep, By, Next
<1>2. meanwhile' = [d \in Consoles |-> IF d = c THEN meanwhile[d] ELSE Worse(d)]
  BY DEF ServerStep, By
<1>3. ASSUME NEW d \in Consoles PROVE FillFits(d)'
  <2>1. FillFits(d) /\ job'[d] = job[d] /\ d \in Clients
    BY <1>1, ClientsAssumption DEF Filling
  <2>2. CASE d # c
    <3>1. rpc'[d] = rpc[d]
      BY <1>1, <2>1, <2>2, OnlyItsOwn
    <3>2. meanwhile'[d] = Worse(d)
      BY <1>2, <2>2
    <3>3. (proc = "delete_tree" => serving # d) => (proc' = "delete_tree" => serving' # d)
      BY <2>1, <2>2, NotServed
    <3>4. Gone(d) => Gone(d)'
      BY StaysGone
    <3> QED
      BY <1>1, <2>1, <3>1, <3>2, <3>3, <3>4, OthersFill
  <2>3. CASE d = c
    <3>1. meanwhile'[d] = meanwhile[d]
      BY <1>2, <2>3
    <3> QED
      BY <2>1, <2>3, <3>1, OwnServerFills
  <2> QED
    BY <2>2, <2>3
<1> QED
  BY <1>3 DEF Filling

(* A console that does not do init has nothing to know. *)
LEMMA NoFill ==
  ASSUME NEW c \in Consoles, job'[c].doing \notin {"clear", "fill"},
         meanwhile'[c] \in {"nothing", "adds", "losses"}
  PROVE  FillFits(c)'
  BY DEF FillFits

(* A step of one console leaves the others what they know. *)
LEMMA ConsoleFills ==
  ASSUME Desk, Watched, Filling, NEW c \in Consoles, Apart(c), FillFits(c)',
         NEW j, NEW r, job' = [job EXCEPT ![c] = j],
         rpc' = [rpc EXCEPT ![c] = r],
         UNCHANGED meanwhile \/ \E w : meanwhile' = [meanwhile EXCEPT ![c] = w]
  PROVE  Filling'
<1>1. c \in Clients /\ Consoles \subseteq Clients
  BY ClientsAssumption
<1>2. ASSUME NEW d \in Consoles, d # c PROVE FillFits(d)'
  <2>1. rpc'[d] = rpc[d]
    BY <1>1, <1>2 DEF Desk
  <2>2. job'[d] = job[d]
    BY <1>2 DEF Desk, JobsFit
  <2>3. meanwhile'[d] = meanwhile[d]
    BY <1>2 DEF Watched
  <2>4. UNCHANGED pages /\ UNCHANGED proc /\ UNCHANGED serving
    BY DEF Apart, document
  <2>5. Worst(d)' = Worst(d)
    BY <1>2, <2>3, WorstStays
  <2> QED
    BY <2>1, <2>2, <2>3, <2>4, <2>5, WaitFills DEF Filling
<1> QED
  BY <1>2 DEF Filling

(* A command that is over, or one that is none of init. *)
LEMMA OtherwiseFills ==
  ASSUME Desk, Watched, Filling, NEW c \in Consoles, Apart(c),
         NEW j, j.doing \notin {"clear", "fill"}, NEW r,
         job' = [job EXCEPT ![c] = j], rpc' = [rpc EXCEPT ![c] = r],
         UNCHANGED meanwhile \/ meanwhile' = [meanwhile EXCEPT ![c] = "nothing"]
  PROVE  Filling'
<1>1. job'[c] = j
  BY DEF Desk, JobsFit
<1>2. meanwhile'[c] \in {"nothing", "adds", "losses"}
  <2>1. meanwhile[c] \in {"nothing", "adds", "losses"}
    BY DEF Filling, FillFits
  <2> QED
    BY <2>1 DEF Watched
<1>3. FillFits(c)'
  BY <1>1, <1>2, NoFill
<1> QED
  BY <1>3, ConsoleFills

(* The command init starts with what is there: nothing is in its way in a  *)
(* file without nodes.                                                     *)
LEMMA TypeInitFills ==
  ASSUME CInv, Watched, Filling, NEW c \in Consoles, NEW lines \in {InitLines, ExampleLines},
         TypeInit(c, lines)
  PROVE  Filling'
<1> DEFINE j == [doing |-> "clear", lines |-> lines, ids |-> <<>>, onto |-> pages]
           q == DeleteNodes(<<>>)
           w == Worst(c)'
<1>1. /\ Desk /\ Does(c, "prompt") /\ Apart(c)
      /\ job' = [job EXCEPT ![c] = j] /\ rpc' = [rpc EXCEPT ![c] = Called(q)]
      /\ meanwhile' = [meanwhile EXCEPT ![c] = "nothing"]
  BY DEF CInv, TypeInit, Typed, Call, ServerWaits, Apart
<1>2. /\ j.doing = "clear" /\ j.lines = lines /\ j.ids = <<>> /\ j.onto = pages
      /\ Called(q).stage = "called" /\ Called(q).what = q
  BY DEF Called, Rpc
<1> HIDE DEF j, q, w
<1>3. job'[c] = j /\ rpc'[c] = Called(q) /\ meanwhile'[c] = "nothing"
  BY <1>1, ClientsAssumption DEF Desk, JobsFit, Watched
<1>4. w \in {"nothing", "losses"}
  BY <1>3 DEF Worst, w
<1>5. UNCHANGED pages /\ UNCHANGED proc /\ UNCHANGED serving
  BY <1>1 DEF Apart, document
<1>6. proc = "delete_tree" => serving # c
  BY <1>1, PromptIs DEF Desk, ServingOK
<1>7. ASSUME Undisturbed(j, w)
      PROVE  /\ Obstacles(pages) = {}
             /\ \E ids \in {Given(j, Called(q))} : Built(pages, lines, ids, w) /\ Begun(pages, pages, ids, w)
  <2>1. w = "nothing"
    BY <1>4, <1>7 DEF Undisturbed
  <2>2. ItemsOf(pages) = {}
    BY <1>2, <1>7, NewFileIs DEF Undisturbed
  <2>3. Given(j, Called(q)) = <<>>
    BY <1>2 DEF Given
  <2>4. DOMAIN <<>> = {} /\ Len(<<>>) = 0
    OBVIOUS
  <2>5. Built(pages, lines, <<>>, w)
    BY <2>4 DEF Built
  <2>6. Begun(pages, pages, <<>>, w)
    BY <2>4 DEF Begun, ExampleBegun
  <2> QED
    BY <2>1, <2>2, <2>3, <2>5, <2>6, EmptyIsClear
<1>8. FillFits(c)'
  <2>1. q = DeleteNodes(<<>>)
    BY DEF q
  <2> QED
    BY <1>2, <1>3, <1>5, <1>6, <1>7, <2>1 DEF FillFits, w
<1> QED
  BY <1>1, <1>8, ConsoleFills

(* init goes on with the answers it was given. *)
LEMMA FillNextFills ==
  ASSUME CInv, Watched, Filling, NEW c \in Consoles, NEW what \in {"clear", "fill"},
         Receives(c, what), NEW ids, FillNext(c, ids),
         Undisturbed(job[c], Worst(c)) => ids = Given(job[c], rpc[c])
  PROVE  Filling'
<1> DEFINE lines == job[c].lines
           onto == job[c].onto
           before == job[c].ids
           j == FillOn(job[c], ids)
<1>1. /\ Desk /\ Apart(c) /\ UNCHANGED <<connected, meanwhile>> /\ job[c].doing = what
      /\ job[c] = [doing |-> what, lines |-> lines, ids |-> before, onto |-> onto]
  BY AnsweredIs DEF CInv, Receives
<1>2. CASE Return(c, Dead) \/ Return(c, Prompt)
  <2>1. Dead.doing \notin {"clear", "fill"} /\ Prompt.doing \notin {"clear", "fill"}
    BY DEF Dead, Prompt
  <2> QED
    BY <1>1, <1>2, <2>1, OtherwiseFills DEF Return
<1>3. ASSUME NEW q, \E line \in {lines[Len(ids) + 1]} : q = CreateNode(ParentOf(line, ids), line.value),
             job' = [job EXCEPT ![c] = j], rpc' = [rpc EXCEPT ![c] = Called(q)]
      PROVE  Filling'
  <2>1. j = [doing |-> "fill", lines |-> lines, ids |-> ids, onto |-> onto]
    <3> HIDE DEF lines, onto, before
    <3> QED
      BY <1>1, WorkGoesOn
  <2>2. /\ j.doing = "fill" /\ j.lines = lines /\ j.ids = ids /\ j.onto = onto
        /\ Called(q).stage = "called" /\ Called(q).what = q
    BY <2>1 DEF Called, Rpc
  <2>3. \A worst : Undisturbed(j, worst) <=> Undisturbed(job[c], worst)
    BY <2>2 DEF Undisturbed
  <2>4. Given(j, Called(q)) = ids
    BY <2>2 DEF Given
  <2> HIDE DEF j
  <2>5. job'[c] = j /\ rpc'[c] = Called(q) /\ meanwhile'[c] = meanwhile[c]
    BY <1>1, <1>3, ClientsAssumption DEF Desk, JobsFit
  <2>6. UNCHANGED pages /\ UNCHANGED proc /\ Worst(c)' = Worst(c)
    BY <1>1 DEF Apart, document, Worst, Gone
  <2>7. meanwhile[c] \in {"nothing", "adds", "losses"}
    BY DEF Filling, FillFits
  <2>8. ASSUME Undisturbed(j, Worst(c))
        PROVE  /\ Obstacles(pages) = {}
               /\ Built(pages, lines, ids, Worst(c)) /\ Begun(pages, onto, ids, Worst(c))
    <3>1. Undisturbed(job[c], Worst(c)) /\ FillFits(c)
      BY <2>3, <2>8 DEF Filling
    <3> QED
      BY <1>1, <3>1 DEF FillFits
  <2>9. FillFits(c)'
    BY <1>3, <2>2, <2>4, <2>5, <2>6, <2>7, <2>8 DEF FillFits
  <2> QED
    BY <1>1, <1>3, <2>9, ConsoleFills
<1>4. CASE /\ job' = [job EXCEPT ![c] = [job[c] EXCEPT !.doing = "fill", !.ids = ids]]
           /\ \E line \in {lines[Len(ids) + 1]} : Call(c, CreateNode(ParentOf(line, ids), line.value))
  <2>1. job' = [job EXCEPT ![c] = j]
    BY <1>4 DEF FillOn
  <2>2. PICK line \in {lines[Len(ids) + 1]} : Call(c, CreateNode(ParentOf(line, ids), line.value))
    BY <1>4
  <2> HIDE DEF j, lines
  <2>3. PICK q : q = CreateNode(ParentOf(line, ids), line.value)
    OBVIOUS
  <2>4. rpc' = [rpc EXCEPT ![c] = Called(q)]
    BY <2>2, <2>3 DEF Call
  <2> QED
    BY <1>3, <2>1, <2>2, <2>3, <2>4
<1> QED
  BY <1>2, <1>4 DEF FillNext

(* Whatever a console does, its command init goes on as it should. *)
LEMMA ConsoleStepFills ==
  ASSUME CInv, Watched, Filling, NEW c \in Consoles,
         \/ \E command \in Commands : TypeCommand(c, command)
         \/ TypeInit(c, InitLines) \/ TypeInit(c, ExampleLines)
         \/ Leave(c) \/ Start(c) \/ Receive(c)
  PROVE  Filling'
<1>1. Desk
  BY DEF CInv
<1>2. ASSUME NEW command \in Commands, TypeCommand(c, command) PROVE Filling'
  <2> DEFINE asked == RequestOf(command.func, Parsed(command.path))
             find == [doing |-> "find", path |-> command.path, value |-> asked.value]
  <2>1. /\ Does(c, "prompt") /\ Apart(c) /\ meanwhile' = [meanwhile EXCEPT ![c] = "nothing"]
        /\ \/ job' = [job EXCEPT ![c] = Dead] /\ UNCHANGED rpc
           \/ \E j \in {[doing |-> "get"], [doing |-> "delete"], find} : \E q :
                job' = [job EXCEPT ![c] = j] /\ rpc' = [rpc EXCEPT ![c] = Called(q)]
    BY <1>2 DEF TypeCommand, Typed, Call, ServerWaits, Apart
  <2>2. Dead.doing = "dead" /\ \A j \in {[doing |-> "get"], [doing |-> "delete"], find} :
          j.doing \notin {"clear", "fill"}
    BY DEF Dead
  <2>3. rpc = [rpc EXCEPT ![c] = NoCall]
    BY <1>1, <2>1, PromptIs
  <2> HIDE DEF find
  <2> QED
    BY <1>1, <2>1, <2>2, <2>3, OtherwiseFills
<1>3. ASSUME Leave(c) PROVE Filling'
  <2>1. /\ job' = [job EXCEPT ![c] = Dead] /\ Does(c, "prompt") /\ UNCHANGED rpc
        /\ Apart(c) /\ meanwhile' = [meanwhile EXCEPT ![c] = "nothing"]
    BY <1>3 DEF Leave, Typed, ServerWaits, Apart
  <2>2. rpc' = [rpc EXCEPT ![c] = NoCall]
    BY <1>1, <2>1, PromptIs
  <2>3. Dead.doing = "dead"
    BY DEF Dead
  <2> QED
    BY <1>1, <2>1, <2>2, <2>3, OtherwiseFills
<1>4. ASSUME Apart(c), UNCHANGED meanwhile, Return(c, Dead) \/ Return(c, Prompt) PROVE Filling'
  <2>1. Dead.doing = "dead" /\ Prompt.doing = "prompt"
    BY DEF Dead, Prompt
  <2> QED
    BY <1>1, <1>4, <2>1, OtherwiseFills DEF Return
<1>5. ASSUME GetResponse(c) \/ CreateResponse(c) \/ DeleteResponse(c) PROVE Filling'
  <2>1. Apart(c) /\ UNCHANGED meanwhile /\ (Return(c, Dead) \/ Return(c, Prompt))
    BY <1>5 DEF GetResponse, CreateResponse, DeleteResponse, Receives, ServerWaits, Apart
  <2> QED
    BY <1>4, <2>1
<1>6. ASSUME FindResponse(c) PROVE Filling'
  <2>1. /\ Receives(c, "find") /\ Apart(c) /\ UNCHANGED meanwhile
        /\ \/ Return(c, Dead) \/ Return(c, Prompt)
           \/ /\ job' = [job EXCEPT ![c].doing = "create"]
              /\ \E q : Call(c, q)
    BY <1>6 DEF FindResponse, Receives, ServerWaits, Apart
  <2>2. CASE /\ job' = [job EXCEPT ![c].doing = "create"]
             /\ \E q : Call(c, q)
    <3>1. PICK j : j = [job[c] EXCEPT !.doing = "create"]
      OBVIOUS
    <3>2. job' = [job EXCEPT ![c] = j]
      BY <2>2, <3>1
    <3>3. job[c] = [doing |-> "find", path |-> job[c].path, value |-> job[c].value]
      BY <1>1, <2>1, AnsweredIs
    <3>4. j.doing = "create"
      BY <3>1, <3>3
    <3>5. PICK q : rpc' = [rpc EXCEPT ![c] = Called(q)]
      BY <2>2 DEF Call
    <3> QED
      BY <1>1, <2>1, <3>2, <3>4, <3>5, OtherwiseFills
  <2> QED
    BY <1>4, <2>1, <2>2
<1>7. ASSUME ClearResponse(c) PROVE Filling'
  <2>1. PICK none : none = <<>>
    OBVIOUS
  <2>2. Receives(c, "clear") /\ FillNext(c, none)
    BY <1>7, <2>1 DEF ClearResponse
  <2>3. none = Given(job[c], rpc[c])
    <3>1. job[c].doing = "clear" /\ Work(job[c])
      BY <1>1, <2>2, AnsweredIs
    <3>2. job[c].ids = <<>>
      BY <3>1 DEF Work, Prompt, Dead
    <3> QED
      BY <2>1, <3>1, <3>2 DEF Given
  <2> QED
    BY <2>2, <2>3, FillNextFills
<1>8. ASSUME FillResponse(c) PROVE Filling'
  <2>1. PICK ids : ids = Append(job[c].ids, AddedAfter(c))
    OBVIOUS
  <2>2. Receives(c, "fill") /\ FillNext(c, ids)
    BY <1>8, <2>1 DEF FillResponse
  <2>3. job[c].doing = "fill" /\ rpc[c].stage = "answered"
    BY <2>2 DEF Receives, Does
  <2>4. ASSUME Undisturbed(job[c], Worst(c)) PROVE ids = Given(job[c], rpc[c])
    <3>1. rpc[c].what # Failed
      BY <2>3, <2>4 DEF Filling, FillFits
    <3> QED
      BY <2>1, <2>3, <3>1 DEF AddedAfter, Given
  <2> QED
    BY <2>2, <2>4, FillNextFills
<1>9. ASSUME Start(c) PROVE Filling'
  <2>1. job' = [job EXCEPT ![c] = Prompt] /\ UNCHANGED rpc /\ Apart(c) /\ UNCHANGED meanwhile
    BY <1>9 DEF Start, ServerWaits, Apart
  <2>2. rpc' = [rpc EXCEPT ![c] = NoCall]
    BY <1>1, <1>9, <2>1, StartKeeps
  <2>3. Prompt.doing = "prompt"
    BY DEF Prompt
  <2> QED
    BY <1>1, <2>1, <2>2, <2>3, OtherwiseFills
<1> QED
  BY <1>2, <1>3, <1>5, <1>6, <1>7, <1>8, <1>9, TypeInitFills DEF Receive

(* Every step keeps what init knows.  The cases are those of Next.         *)
LEMMA FillingStep ==
  ASSUME CInv, [Next]_vars, Watched, Filling
  PROVE  Filling'
<1>1. Desk
  BY DEF CInv
<1>2. ASSUME UNCHANGED <<serverVars, job, meanwhile>> PROVE Filling'
  BY <1>2, WaitFills DEF serverVars, links, document, Filling, Worst, Gone
<1>3. ASSUME NEW c \in Callers, NEW raw \in RawRequests, RawCall(c, raw) PROVE Filling'
  <2>1. \A d \in Consoles : d \in Clients /\ d # c
    BY ClientsAssumption
  <2>2. /\ UNCHANGED <<pages, proc, serving, job, meanwhile>>
        /\ rpc' = [rpc EXCEPT ![c] = Called(raw)] /\ Apart(c)
    BY <1>3 DEF RawCall, Call, ServerWaits, Apart, document
  <2>3. \A d \in Consoles : rpc'[d] = rpc[d]
    BY <1>1, <2>1, <2>2 DEF Desk
  <2>4. \A d \in Consoles : Worst(d)' = Worst(d)
    BY <2>1, <2>2, WorstStays
  <2> QED
    BY <2>2, <2>3, <2>4, WaitFills DEF Filling
<1>4. ASSUME By(Nobody, Kill \/ Restart) PROVE Filling'
  <2>1. \A d \in Consoles : d \in Clients /\ d # Nobody
    BY ClientsAssumption
  <2>2. UNCHANGED job /\ \A d \in Consoles : meanwhile'[d] = Worse(d)
    BY <1>4, <2>1 DEF By
  <2>3. serving' = Nobody
    BY <1>4 DEF By, Kill, Restart
  <2>4. UNCHANGED rpc /\ \A d \in Consoles : Gone(d) => Gone(d)'
    BY <1>4, StaysGone DEF By, Kill, Restart
  <2>5. ASSUME NEW d \in Consoles PROVE FillFits(d)'
    BY <2>1, <2>2, <2>3, <2>4, OthersFill DEF Filling
  <2> QED
    BY <2>5 DEF Filling
<1> QED
  BY <1>2, <1>3, <1>4, ConsoleStepFills, ServerFills DEF Next, vars, clientVars

(* init builds the tree of its file in any file without nodes, whatever    *)
(* others add between two of its lines, and the example in a new file that *)
(* its console has to itself (fill_db_from_lines, fill_with_example_data   *)
(* of client/helpers.c): each line has a node of its own with its value,   *)
(* below the node of the line it names, or it is the first line and its    *)
(* node a root of somebody else.                                           *)
THEOREM InitBuildsTheTree == Spec => []FillsBuildTheTree
<1>1. Init => Watched /\ Filling
  <2> SUFFICES ASSUME Init, NEW c \in Consoles PROVE Watched /\ FillFits(c)
    BY DEF Filling, Init, Watched
  <2>1. job[c].doing = "prompt" /\ meanwhile[c] = "nothing" /\ Watched
    BY DEF Init, Prompt, Watched
  <2> QED
    BY <2>1 DEF FillFits
<1>2. CInv /\ Watched /\ Filling /\ [Next]_vars => Watched' /\ Filling'
  BY WatchedStep, FillingStep
<1>3. CInv /\ Filling => FillsBuildTheTree
  <2> SUFFICES ASSUME CInv, Filling, NEW c \in Consoles, Does(c, "fill"), ~Gone(c),
                      \/ job[c].onto = <<NewPage(0)>> /\ meanwhile[c] = "nothing"
                      \/ job[c].lines # ExampleLines /\ ItemsOf(job[c].onto) = {} /\ meanwhile[c] # "losses"
               PROVE  LET ids == IF rpc[c].stage = "answered" THEN Append(job[c].ids, AddedAfter(c))
                                                             ELSE job[c].ids IN
                      /\ \A k \in DOMAIN ids :
                           \/ LineIsNode(job[c].lines[k], ids, k)
                           \/ /\ k = 1 /\ meanwhile[c] = "adds" /\ ids[k] = Doc!RootId
                              /\ ids[k] \in ItemsOf(pages)
                      /\ Cardinality({ids[k] : k \in DOMAIN ids}) = Len(ids)
    BY DEF FillsBuildTheTree
  <2> DEFINE ids == IF rpc[c].stage = "answered" THEN Append(job[c].ids, AddedAfter(c)) ELSE job[c].ids
  <2>1. /\ FillFits(c) /\ job[c].doing = "fill"
        /\ Worst(c) = meanwhile[c] /\ Undisturbed(job[c], Worst(c))
    BY DEF Filling, Does, Undisturbed, Worst
  <2>2. ids = Given(job[c], rpc[c])
    <3>1. rpc[c].stage = "answered" => rpc[c].what # Failed
      BY <2>1 DEF FillFits
    <3> QED
      BY <2>1, <3>1 DEF AddedAfter, Given
  <2>3. Built(pages, job[c].lines, ids, meanwhile[c])
    BY <2>1, <2>2 DEF FillFits
  <2>4. IsChain(ids)
    <3>1. IsChain(job[c].ids)
      <4>1. Work(job[c])
        BY DEF CInv, Desk, JobsFit, JobFits
      <4> QED
        BY <2>1, <4>1 DEF Work, Prompt, Dead
    <3> QED
      BY <3>1, LongerIs
  <2> HIDE DEF ids
  <2>5. Cardinality({ids[k] : k \in DOMAIN ids}) = Len(ids)
    <3>1. \A k, l \in DOMAIN ids : ids[k] = ids[l] => k = l
      BY <2>3 DEF Built
    <3>2. PICK given : given = ids
      OBVIOUS
    <3> QED
      BY <2>4, <3>1, <3>2, DifferentAre
  <2>6. \A k \in DOMAIN ids :
          \/ LineIsNode(job[c].lines[k], ids, k)
          \/ /\ k = 1 /\ meanwhile[c] = "adds" /\ ids[k] = Doc!RootId
             /\ ids[k] \in ItemsOf(pages)
    BY <2>3 DEF Built, NodeOfLine, NodeOfOthers, LineIsNode
  <2> QED
    BY <2>5, <2>6 DEF ids
<1> QED
  BY <1>1, <1>2, <1>3, ProgramInvariant, PTL DEF Spec
=============================================================================
