---------------------------- MODULE ParserProofs ----------------------------
(***************************************************************************)
(* What the parser makes of a command of any length.  A filter is attached *)
(* to the last node before its own node exists, and the first one to a     *)
(* placeholder: in the end every name and every filter has found its place, *)
(* and what is asked of the server is what was typed.                      *)
(***************************************************************************)
EXTENDS Parser, OperatorProofs

(* A sequence is its front and its last element. *)
LEMMA FrontIs ==
  ASSUME NEW S, NEW s \in Seq(S), s # <<>>, NEW e \in S
  PROVE  /\ Front(s) \in Seq(S) /\ Len(Front(s)) = Len(s) - 1
         /\ \A i \in 1..Len(s) - 1 : Front(s)[i] = s[i]
         /\ s = Append(Front(s), s[Len(s)])
         /\ [s EXCEPT ![Len(s)] = e] = Append(Front(s), e)
         /\ s[Len(s)] \in S
<1> DEFINE n == Len(s)
           front == Front(s)
           l == n - 1
<1>1. n \in Nat /\ n >= 1 /\ DOMAIN s = 1..n
  BY EmptySeq, LenProperties
<1>2. l \in Nat /\ l + 1 = n /\ n \in 1..n /\ 1..l \subseteq 1..n
  BY <1>1
<1>3. \A i \in 1..n : s[i] \in S
  BY <1>1, LenProperties
<1>4. front \in Seq(S) /\ Len(front) = l /\ \A i \in 1..l : front[i] = s[i]
  <2>1. \A i \in 1..l : s[i] \in S
    BY <1>1, <1>3
  <2> HIDE DEF l, n
  <2>2. SubSeq(s, 1, l) = front
    BY DEF Front, l, n
  <2>3. /\ SubSeq(s, 1, l) \in Seq(S)
        /\ Len(SubSeq(s, 1, l)) = IF 1 <= l THEN l - 1 + 1 ELSE 0
        /\ \A i \in 1..l - 1 + 1 : SubSeq(s, 1, l)[i] = s[1 + i - 1]
    BY <1>2, <2>1, SubSeqProperties
  <2>4. Len(SubSeq(s, 1, l)) = l /\ \A i \in 1..l : SubSeq(s, 1, l)[i] = s[i]
    BY <1>2, <2>3
  <2> QED
    BY <2>2, <2>3, <2>4
<1> HIDE DEF front, l, n
<1>5. ASSUME NEW x \in S
      PROVE  /\ Append(front, x) \in Seq(S) /\ Len(Append(front, x)) = n
             /\ \A i \in 1..n : Append(front, x)[i] = IF i = n THEN x ELSE s[i]
  BY <1>2, <1>4
<1>6. s[n] \in S
  BY <1>2, <1>3
<1>7. s = Append(front, s[n])
  <2> DEFINE t == Append(front, s[n])
  <2>1. t \in Seq(S) /\ Len(t) = Len(s) /\ \A i \in 1..Len(s) : t[i] = s[i]
    BY <1>5, <1>6 DEF n
  <2> HIDE DEF t
  <2> QED
    BY <2>1, SeqEqual DEF t
<1>8. [s EXCEPT ![n] = e] = Append(front, e)
  <2> DEFINE t == Append(front, e)
             r == [s EXCEPT ![n] = e]
  <2>1. t \in Seq(S) /\ Len(t) = n /\ \A i \in 1..n : t[i] = IF i = n THEN e ELSE s[i]
    BY <1>5
  <2>2. r \in Seq(S) /\ Len(r) = n /\ \A i \in 1..n : r[i] = IF i = n THEN e ELSE s[i]
    BY <1>2, ExceptSeq DEF n
  <2> HIDE DEF t, r
  <2>3. \A i \in 1..Len(r) : r[i] = t[i]
    BY <2>1, <2>2
  <2> QED
    BY <2>1, <2>2, <2>3, SeqEqual DEF t, r
<1> QED
  BY <1>4, <1>6, <1>7, <1>8 DEF front, l, n

(* What is appended to a sequence comes after what was there. *)
LEMMA AppendIs ==
  ASSUME NEW S, NEW s \in Seq(S), NEW e \in S
  PROVE  /\ Len(s) \in Nat /\ DOMAIN s = 1..Len(s)
         /\ DOMAIN Append(s, e) = 1..Len(s) + 1
         /\ Append(s, e)[Len(s) + 1] = e
         /\ \A k \in 1..Len(s) : Append(s, e)[k] = s[k] /\ s[k] \in S
         /\ \A k \in 1..Len(s) + 1 : Append(s, e)[k] \in S
         /\ Append(s, e) \in Seq(S) /\ Append(s, e) # <<>>
  OBVIOUS

-----------------------------------------------------------------------------
(* One more filter is added behind the others. *)
LEMMA FilteredSnoc ==
  ASSUME NEW N, NEW F, RootName \in N, NEW query \in Seq(QueryNodes(N, F)),
         NEW filters \in Seq(F), NEW filter \in F
  PROVE  /\ Filtered(query, Append(filters, filter)) = AddFilter(Filtered(query, filters), filter)
         /\ Filtered(query, filters) \in Seq(QueryNodes(N, F))
<1> DEFINE U == Seq(QueryNodes(N, F))
           n == Len(filters)
           longer == Append(filters, filter)
           kind == "filter"
<1>1. n \in Nat /\ DOMAIN filters = 1..n /\ DOMAIN longer = 1..n + 1
  BY AppendIs
<1>2. longer[n + 1] = filter /\ \A k \in 1..n : longer[k] = filters[k]
  BY AppendIs
<1>3. \A u, x : Step(kind, u, x) = AddFilter(u, x)
  BY DEF Step
<1>4. \A u \in U, k \in 1..n + 1 : Step(kind, u, longer[k]) \in U
  <2>1. \A k \in 1..n + 1 : longer[k] \in F
    BY AppendIs
  <2> HIDE DEF longer, n, kind
  <2> QED
    BY <1>3, <2>1, AddFilterIs
<1>5. query \in U
  OBVIOUS
<1>6. /\ Filtered(query, longer) = Folded(kind, query, longer)
      /\ Filtered(query, filters) = Folded(kind, query, filters)
  BY FilteredIs
<1> HIDE DEF U, n, longer, kind
<1>7. /\ Folded(kind, query, longer) = Step(kind, Folded(kind, query, filters), longer[n + 1])
      /\ Folded(kind, query, filters) \in U
  BY <1>1, <1>2, <1>4, <1>5, FoldedLonger
<1> QED
  BY <1>2, <1>3, <1>6, <1>7 DEF longer, U

(* No filters change nothing. *)
LEMMA FilteredNone ==
  ASSUME NEW query
  PROVE  Filtered(query, <<>>) = query
<1> DEFINE none == <<>>
           kind == "filter"
<1>1. DOMAIN none = 1..0 /\ Filtered(query, none) = Folded(kind, query, none)
  BY FilteredIs
<1> HIDE DEF none, kind
<1> QED
  BY <1>1, FoldedNone DEF none

(* One more part is added behind the others. *)
LEMMA ParsedSnoc ==
  ASSUME NEW N, NEW F, RootName \in N, NEW path \in Seq(QueryNodes(N, F)),
         NEW part \in QueryNodes(N, F)
  PROVE  /\ Parsed(Append(path, part)) = AddPart(Parsed(path), part)
         /\ Parsed(path) \in Seq(QueryNodes(N, F))
<1> DEFINE U == Seq(QueryNodes(N, F))
           n == Len(path)
           longer == Append(path, part)
           kind == "part"
           none == <<>>
<1>1. n \in Nat /\ DOMAIN path = 1..n /\ DOMAIN longer = 1..n + 1
  BY AppendIs
<1>2. longer[n + 1] = part /\ \A k \in 1..n : longer[k] = path[k]
  BY AppendIs
<1>3. \A u, x : Step(kind, u, x) = AddPart(u, x)
  BY DEF Step
<1>4. \A u \in U, k \in 1..n + 1 : Step(kind, u, longer[k]) \in U
  <2>1. \A k \in 1..n + 1 : longer[k] \in QueryNodes(N, F)
    BY AppendIs
  <2> HIDE DEF longer, n, kind
  <2>2. \A k \in 1..n + 1 : longer[k].name \in N /\ longer[k].filters \in Seq(F)
    BY <2>1 DEF QueryNodes
  <2> QED
    BY <1>3, <2>2, AddPartIs
<1>5. none \in U
  OBVIOUS
<1>6. Parsed(longer) = Folded(kind, none, longer) /\ Parsed(path) = Folded(kind, none, path)
  BY ParsedFold
<1> HIDE DEF U, n, longer, kind, none
<1>7. /\ Folded(kind, none, longer) = Step(kind, Folded(kind, none, path), longer[n + 1])
      /\ Folded(kind, none, path) \in U
  BY <1>1, <1>2, <1>4, <1>5, FoldedLonger
<1> QED
  BY <1>2, <1>3, <1>6, <1>7 DEF longer, U

(* Nothing makes an empty query. *)
LEMMA ParsedNone == Parsed(<<>>) = <<>>
<1> DEFINE none == <<>>
           kind == "part"
<1>1. DOMAIN none = 1..0 /\ Parsed(none) = Folded(kind, none, none)
  BY ParsedFold
<1> HIDE DEF none, kind
<1> QED
  BY <1>1, FoldedNone DEF none

-----------------------------------------------------------------------------
(* The filters of all parts. *)
LEMMA JoinIs ==
  ASSUME NEW F, NEW u \in Seq(F), NEW part, part.filters \in Seq(F)
  PROVE  Step("join", u, part) \in Seq(F)
<1>1. Step("join", u, part) = u \o part.filters
  BY DEF Step
<1>2. u \o part.filters \in Seq(F)
  BY ConcatProperties
<1> QED
  BY <1>1, <1>2

LEMMA AllFiltersSnoc ==
  ASSUME NEW N, NEW F, NEW parts \in Seq(QueryNodes(N, F)), NEW part \in QueryNodes(N, F)
  PROVE  /\ AllFilters(Append(parts, part)) = AllFilters(parts) \o part.filters
         /\ AllFilters(parts) \in Seq(F)
<1> DEFINE U == Seq(F)
           n == Len(parts)
           longer == Append(parts, part)
           kind == "join"
           none == <<>>
<1>1. n \in Nat /\ DOMAIN parts = 1..n /\ DOMAIN longer = 1..n + 1
  BY AppendIs
<1>2. longer[n + 1] = part /\ \A k \in 1..n : longer[k] = parts[k]
  BY AppendIs
<1>3. \A u, x : Step(kind, u, x) = u \o x.filters
  BY DEF Step
<1>4. \A u \in U, k \in 1..n + 1 : Step(kind, u, longer[k]) \in U
  <2>1. \A k \in 1..n + 1 : longer[k] \in QueryNodes(N, F)
    BY AppendIs
  <2> HIDE DEF longer, n
  <2>2. \A k \in 1..n + 1 : longer[k].filters \in Seq(F)
    BY <2>1 DEF QueryNodes
  <2> QED
    BY <2>2, JoinIs
<1>5. none \in U
  OBVIOUS
<1>6. /\ AllFilters(longer) = Folded(kind, none, longer)
      /\ AllFilters(parts) = Folded(kind, none, parts)
  BY AllFiltersFold
<1> HIDE DEF U, n, longer, kind, none
<1>7. /\ Folded(kind, none, longer) = Step(kind, Folded(kind, none, parts), longer[n + 1])
      /\ Folded(kind, none, parts) \in U
  BY <1>1, <1>2, <1>4, <1>5, FoldedLonger
<1> QED
  BY <1>2, <1>3, <1>6, <1>7 DEF longer, U

LEMMA AllFiltersNone == AllFilters(<<>>) = <<>>
<1> DEFINE none == <<>>
           kind == "join"
<1>1. DOMAIN none = 1..0 /\ AllFilters(none) = Folded(kind, none, none)
  BY AllFiltersFold
<1> HIDE DEF none, kind
<1> QED
  BY <1>1, FoldedNone DEF none

(* They depend on nothing but the filters. *)
LEMMA AllFiltersSame ==
  ASSUME NEW N, NEW F, NEW s \in Seq(QueryNodes(N, F)), NEW t, Len(t) = Len(s),
         DOMAIN t = DOMAIN s, \A k \in DOMAIN s : t[k].filters = s[k].filters
  PROVE  AllFilters(t) = AllFilters(s)
<1> DEFINE U == Seq(F)
           n == Len(s)
           kind == "join"
           none == <<>>
<1>1. n \in Nat /\ DOMAIN s = 1..n
  OBVIOUS
<1>2. \A k \in 1..n : s[k].filters \in U /\ t[k].filters = s[k].filters
  <2>1. \A k \in 1..n : s[k] \in QueryNodes(N, F)
    OBVIOUS
  <2> HIDE DEF n
  <2> QED
    BY <1>1, <2>1 DEF QueryNodes
<1>3. \A u, x : Step(kind, u, x) = u \o x.filters
  BY DEF Step
<1>4. none \in U
  OBVIOUS
<1>5. AllFilters(s) = Folded(kind, none, s) /\ AllFilters(t) = Folded(kind, none, t)
  BY AllFiltersFold
<1>6. \A u \in U, k \in 1..n : Step(kind, u, s[k]) \in U /\ Step(kind, u, t[k]) \in U
  <2> HIDE DEF n
  <2> QED
    BY <1>2, JoinIs
<1> HIDE DEF n, kind, none
<1>7. DOMAIN t = 1..n
  BY <1>1
<1> HIDE DEF U
<1>8. PICK g : FoldedFrom(kind, none, s, n, U, g)
  BY <1>1, <1>4, <1>6, FoldedSteps
<1>9. PICK h : FoldedFrom(kind, none, t, n, U, h)
  BY <1>1, <1>4, <1>6, <1>7, FoldedSteps
<1>10. ASSUME NEW k \in 1..n, g[k - 1] = h[k - 1] PROVE g[k] = h[k]
  <2>1. g[k] = Step(kind, g[k - 1], s[k])
    BY <1>8 DEF FoldedFrom
  <2>2. h[k] = Step(kind, h[k - 1], t[k])
    BY <1>9 DEF FoldedFrom
  <2>3. \A u : Step(kind, u, s[k]) = Step(kind, u, t[k])
    BY <1>2, <1>3
  <2> QED
    BY <1>10, <2>1, <2>2, <2>3
<1>11. g[n] = h[n]
  <2>1. StepAlike(g, h, n)
    BY <1>8, <1>9, <1>10 DEF FoldedFrom, StepAlike
  <2> QED
    BY <1>1, <2>1, SameSteps
<1> QED
  BY <1>5, <1>8, <1>9, <1>11 DEF FoldedFrom

(* One more filter of the last part is one more of all. *)
LastWith(parts, name, filter) ==
  [parts EXCEPT ![Len(parts)] = ParsedNode(name, Append(parts[Len(parts)].filters, filter))]

LEMMA AllFiltersLast ==
  ASSUME NEW N, NEW F, NEW parts \in Seq(QueryNodes(N, F)), parts # <<>>,
         NEW name \in N, NEW filter \in F
  PROVE  AllFilters(LastWith(parts, name, filter)) = Append(AllFilters(parts), filter)
<1> DEFINE Q == QueryNodes(N, F)
           front == Front(parts)
           last == parts[Len(parts)]
           filters == last.filters
           new == ParsedNode(name, Append(filters, filter))
           all == AllFilters(front)
<1>1. last \in Q
  BY FrontIs
<1>2. filters \in Seq(F)
  <2> HIDE DEF last
  <2> QED
    BY <1>1 DEF QueryNodes
<1>3. new \in Q /\ new.filters = Append(filters, filter)
  <2> HIDE DEF filters
  <2>1. Append(filters, filter) \in Seq(F)
    BY <1>2
  <2> QED
    BY <2>1 DEF ParsedNode, QueryNodes
<1> HIDE DEF filters, new
<1>4. /\ front \in Seq(Q) /\ parts = Append(front, last)
      /\ [parts EXCEPT ![Len(parts)] = new] = Append(front, new)
  BY <1>3, FrontIs
<1> HIDE DEF front, last, Q
<1>5. /\ AllFilters(Append(front, last)) = all \o filters
      /\ AllFilters(Append(front, new)) = all \o new.filters
      /\ all \in Seq(F)
  <2>1. front \in Seq(QueryNodes(N, F)) /\ last \in QueryNodes(N, F) /\ new \in QueryNodes(N, F)
    BY <1>1, <1>3, <1>4 DEF Q
  <2>2. AllFilters(Append(front, last)) = all \o last.filters /\ all \in Seq(F)
    BY <2>1, AllFiltersSnoc
  <2>3. AllFilters(Append(front, new)) = all \o new.filters
    BY <2>1, AllFiltersSnoc
  <2> QED
    BY <2>2, <2>3 DEF filters
<1> HIDE DEF all
<1>6. all \o Append(filters, filter) = Append(all \o filters, filter)
  <2> DEFINE s == all \o Append(filters, filter)
             t == Append(all \o filters, filter)
             a == Len(all)
             b == Len(filters)
  <2>1. a \in Nat /\ b \in Nat
    BY <1>2, <1>5
  <2>2. /\ s \in Seq(F) /\ Len(s) = a + b + 1
        /\ \A i \in 1..a + b + 1 :
             s[i] = IF i <= a THEN all[i] ELSE IF i - a <= b THEN filters[i - a] ELSE filter
    BY <1>2, <1>5
  <2>3. /\ t \in Seq(F) /\ Len(t) = a + b + 1
        /\ \A i \in 1..a + b + 1 :
             t[i] = IF i <= a THEN all[i] ELSE IF i - a <= b THEN filters[i - a] ELSE filter
    BY <1>2, <1>5
  <2> HIDE DEF s, t, a, b
  <2>4. \A i \in 1..Len(s) : s[i] = t[i]
    BY <2>2, <2>3
  <2> QED
    BY <2>2, <2>3, <2>4, SeqEqual DEF s, t
<1>7. LastWith(parts, name, filter) = [parts EXCEPT ![Len(parts)] = new]
  BY DEF LastWith, new, filters, last
<1> QED
  BY <1>3, <1>4, <1>5, <1>6, <1>7

(* AddFilter adds its filter, to whichever node. *)
LEMMA AddFilterJoins ==
  ASSUME NEW N, NEW F, RootName \in N, NEW query \in Seq(QueryNodes(N, F)), NEW filter \in F
  PROVE  AllFilters(AddFilter(query, filter)) = Append(AllFilters(query), filter)
<1> DEFINE root == <<ParsedNode(RootName, <<>>)>>
           present == IF query = <<>> THEN root ELSE query
           last == present[Len(present)]
           new == ParsedNode(last.name, Append(last.filters, filter))
<1>1. AddFilter(query, filter) = [present EXCEPT ![Len(present)] = new]
  BY DEF AddFilter
<1>2. ParsedNode(RootName, <<>>) \in QueryNodes(N, F)
  BY DEF ParsedNode, QueryNodes
<1>3. root \in Seq(QueryNodes(N, F)) /\ root # <<>>
  BY <1>2
<1>4. AllFilters(root) = <<>>
  <2> DEFINE node == ParsedNode(RootName, <<>>)
             none == <<>>
  <2>1. node.filters = none
    BY DEF ParsedNode
  <2>2. root = Append(none, node) /\ none \in Seq(QueryNodes(N, F)) /\ none \o none = none
    OBVIOUS
  <2>3. AllFilters(none) = none
    BY AllFiltersNone
  <2> HIDE DEF node, none
  <2>4. AllFilters(Append(none, node)) = AllFilters(none) \o node.filters
    <3>1. node \in QueryNodes(N, F) /\ none \in Seq(QueryNodes(N, F))
      BY <1>2, <2>2 DEF node
    <3> QED
      BY <3>1, AllFiltersSnoc
  <2> QED
    BY <2>1, <2>2, <2>3, <2>4 DEF node, none
<1> HIDE DEF root
<1>5. present \in Seq(QueryNodes(N, F)) /\ present # <<>>
  BY <1>3
<1>6. AllFilters(present) = AllFilters(query)
  BY <1>4, AllFiltersNone
<1> HIDE DEF present
<1>7. last.name \in N
  <2>1. last \in QueryNodes(N, F)
    BY <1>5, FrontIs
  <2> QED
    BY <2>1 DEF QueryNodes
<1> DEFINE name == last.name
<1>8. [present EXCEPT ![Len(present)] = new] = LastWith(present, name, filter)
  BY DEF LastWith
<1>9. name \in N
  BY <1>7
<1> HIDE DEF name, new, last
<1>10. AllFilters(LastWith(present, name, filter)) = Append(AllFilters(present), filter)
  BY <1>5, <1>9, AllFiltersLast
<1> QED
  BY <1>1, <1>6, <1>8, <1>10

(* AddParsedNode adds and loses none. *)
LEMMA AddParsedNodeJoins ==
  ASSUME NEW N, NEW F, RootName \in N, NEW query \in Seq(QueryNodes(N, F)), NEW name \in N
  PROVE  AllFilters(AddParsedNode(query, name)) = AllFilters(query)
<1> DEFINE Q == QueryNodes(N, F)
<1>1. CASE query # <<>> /\ query[1].name = RootName
  <2> DEFINE new == ParsedNode(name, query[1].filters)
             after == [query EXCEPT ![1] = new]
  <2>1. AddParsedNode(query, name) = after
    BY <1>1 DEF AddParsedNode
  <2>2. new.filters = query[1].filters
    BY DEF ParsedNode
  <2> HIDE DEF new
  <2>3. DOMAIN query = 1..Len(query) /\ Len(query) \in Nat \ {0}
    BY <1>1, EmptySeq, LenProperties
  <2>4. DOMAIN after = DOMAIN query
    OBVIOUS
  <2>5. \A k \in DOMAIN query : after[k].filters = query[k].filters
    BY <2>2, <2>3
  <2>6. Len(after) = Len(query)
    BY <2>3
  <2> HIDE DEF after
  <2> QED
    BY <2>1, <2>4, <2>5, <2>6, AllFiltersSame
<1>2. CASE ~(query # <<>> /\ query[1].name = RootName)
  <2> DEFINE none == <<>>
             new == ParsedNode(name, none)
             all == AllFilters(query)
  <2>1. AddParsedNode(query, name) = Append(query, new)
    BY <1>2 DEF AddParsedNode
  <2>2. new \in Q /\ new.filters = none
    BY DEF ParsedNode, QueryNodes
  <2> HIDE DEF new, none, all
  <2>3. AllFilters(Append(query, new)) = all \o new.filters /\ all \in Seq(F)
    BY <2>2, AllFiltersSnoc DEF all
  <2>4. all \o none = all
    BY <2>3, ConcatEmptySeq DEF none
  <2> QED
    BY <2>1, <2>2, <2>3, <2>4 DEF all
<1> QED
  BY <1>1, <1>2

-----------------------------------------------------------------------------
(* The front of what was appended to is what it was appended to. *)
LEMMA FrontOfAppend ==
  ASSUME NEW S, NEW s \in Seq(S), NEW e \in S
  PROVE  Front(Append(s, e)) = s /\ Append(s, e)[Len(Append(s, e))] = e
<1> DEFINE t == Append(s, e)
           front == Front(t)
<1>1. t \in Seq(S) /\ t # <<>> /\ Len(t) = Len(s) + 1 /\ Len(s) \in Nat
  BY AppendProperties, LenProperties
<1>2. t[Len(t)] = e /\ \A k \in 1..Len(s) : t[k] = s[k]
  BY <1>1, AppendProperties
<1> HIDE DEF t
<1>3. /\ front \in Seq(S) /\ Len(front) = Len(t) - 1
      /\ \A i \in 1..Len(t) - 1 : front[i] = t[i]
  BY <1>1, FrontIs
<1> HIDE DEF front
<1>4. Len(front) = Len(s) /\ \A i \in 1..Len(front) : front[i] = s[i]
  BY <1>1, <1>2, <1>3
<1>5. front = s
  BY <1>3, <1>4, SeqEqual
<1> QED
  BY <1>2, <1>5 DEF front, t

(* The names and the nodes that can occur. *)
AllNames == Names \cup {RootName}

AllNodes == QueryNodes(AllNames, Filters)

(* The nodes are those of the parts that are read, and the filters of the  *)
(* part that is being read are attached already.                           *)
ParserInv ==
  /\ typed \in Seq(AllNodes) /\ nodes \in Seq(AllNodes)
  /\ reading \in BOOLEAN /\ (reading => typed # <<>>)
  /\ reading => nodes = Filtered(Parsed(Front(typed)), LastPart.filters)
  /\ ~reading => nodes = Parsed(typed)
  /\ AllFilters(nodes) = AllFilters(typed)
  /\ status = "asked" =>
       /\ ~reading /\ typed # <<>> /\ func \in FunctionTypes
       /\ request = RequestOf(func, nodes) /\ request.call # "crash"

LEMMA InitParser == Init => ParserInv
<1> SUFFICES ASSUME Init PROVE ParserInv
  OBVIOUS
<1>1. typed = <<>> /\ nodes = <<>> /\ reading = FALSE /\ status = "reading"
  BY DEF Init
<1>2. typed \in Seq(AllNodes) /\ nodes \in Seq(AllNodes)
  BY <1>1
<1>3. nodes = Parsed(typed)
  BY <1>1, ParsedNone
<1>4. AllFilters(nodes) = AllFilters(typed)
  BY <1>1
<1> QED
  BY <1>1, <1>2, <1>3, <1>4 DEF ParserInv

LEMMA WordStep ==
  ASSUME ParserInv, NEW name \in Names, Word(name)
  PROVE  ParserInv'
<1> DEFINE none == <<>>
           part == ParsedNode(name, none)
<1>1. /\ typed' = Append(typed, part) /\ reading' = TRUE /\ nodes' = nodes
      /\ status' = "reading" /\ ~reading
  BY DEF Word
<1>2. part \in AllNodes /\ part.filters = none
  BY DEF ParsedNode, AllNodes, AllNames, QueryNodes
<1> HIDE DEF part, none
<1>3. typed \in Seq(AllNodes) /\ nodes \in Seq(AllNodes) /\ nodes = Parsed(typed)
  BY <1>1 DEF ParserInv
<1>4. typed' \in Seq(AllNodes) /\ typed' # <<>>
  BY <1>1, <1>2, <1>3, AppendProperties
<1>5. Front(typed') = typed /\ LastPart' = part
  BY <1>1, <1>2, <1>3, FrontOfAppend DEF LastPart
<1>6. nodes' = Filtered(Parsed(Front(typed')), LastPart'.filters)
  <2>1. Filtered(Parsed(typed), none) = Parsed(typed)
    BY FilteredNone DEF none
  <2> QED
    BY <1>1, <1>2, <1>3, <1>5, <2>1
<1>7. AllFilters(nodes') = AllFilters(typed')
  <2> DEFINE all == AllFilters(typed)
  <2>1. AllFilters(Append(typed, part)) = all \o part.filters /\ all \in Seq(Filters)
    <3>1. typed \in Seq(QueryNodes(AllNames, Filters)) /\ part \in QueryNodes(AllNames, Filters)
      BY <1>2, <1>3 DEF AllNodes
    <3> HIDE DEF part
    <3> QED
      BY <3>1, AllFiltersSnoc
  <2> HIDE DEF all
  <2>2. all \o none = all
    BY <2>1, ConcatEmptySeq DEF none
  <2>3. AllFilters(nodes) = all
    BY DEF ParserInv, all
  <2> QED
    BY <1>1, <1>2, <2>1, <2>2, <2>3
<1> QED
  BY <1>1, <1>3, <1>4, <1>6, <1>7 DEF ParserInv, LastPart

LEMMA ReduceFilterStep ==
  ASSUME ParserInv, NEW filter \in Filters, ReduceFilter(filter)
  PROVE  ParserInv'
<1> DEFINE last == LastPart
           name == last.name
           filters == last.filters
           front == Front(typed)
           more == Append(filters, filter)
           new == ParsedNode(name, more)
<1>1. /\ typed' = [typed EXCEPT ![Len(typed)] = new] /\ nodes' = AddFilter(nodes, filter)
      /\ reading' = reading /\ reading /\ status' = "reading"
  BY DEF ReduceFilter
<1>2. /\ typed \in Seq(AllNodes) /\ typed # <<>> /\ nodes \in Seq(AllNodes)
      /\ nodes = Filtered(Parsed(front), filters)
  BY <1>1 DEF ParserInv
<1>3. last \in AllNodes
  BY <1>2, FrontIs DEF LastPart
<1>4. name \in AllNames /\ filters \in Seq(Filters)
  <2> HIDE DEF last
  <2> QED
    BY <1>3 DEF AllNodes, QueryNodes
<1>5. new \in AllNodes /\ new.filters = more
  <2> HIDE DEF name, filters
  <2>1. more \in Seq(Filters)
    BY <1>4, AppendProperties
  <2> HIDE DEF more
  <2> QED
    BY <1>4, <2>1 DEF ParsedNode, AllNodes, QueryNodes
<1>6. typed' = LastWith(typed, name, filter)
  BY <1>1 DEF LastWith, LastPart
<1> HIDE DEF last, name, filters, front, more, new
<1>7. front \in Seq(AllNodes) /\ typed' = Append(front, new)
  BY <1>1, <1>2, <1>5, FrontIs DEF front
<1>8. typed' \in Seq(AllNodes) /\ typed' # <<>>
  BY <1>5, <1>7, AppendProperties
<1>9. Front(typed') = front /\ LastPart' = new
  BY <1>5, <1>7, FrontOfAppend DEF LastPart
<1>10. RootName \in AllNames
  BY DEF AllNames
<1>11. Parsed(front) \in Seq(AllNodes)
  BY <1>5, <1>7, <1>10, ParsedSnoc DEF AllNodes
<1>12. Filtered(Parsed(front), more) = AddFilter(nodes, filter)
  <2> DEFINE query == Parsed(front)
  <2>1. query \in Seq(QueryNodes(AllNames, Filters))
    BY <1>11 DEF AllNodes
  <2> HIDE DEF query
  <2>2. Filtered(query, Append(filters, filter)) = AddFilter(Filtered(query, filters), filter)
    BY <1>4, <1>10, <2>1, FilteredSnoc
  <2> QED
    BY <1>2, <2>2 DEF query, more
<1>13. nodes' = Filtered(Parsed(Front(typed')), LastPart'.filters)
  BY <1>1, <1>5, <1>9, <1>12
<1>14. nodes' \in Seq(AllNodes)
  BY <1>1, <1>2, <1>10, AddFilterIs DEF AllNodes
<1>15. AllFilters(nodes') = AllFilters(typed')
  <2>1. AllFilters(nodes') = Append(AllFilters(nodes), filter)
    BY <1>1, <1>2, <1>10, AddFilterJoins DEF AllNodes
  <2>2. AllFilters(typed') = Append(AllFilters(typed), filter)
    BY <1>2, <1>4, <1>6, AllFiltersLast DEF AllNodes
  <2>3. AllFilters(nodes) = AllFilters(typed)
    BY DEF ParserInv
  <2> QED
    BY <2>1, <2>2, <2>3
<1> QED
  BY <1>1, <1>8, <1>13, <1>14, <1>15 DEF ParserInv, LastPart

LEMMA ReduceIdentifierStep ==
  ASSUME ParserInv, ReduceIdentifier
  PROVE  ParserInv'
<1> DEFINE last == LastPart
           front == Front(typed)
<1>1. /\ nodes' = AddParsedNode(nodes, last.name) /\ reading' = FALSE /\ reading
      /\ typed' = typed /\ status' = "reading"
  BY DEF ReduceIdentifier
<1>2. /\ typed \in Seq(AllNodes) /\ typed # <<>> /\ nodes \in Seq(AllNodes)
      /\ nodes = Filtered(Parsed(front), last.filters)
  BY <1>1 DEF ParserInv
<1>3. front \in Seq(AllNodes) /\ last \in AllNodes /\ typed = Append(front, last)
  BY <1>2, FrontIs DEF LastPart
<1> HIDE DEF last, front
<1>4. last.name \in AllNames /\ RootName \in AllNames
  BY <1>3 DEF AllNodes, QueryNodes, AllNames
<1>5. nodes' = AddPart(Parsed(front), last)
  BY <1>1, <1>2 DEF AddPart, Filtered
<1>6. Parsed(typed) = AddPart(Parsed(front), last)
  BY <1>3, <1>4, ParsedSnoc DEF AllNodes
<1>7. nodes' \in Seq(AllNodes)
  BY <1>1, <1>2, <1>4, AddParsedNodeIs DEF AllNodes
<1>8. AllFilters(nodes') = AllFilters(nodes)
  BY <1>1, <1>2, <1>4, AddParsedNodeJoins DEF AllNodes
<1> QED
  BY <1>1, <1>2, <1>5, <1>6, <1>7, <1>8 DEF ParserInv

LEMMA ReduceQueryStep ==
  ASSUME ParserInv, NEW f \in FunctionTypes, ReduceQuery(f)
  PROVE  ParserInv'
<1>1. /\ func' = f /\ request' = RequestOf(f, nodes) /\ ~reading /\ typed # <<>>
      /\ nodes' = nodes /\ typed' = typed /\ reading' = reading
  BY DEF ReduceQuery
<1>2. status' = "asked" => request'.call # "crash"
  BY DEF ReduceQuery
<1> QED
  BY <1>1, <1>2 DEF ParserInv, LastPart

LEMMA ParserStep ==
  ASSUME ParserInv, [Next]_vars
  PROVE  ParserInv'
<1>1. CASE \E name \in Names : Word(name)
  BY <1>1, WordStep
<1>2. CASE \E filter \in Filters : ReduceFilter(filter)
  BY <1>2, ReduceFilterStep
<1>3. CASE ReduceIdentifier
  BY <1>3, ReduceIdentifierStep
<1>4. CASE \E f \in FunctionTypes : ReduceQuery(f)
  BY <1>4, ReduceQueryStep
<1>5. CASE SyntaxError
  BY <1>5 DEF SyntaxError, ParserInv, LastPart
<1>6. CASE UNCHANGED vars
  BY <1>6 DEF vars, ParserInv, LastPart
<1> QED
  BY <1>1, <1>2, <1>3, <1>4, <1>5, <1>6 DEF Next

(* The nodes are those of the parts that are read, at every moment of      *)
(* every command.                                                          *)
THEOREM NodesOfTheParts == Spec => []ParserInv
<1>1. Init => ParserInv
  BY InitParser
<1>2. ParserInv /\ [Next]_vars => ParserInv'
  BY ParserStep
<1> QED
  BY <1>1, <1>2, PTL DEF Spec

-----------------------------------------------------------------------------
LEMMA TypedIsPath == ParserInv => IsPath(typed, AllNames, Filters)
<1> SUFFICES ASSUME ParserInv PROVE IsPath(typed, AllNames, Filters)
  OBVIOUS
<1>1. typed \in Seq(AllNodes)
  BY DEF ParserInv
<1>2. Len(typed) \in Nat /\ DOMAIN typed = 1..Len(typed)
  BY <1>1
<1>3. \A k \in 1..Len(typed) : typed[k] \in AllNodes
  BY <1>1
<1>4. \A part \in AllNodes : part.name \in AllNames /\ part.filters \in Seq(Filters)
  BY DEF AllNodes, QueryNodes
<1>5. RootName \in AllNames
  BY DEF AllNames
<1> QED
  BY <1>2, <1>3, <1>4, <1>5 DEF IsPath

(* Without a part of that name none is taken for the placeholder. *)
LEMMA NodesNamedAsTyped ==
  ASSUME ParserInv, ~reading, \A i \in DOMAIN typed : typed[i].name # RootName
  PROVE  /\ Len(nodes) = Len(typed) /\ DOMAIN nodes = DOMAIN typed
         /\ DOMAIN typed = 1..Len(typed) /\ Len(typed) \in Nat
         /\ \A i \in DOMAIN typed : nodes[i].name = typed[i].name
<1>1. IsPath(typed, AllNames, Filters)
  BY TypedIsPath
<1>2. nodes = Parsed(typed) /\ nodes \in Seq(AllNodes)
  BY DEF ParserInv
<1>3. DOMAIN typed = 1..Len(typed) /\ Len(typed) \in Nat
  BY <1>1 DEF IsPath
<1>4. /\ Len(Parsed(typed)) = Len(typed)
      /\ \A i \in 1..Len(typed) : Parsed(typed)[i].name = typed[i].name
  BY <1>1, ParsedKeepsNames
<1> QED
  BY <1>2, <1>3, <1>4

(* No part and no filter is lost on the way into the query: parser.y       *)
(* attaches a filter before its node exists.                               *)
THEOREM KeepsWhatWasTyped == Spec => []QueryKeepsWhatWasTyped
<1>1. ASSUME ParserInv PROVE QueryKeepsWhatWasTyped
  <2> DEFINE Named(parts) == [i \in DOMAIN parts |-> parts[i].name]
  <2>1. AllFilters(nodes) = TypedFilters
    BY <1>1 DEF ParserInv, TypedFilters
  <2>2. ~reading => nodes = Parsed(typed)
    BY <1>1 DEF ParserInv
  <2>3. ASSUME ~reading, \A i \in DOMAIN typed : typed[i].name # RootName
        PROVE  Named(nodes) = Named(typed)
    <3>1. DOMAIN nodes = DOMAIN typed /\ \A i \in DOMAIN typed : nodes[i].name = typed[i].name
      BY <1>1, <2>3, NodesNamedAsTyped
    <3> QED
      BY <3>1
  <2> QED
    BY <2>1, <2>2, <2>3 DEF QueryKeepsWhatWasTyped
<1> QED
  BY <1>1, NodesOfTheParts, PTL

-----------------------------------------------------------------------------
(* The filters of a path of one part, and of two. *)
LEMMA AllFiltersOfOne ==
  ASSUME NEW N, NEW F, NEW s \in Seq(QueryNodes(N, F)), Len(s) = 1
  PROVE  AllFilters(s) = s[1].filters /\ s[1].filters \in Seq(F)
<1> DEFINE none == <<>>
           e == s[1]
           filters == e.filters
<1>1. e \in QueryNodes(N, F) /\ none \in Seq(QueryNodes(N, F)) /\ none \in Seq(F)
  OBVIOUS
<1>2. s = Append(none, e)
  OBVIOUS
<1> HIDE DEF e, none
<1>3. filters \in Seq(F)
  BY <1>1 DEF QueryNodes
<1>4. AllFilters(Append(none, e)) = AllFilters(none) \o filters
  BY <1>1, AllFiltersSnoc
<1>5. AllFilters(none) = none
  BY AllFiltersNone DEF none
<1> HIDE DEF filters
<1>6. none \o filters = filters
  BY <1>3, ConcatEmptySeq DEF none
<1> QED
  BY <1>2, <1>3, <1>4, <1>5, <1>6 DEF filters, e

LEMMA AllFiltersOfTwo ==
  ASSUME NEW N, NEW F, NEW s \in Seq(QueryNodes(N, F)), Len(s) = 2
  PROVE  /\ AllFilters(s) = s[1].filters \o s[2].filters
         /\ s[1].filters \in Seq(F) /\ s[2].filters \in Seq(F)
<1> DEFINE front == Front(s)
           last == s[2]
<1>1. s # <<>> /\ s[1] \in QueryNodes(N, F) /\ s[2] \in QueryNodes(N, F)
  <2>1. 1 \in 1..Len(s) /\ 2 \in 1..Len(s)
    OBVIOUS
  <2>2. s # <<>>
    <3>1. Len(s) # 0
      OBVIOUS
    <3> QED
      BY <3>1, EmptySeq
  <2> QED
    BY <2>1, <2>2, ElementOfSeq
<1>2. /\ front \in Seq(QueryNodes(N, F)) /\ Len(front) = 1 /\ front[1] = s[1]
      /\ s = Append(front, last) /\ last \in QueryNodes(N, F)
  <2>1. /\ front \in Seq(QueryNodes(N, F)) /\ Len(front) = Len(s) - 1
        /\ \A i \in 1..Len(s) - 1 : front[i] = s[i]
        /\ s = Append(front, s[Len(s)])
    BY <1>1, FrontIs
  <2> HIDE DEF front
  <2>2. 1 \in 1..Len(s) - 1 /\ Len(s) - 1 = 1
    OBVIOUS
  <2> QED
    BY <1>1, <2>1, <2>2
<1> HIDE DEF front, last
<1>3. AllFilters(front) = front[1].filters
  BY <1>2, AllFiltersOfOne
<1>4. AllFilters(Append(front, last)) = AllFilters(front) \o last.filters
  BY <1>2, AllFiltersSnoc
<1>5. s[1].filters \in Seq(F) /\ s[2].filters \in Seq(F)
  BY <1>1 DEF QueryNodes
<1> QED
  BY <1>2, <1>3, <1>4, <1>5 DEF last

(* Behind a node that is not the placeholder a part becomes a node without *)
(* filters: those that were read with it went to the node before.          *)
LEMMA AddPartLast ==
  ASSUME NEW N, NEW F, RootName \in N, NEW query \in Seq(QueryNodes(N, F)), query # <<>>,
         query[1].name # RootName, NEW part, part.filters \in Seq(F)
  PROVE  LET after == AddPart(query, part) IN after[Len(after)].filters = <<>>
<1> DEFINE filters == part.filters
           n == Len(filters)
           U == {u \in Seq(QueryNodes(N, F)) : u # <<>> /\ u[1].name # RootName}
           filtered == Filtered(query, filters)
           none == <<>>
           new == ParsedNode(part.name, none)
           after == AddPart(query, part)
<1>1. n \in Nat /\ DOMAIN filters = 1..n /\ \A k \in 1..n : filters[k] \in F
  BY LenProperties, ElementOfSeq
<1>2. ASSUME NEW u \in U, NEW k \in 1..n PROVE AddFilter(u, filters[k]) \in U
  <2> DEFINE f == filters[k]
             v == AddFilter(u, f)
  <2>1. f \in F /\ u \in Seq(QueryNodes(N, F)) /\ u # <<>> /\ u[1].name # RootName
    BY <1>1
  <2> HIDE DEF f
  <2>2. /\ v \in Seq(QueryNodes(N, F)) /\ Len(v) = Len(u)
        /\ \A i \in 1..Len(u) : v[i].name = u[i].name
    BY <2>1, AddFilterIs
  <2> HIDE DEF v
  <2>3. Len(u) \in Nat \ {0}
    BY <2>1, EmptySeq
  <2>4. v # <<>> /\ v[1].name # RootName
    BY <2>1, <2>2, <2>3
  <2> QED
    BY <2>2, <2>4 DEF v, f
<1>3. query \in U
  OBVIOUS
<1>4. filtered \in U
  <2> HIDE DEF U, filters, n
  <2>1. n \in Nat /\ DOMAIN filters = 1..n
    BY <1>1
  <2> QED
    BY <1>2, <1>3, <2>1, FilteredStays
<1> HIDE DEF filtered
<1>5. filtered \in Seq(QueryNodes(N, F)) /\ filtered # <<>> /\ filtered[1].name # RootName
  BY <1>4
<1>6. after = Append(filtered, new)
  BY <1>5 DEF AddPart, AddParsedNode, Filtered, filtered
<1>7. new.filters = none
  BY DEF ParsedNode
<1> HIDE DEF new, after, none
<1>8. Len(after) = Len(filtered) + 1 /\ after[Len(filtered) + 1] = new
  BY <1>5, <1>6
<1>9. after[Len(after)].filters = none
  BY <1>7, <1>8
<1> QED
  BY <1>9 DEF after, none

(* With filters at the end alone, all of them are the first node's: of two *)
(* parts the first has become a node before a filter is read.              *)
LEMMA FirstNodeFiltered ==
  ASSUME ParserInv, status = "asked", FilteredAtTheEnd, Len(typed) <= 2
  PROVE  nodes[1].filters = LastPart.filters /\ LastPart.filters \in Seq(Filters)
<1> DEFINE none == <<>>
<1>1. /\ ~reading /\ typed # <<>> /\ nodes = Parsed(typed)
      /\ typed \in Seq(AllNodes) /\ nodes \in Seq(AllNodes)
      /\ AllFilters(nodes) = AllFilters(typed)
  BY DEF ParserInv
<1>2. \A i \in DOMAIN typed : typed[i].name # RootName
  BY DEF FilteredAtTheEnd
<1>3. /\ Len(nodes) = Len(typed) /\ Len(typed) \in Nat \ {0} /\ DOMAIN typed = 1..Len(typed)
      /\ \A i \in DOMAIN typed : nodes[i].name = typed[i].name
  BY <1>1, <1>2, NodesNamedAsTyped, EmptySeq
<1>4. CASE Len(typed) = 1
  <2>1. AllFilters(typed) = typed[1].filters /\ typed[1].filters \in Seq(Filters)
    BY <1>1, <1>4, AllFiltersOfOne DEF AllNodes
  <2>2. AllFilters(nodes) = nodes[1].filters
    BY <1>1, <1>3, <1>4, AllFiltersOfOne DEF AllNodes
  <2> QED
    BY <1>1, <1>4, <2>1, <2>2 DEF LastPart
<1>5. CASE Len(typed) = 2
  <2> DEFINE front == Front(typed)
             part == typed[2]
             query == Parsed(front)
             fore == typed[1].filters
             filters == part.filters
             first == nodes[1].filters
             second == nodes[2].filters
  <2>1. /\ AllFilters(typed) = fore \o filters
        /\ fore \in Seq(Filters) /\ filters \in Seq(Filters)
    BY <1>1, <1>5, AllFiltersOfTwo DEF AllNodes
  <2>2. fore = none
    BY <1>5 DEF FilteredAtTheEnd
  <2>3. /\ AllFilters(nodes) = first \o second
        /\ first \in Seq(Filters) /\ second \in Seq(Filters)
    BY <1>1, <1>3, <1>5, AllFiltersOfTwo DEF AllNodes
  <2>4. /\ front \in Seq(AllNodes) /\ Len(front) = 1 /\ front[1] = typed[1]
        /\ typed = Append(front, part) /\ part \in AllNodes
    <3>1. typed[Len(typed)] \in AllNodes
      BY <1>1, FrontIs
    <3>2. /\ front \in Seq(AllNodes) /\ Len(front) = Len(typed) - 1
          /\ \A i \in 1..Len(typed) - 1 : front[i] = typed[i]
          /\ typed = Append(front, typed[Len(typed)])
      BY <1>1, <3>1, FrontIs
    <3> HIDE DEF front
    <3>3. 1 \in 1..Len(typed) - 1 /\ Len(typed) - 1 = 1
      BY <1>5
    <3> QED
      BY <1>5, <3>1, <3>2, <3>3
  <2>5. typed[1].name # RootName
    BY <1>2, <1>3
  <2> HIDE DEF front, part, query, fore, filters, first, second
  <2>6. RootName \in AllNames
    BY DEF AllNames
  <2>7. Parsed(typed) = AddPart(query, part) /\ query \in Seq(AllNodes)
    BY <2>4, <2>6, ParsedSnoc DEF AllNodes, query
  <2>8. query # <<>> /\ query[1].name # RootName
    <3>1. Len(front) \in Nat /\ DOMAIN front = 1..Len(front) /\ front[1] \in AllNodes
      BY <2>4
    <3>2. front[1].name \in AllNames /\ front[1].filters \in Seq(Filters)
      BY <3>1 DEF AllNodes, QueryNodes
    <3>3. IsPath(front, AllNames, Filters)
      BY <2>4, <2>6, <3>1, <3>2 DEF IsPath
    <3>4. \A i \in DOMAIN front : front[i].name # RootName
      BY <2>4, <2>5, <3>1
    <3>5. /\ Len(Parsed(front)) = Len(front)
          /\ \A i \in 1..Len(front) : Parsed(front)[i].name = front[i].name
      BY <3>3, <3>4, ParsedKeepsNames
    <3>6. Len(query) = 1 /\ query[1].name = front[1].name
      BY <2>4, <3>5 DEF query
    <3> QED
      BY <2>4, <2>5, <3>6
  <2>9. second = none
    <3>1. part.filters \in Seq(Filters)
      BY <2>1 DEF filters
    <3> DEFINE after == AddPart(query, part)
    <3>2. after[Len(after)].filters = <<>>
      BY <2>6, <2>7, <2>8, <3>1, AddPartLast DEF AllNodes
    <3>3. after = nodes /\ Len(nodes) = 2
      BY <1>1, <1>3, <1>5, <2>7
    <3> HIDE DEF after
    <3> QED
      BY <3>2, <3>3 DEF second
  <2>10. first \o none = first /\ none \o filters = filters
    BY <2>1, <2>3, ConcatEmptySeq
  <2>11. first = filters
    BY <1>1, <2>1, <2>2, <2>3, <2>9, <2>10
  <2> QED
    BY <1>5, <2>1, <2>11 DEF LastPart, first, filters, part
<1> QED
  BY <1>3, <1>4, <1>5

-----------------------------------------------------------------------------
(* What is asked for. *)

(* A sequence of at most one element is empty, or that one. *)
LEMMA AtMostOne ==
  ASSUME NEW S, NEW s \in Seq(S), Len(s) <= 1
  PROVE  s = <<>> \/ s = <<s[1]>>
<1> SUFFICES ASSUME s # <<>> PROVE s = <<s[1]>>
  OBVIOUS
<1> DEFINE n == Len(s)
           e == s[1]
           t == <<e>>
<1>1. n \in Nat \ {0} /\ n <= 1
  BY EmptySeq
<1> HIDE DEF n
<1>2. n = 1
  BY <1>1
<1>3. e \in S
  BY <1>2, ElementOfSeq DEF n
<1> HIDE DEF e
<1>4. t \in Seq(S) /\ Len(t) = 1 /\ t[1] = e
  BY <1>3
<1> HIDE DEF t
<1>5. \A i \in 1..Len(s) : s[i] = t[i]
  BY <1>2, <1>4 DEF e, n
<1> QED
  BY <1>2, <1>4, <1>5, SeqEqual DEF t, e, n

(* A command of one part, or of two, with at most one filter at the end    *)
(* asks for the parts and the filter that were typed.                      *)
THEOREM ExamplesAsked == Spec => []ExamplesAskedAsTyped
<1>1. ASSUME ParserInv, status = "asked", func \in {"NOP", "DELETE_OP"}, FilteredAtTheEnd,
             Len(typed) <= 2, Len(LastPart.filters) <= 1
      PROVE  AskedAsTyped
  <2> DEFINE filters == LastPart.filters
             plain == PathChain(nodes)
             extra == ExtraFilters(nodes)
             Added(s) == [i \in DOMAIN s |-> ExtraFilter(s[i])]
  <2>1. nodes[1].filters = filters /\ filters \in Seq(Filters)
    BY <1>1, FirstNodeFiltered
  <2>2. plain = PathChain(typed)
    <3>1. DOMAIN nodes = DOMAIN typed /\ \A i \in DOMAIN typed : nodes[i].name = typed[i].name
      BY <1>1, NodesNamedAsTyped DEF FilteredAtTheEnd, ParserInv
    <3> QED
      BY <3>1 DEF PathChain
  <2>3. extra = filters
    <3>1. filters \in Seq(Filters) /\ Len(filters) <= 1
      BY <1>1, <2>1
    <3> HIDE DEF filters
    <3>2. filters = <<>> \/ filters = <<filters[1]>>
      BY <3>1, AtMostOne
    <3> QED
      BY <2>1, <3>2 DEF ExtraFilters
  <2>4. request = RequestOf(func, nodes) /\ request.call # "crash"
    BY <1>1 DEF ParserInv
  <2>5. request.chain = Chain(nodes)
    <3>1. ~ChainCrashes(nodes)
      BY <1>1, <2>4 DEF RequestOf, Request
    <3> QED
      BY <1>1, <2>4, <3>1 DEF RequestOf, Request
  <2>6. Chain(nodes) = plain \o Added(extra)
    BY DEF Chain
  <2>7. request.chain = PathChain(typed) \o Added(filters)
    BY <2>2, <2>3, <2>5, <2>6
  <2> QED
    BY <2>7 DEF AskedAsTyped
<1>2. ParserInv => ExamplesAskedAsTyped
  BY <1>1 DEF ExamplesAskedAsTyped
<1> QED
  BY <1>2, NodesOfTheParts, PTL

(* A filter that compares is a comparison of a field. *)
LEMMA ComparedIs ==
  ASSUME NEW f \in Filters, f.operation = "EQUALS_OP"
  PROVE  f.type = "LOGICAL_OP"
<1>1. f.operation # "NO_OP" /\ f.operation # "ALL_OP"
  OBVIOUS
<1>2. f \notin {SingleValue(f.right), VarName(f.right), All}
  BY <1>1 DEF SingleValue, VarName, All, FilterExpr
<1>3. f = Compared(f.left, f.operation, f.right)
  BY <1>2, FiltersAssumption
<1> QED
  BY <1>3 DEF Compared, FilterExpr

(* A value has a word for each attribute. *)
LEMMA WordsAre ==
  /\ DOMAIN Attributes = 1..4
  /\ \A a \in 1..4 : WordOf(Attributes[a]) = a /\ IsAttribute(Attributes[a])
<1>1. DOMAIN Attributes = 1..4 /\ \A a, b \in 1..4 : Attributes[a] = Attributes[b] => a = b
  BY DEF Attributes
<1>2. ASSUME NEW a \in 1..4 PROVE WordOf(Attributes[a]) = a /\ IsAttribute(Attributes[a])
  <2>1. \A k \in DOMAIN Attributes : Attributes[k] = Attributes[a] <=> k = a
    BY <1>1
  <2> QED
    BY <1>1, <2>1 DEF WordOf, IsAttribute
<1> QED
  BY <1>1, <1>2

(* Of four filters that name all four attributes, each names one, and no   *)
(* two the same.                                                           *)
LEMMA FourNamed ==
  ASSUME NEW s, \A a \in 1..4 : \E i \in 1..4 : s[i].left = Attributes[a]
  PROVE  /\ \A i \in 1..4 : \E a \in 1..4 : s[i].left = Attributes[a]
         /\ \A i \in 1..4 : WordOf(s[i].left) \in 1..4 /\ IsAttribute(s[i].left)
         /\ \A i, j \in 1..4 : WordOf(s[i].left) = WordOf(s[j].left) => i = j
<1> DEFINE at == [a \in 1..4 |-> CHOOSE i \in 1..4 : s[i].left = Attributes[a]]
<1>1. \A a \in 1..4 : at[a] \in 1..4 /\ s[at[a]].left = Attributes[a]
  OBVIOUS
<1> HIDE DEF at
<1>2. \A a, b \in 1..4 : at[a] = at[b] => a = b
  <2>1. \A a, b \in 1..4 : Attributes[a] = Attributes[b] => a = b
    BY WordsAre
  <2> QED
    BY <1>1, <2>1
<1>3. \A i \in 1..4 : \E a \in 1..4 : at[a] = i
  <2>1. /\ at[1] \in 1..4 /\ at[2] \in 1..4 /\ at[3] \in 1..4 /\ at[4] \in 1..4
    BY <1>1
  <2>2. /\ at[1] # at[2] /\ at[1] # at[3] /\ at[1] # at[4]
        /\ at[2] # at[3] /\ at[2] # at[4] /\ at[3] # at[4]
    BY <1>2
  <2>3. \A i \in 1..4 : i = at[1] \/ i = at[2] \/ i = at[3] \/ i = at[4]
    BY <2>1, <2>2
  <2> QED
    BY <2>3
<1>4. ASSUME NEW i \in 1..4
      PROVE  \E a \in 1..4 : at[a] = i /\ s[i].left = Attributes[a] /\ WordOf(s[i].left) = a
                               /\ IsAttribute(s[i].left)
  <2>1. PICK a \in 1..4 : at[a] = i
    BY <1>3
  <2>2. s[i].left = Attributes[a]
    BY <1>1, <2>1
  <2> QED
    BY <2>1, <2>2, WordsAre
<1> QED
  BY <1>4

(* Four attributes that are set one after the other stay as they were set. *)
LEMMA ArgumentsAre ==
  ASSUME NEW s, DOMAIN s = 1..4, Len(s) = 4,
         \A i \in 1..4 : WordOf(s[i].left) \in 1..4,
         \A i, j \in 1..4 : WordOf(s[i].left) = WordOf(s[j].left) => i = j
  PROVE  \A i \in 1..4 : Arguments(s)[WordOf(s[i].left)] = s[i].right
<1> DEFINE W == {"(null)"} \cup {s[i].right : i \in 1..4}
           U == [1..4 -> W]
           kind == "attribute"
           n == 4
           w(i) == WordOf(s[i].left)
<1>1. \A u, x : Step(kind, u, x) = SetAttribute(u, x.left, x.right)
  BY DEF Step
<1>2. NoFileInfo \in U
  BY WordsAre DEF NoFileInfo
<1>3. ASSUME NEW u \in U, NEW i \in 1..4
      PROVE  /\ Step(kind, u, s[i]) \in U /\ Step(kind, u, s[i])[w(i)] = s[i].right
             /\ \A a \in 1..4 : a # w(i) => Step(kind, u, s[i])[a] = u[a]
  <2> DEFINE right == s[i].right
             place == w(i)
  <2>1. right \in W /\ place \in 1..4
    OBVIOUS
  <2>2. Step(kind, u, s[i]) = [u EXCEPT ![place] = right]
    BY <1>1 DEF SetAttribute
  <2> HIDE DEF right, place, W
  <2>3. /\ [u EXCEPT ![place] = right] \in U /\ [u EXCEPT ![place] = right][place] = right
        /\ \A a \in 1..4 : a # place => [u EXCEPT ![place] = right][a] = u[a]
    BY <2>1
  <2> QED
    BY <2>2, <2>3 DEF right, place
<1>4. n \in Nat /\ DOMAIN s = 1..n /\ \A u \in U, k \in 1..n : Step(kind, u, s[k]) \in U
  BY <1>3
<1>5. Arguments(s) = Folded(kind, NoFileInfo, s)
  BY ArgumentsFold
<1> HIDE DEF kind, n, U, W
<1>6. PICK h : FoldedFrom(kind, NoFileInfo, s, n, U, h)
  BY <1>2, <1>4, FoldedSteps
<1>7. h[4] = Arguments(s) /\ \A k \in 0..4 : h[k] \in U
  BY <1>5, <1>6 DEF FoldedFrom, n
<1>8. \A k \in 1..4 : h[k] = Step(kind, h[k - 1], s[k])
  BY <1>6 DEF FoldedFrom, n
<1>9. ASSUME NEW k \in 1..4
      PROVE  /\ h[k][w(k)] = s[k].right
             /\ \A i \in 1..4 : i # k => h[k][w(i)] = h[k - 1][w(i)]
  <2>1. k - 1 \in 0..4
    OBVIOUS
  <2>2. h[k - 1] \in U
    BY <1>7, <2>1
  <2>3. \A i \in 1..4 : i # k => w(i) # w(k) /\ w(i) \in 1..4
    OBVIOUS
  <2> HIDE DEF w
  <2>4. h[k] = Step(kind, h[k - 1], s[k])
    BY <1>8
  <2>5. /\ Step(kind, h[k - 1], s[k])[w(k)] = s[k].right
        /\ \A a \in 1..4 : a # w(k) => Step(kind, h[k - 1], s[k])[a] = h[k - 1][a]
    BY <1>3, <2>2
  <2> QED
    BY <2>3, <2>4, <2>5
<1>10. /\ h[1][w(1)] = s[1].right /\ h[2][w(2)] = s[2].right
       /\ h[3][w(3)] = s[3].right /\ h[4][w(4)] = s[4].right
  BY <1>9
<1> HIDE DEF w
<1>11. /\ h[2][w(1)] = h[1][w(1)]
       /\ h[3][w(1)] = h[2][w(1)] /\ h[3][w(2)] = h[2][w(2)]
       /\ h[4][w(1)] = h[3][w(1)] /\ h[4][w(2)] = h[3][w(2)] /\ h[4][w(3)] = h[3][w(3)]
  <2>1. 2 - 1 = 1 /\ 3 - 1 = 2 /\ 4 - 1 = 3
    OBVIOUS
  <2> QED
    BY <1>9, <2>1
<1>12. \A i \in 1..4 : h[4][w(i)] = s[i].right
  <2>1. \A i \in 1..4 : i = 1 \/ i = 2 \/ i = 3 \/ i = 4
    OBVIOUS
  <2> QED
    BY <1>10, <1>11, <2>1
<1> QED
  BY <1>7, <1>12 DEF w

(* A command that creates a file with its four attributes, in whatever     *)
(* order they are typed, creates it with these below the last part.        *)
THEOREM FileCreatedAsTyped == Spec => []CreatesFileAsTyped
<1> DEFINE s == LastPart.filters
<1>1. ASSUME ParserInv, status = "asked", func = "CREATE_OP", FilteredAtTheEnd, Len(typed) <= 2,
             \A a \in 1..4 : \E i \in DOMAIN s : s[i].left = Attributes[a], Len(s) = 4,
             \A i \in 1..4 : s[i].operation = "EQUALS_OP" /\ s[i].right # Number
      PROVE  /\ request.chain = PathChain(typed)
             /\ \A i \in 1..4 : request.value[WordOf(s[i].left)] = s[i].right
  <2>1. nodes[1].filters = s /\ s \in Seq(Filters)
    BY <1>1, FirstNodeFiltered
  <2>2. DOMAIN s = 1..4
    BY <1>1, <2>1
  <2>3. PathChain(nodes) = PathChain(typed)
    <3>1. DOMAIN nodes = DOMAIN typed /\ \A i \in DOMAIN typed : nodes[i].name = typed[i].name
      BY <1>1, NodesNamedAsTyped DEF FilteredAtTheEnd, ParserInv
    <3> QED
      BY <3>1 DEF PathChain
  <2>4. request = RequestOf(func, nodes)
    BY <1>1 DEF ParserInv
  <2>5. \A i \in 1..4 : s[i] \in Filters
    BY <2>1, <2>2
  <2>6. \A a \in 1..4 : \E i \in 1..4 : s[i].left = Attributes[a]
    BY <1>1, <2>2
  <2>7. Len(s) = 4 /\ \A i \in 1..4 : s[i].operation = "EQUALS_OP" /\ s[i].right # Number
    BY <1>1
  <2> HIDE DEF s
  <2>8. \A i \in 1..4 : s[i].type = "LOGICAL_OP"
    BY <2>5, <2>7, ComparedIs
  <2>9. /\ \A i \in 1..4 : WordOf(s[i].left) \in 1..4 /\ IsAttribute(s[i].left)
        /\ \A i, j \in 1..4 : WordOf(s[i].left) = WordOf(s[j].left) => i = j
    BY <2>6, FourNamed
  <2>10. ~ArgumentsCrash(s)
    <3>1. s # <<>>
      BY <2>7
    <3> QED
      BY <2>2, <2>7, <2>8, <2>9, <3>1 DEF ArgumentsCrash
  <2>11. request.chain = CreateChain(nodes) /\ request.value = Arguments(s)
    BY <1>1, <2>1, <2>4, <2>10 DEF RequestOf, Request
  <2>12. \A i \in 1..4 : Arguments(s)[WordOf(s[i].left)] = s[i].right
    BY <2>2, <2>7, <2>9, ArgumentsAre
  <2> QED
    BY <2>3, <2>11, <2>12 DEF CreateChain
<1>2. ParserInv => CreatesFileAsTyped
  BY <1>1 DEF CreatesFileAsTyped
<1> QED
  BY <1>2, NodesOfTheParts, PTL
=============================================================================
