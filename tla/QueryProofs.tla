---------------------------- MODULE QueryProofs -----------------------------
(***************************************************************************)
(* The two passes of a query agree, end with the answer of PathQuery, and  *)
(* no matcher overflows, for files of any size and chains of any length.   *)
(***************************************************************************)
EXTENDS Query, OperatorProofs

(* The invariant: what the rounds so far have made of the matchers.        *)

(* The nodes of a file ns that a matcher chooses, as Scanned. *)
Chosen(ns, matcher) == {x \in DOMAIN ns : Decide(matcher, ns[x]) = "yes"}

(* The parent of round i, of matchers ms on a file ns. *)
ParentAt(ms, ns, i) == IF i = 1 THEN NoNode ELSE First(Chosen(ns, ms[i - 1]))

Single(m) == m = <<m[1]>>
Paired(m, p) == m = <<m[1], ParentIs(p)>>

MatchersShort ==
  /\ Len(matchers) \in Nat
  /\ matchers = [i \in 1..Len(matchers) |-> matchers[i]]
  /\ \A i \in 1..Len(matchers) : Single(matchers[i]) \/ matchers[i] = <<matchers[i][1], matchers[i][2]>>

Counting ==
  pass = "count" =>
    /\ at \in 1..(Len(matchers) + 1)
    /\ parent = ParentAt(matchers, nodes, at)
    /\ \A i \in 1..(at - 1) : Paired(matchers[i], ParentAt(matchers, nodes, i))
    /\ \A i \in at..Len(matchers) : Single(matchers[i])
    /\ counted = IF at = 1 THEN 0 ELSE Cardinality(Chosen(nodes, matchers[at - 1]))

Getting ==
  pass = "get" =>
    /\ at \in 1..Len(matchers)
    /\ parent = ParentAt(matchers, nodes, at)
    /\ \A i \in 1..Len(matchers) : Paired(matchers[i], ParentAt(matchers, nodes, i))
    /\ counted = Cardinality(Chosen(nodes, matchers[Len(matchers)]))

QInv ==
  /\ pass \in {"count", "get", "answered", "crash"}
  /\ MatchersShort
  /\ Counting
  /\ Getting

(* A condition more is pushed behind the others. *)
LEMMA PushedIs ==
  ASSUME NEW c, NEW d, NEW e
  PROVE  /\ Append(<<c>>, d) = <<c, d>> /\ Append(<<c, d>>, e) = <<c, d, e>>
         /\ Len(<<c>>) = 1 /\ Len(<<c, d>>) = 2
<1> DEFINE S == {c, d, e}
<1>1. Len(<<c>>) = 1 /\ Len(<<c, d>>) = 2 /\ Len(<<c, d, e>>) = 3
  OBVIOUS
<1>2. <<c>> \in Seq(S) /\ <<c, d>> \in Seq(S) /\ <<c, d, e>> \in Seq(S)
  OBVIOUS
<1>3. ASSUME NEW s \in Seq(S), NEW x \in S, NEW t \in Seq(S),
             Len(t) = Len(s) + 1, t[Len(s) + 1] = x,
             \A i \in 1..Len(s) : t[i] = s[i]
      PROVE  Append(s, x) = t
  <2>1. /\ Append(s, x) \in Seq(S) /\ Len(Append(s, x)) = Len(s) + 1
        /\ \A i \in 1..Len(s) : Append(s, x)[i] = s[i]
        /\ Append(s, x)[Len(s) + 1] = x
    BY AppendProperties
  <2>2. Len(s) \in Nat
    BY LenProperties
  <2>3. \A i \in 1..Len(t) : Append(s, x)[i] = t[i]
    BY <1>3, <2>1, <2>2
  <2> QED
    BY <1>3, <2>1, <2>3, SeqEqual
<1>4. Append(<<c>>, d) = <<c, d>>
  <2> DEFINE short == <<c>>
             long == <<c, d>>
  <2>1. short \in Seq(S) /\ long \in Seq(S) /\ d \in S
    BY <1>2
  <2>2. Len(long) = Len(short) + 1 /\ long[Len(short) + 1] = d
    BY <1>1
  <2>3. \A i \in 1..Len(short) : long[i] = short[i]
    BY <1>1
  <2>4. Append(short, d) = long
    <3> HIDE DEF short, long, S
    <3> QED
      BY <1>3, <2>1, <2>2, <2>3
  <2> QED
    BY <2>4
<1>5. Append(<<c, d>>, e) = <<c, d, e>>
  <2> DEFINE short == <<c, d>>
             long == <<c, d, e>>
  <2>1. short \in Seq(S) /\ long \in Seq(S) /\ e \in S
    BY <1>2
  <2>2. Len(long) = Len(short) + 1 /\ long[Len(short) + 1] = e
    BY <1>1
  <2>3. \A i \in 1..Len(short) : long[i] = short[i]
    BY <1>1
  <2>4. Append(short, e) = long
    <3> HIDE DEF short, long, S
    <3> QED
      BY <1>3, <2>1, <2>2, <2>3
  <2> QED
    BY <2>4
<1> QED
  BY <1>1, <1>4, <1>5

(* A matcher of one or two conditions has room for more. *)
LEMMA RoomFor ==
  ASSUME NEW n, n = 1 \/ n = 2
  PROVE  n <= 2 /\ ~(n > 8)
OBVIOUS

(* The condition on the parent chooses the same when it is there twice. *)
LEMMA TwiceIsOnce ==
  ASSUME NEW ns, NEW c, NEW d
  PROVE  Chosen(ns, <<c, d, d>>) = Chosen(ns, <<c, d>>)
<1>1. ASSUME NEW node
      PROVE  Decide(<<c, d, d>>, node) = "yes" <=> Decide(<<c, d>>, node) = "yes"
  <2>1. Decide(<<c, d, d>>, node) = "yes"
          <=> \A i \in 1..3 : Evaluate(<<c, d, d>>[i], node) = "yes"
    <3>1. DOMAIN <<c, d, d>> = 1..3
      OBVIOUS
    <3> QED
      BY <3>1, DecideIs
  <2>2. Decide(<<c, d>>, node) = "yes"
          <=> \A i \in 1..2 : Evaluate(<<c, d>>[i], node) = "yes"
    <3>1. DOMAIN <<c, d>> = 1..2
      OBVIOUS
    <3> QED
      BY <3>1, DecideIs
  <2>3. (\A i \in 1..3 : Evaluate(<<c, d, d>>[i], node) = "yes")
          <=> /\ Evaluate(c, node) = "yes"
              /\ Evaluate(d, node) = "yes"
    OBVIOUS
  <2>4. (\A i \in 1..2 : Evaluate(<<c, d>>[i], node) = "yes")
          <=> /\ Evaluate(c, node) = "yes"
              /\ Evaluate(d, node) = "yes"
    OBVIOUS
  <2> QED
    BY <2>1, <2>2, <2>3, <2>4
<1> QED
  BY <1>1 DEF Chosen

LEMMA InitQuery == Init => QInv
<1> SUFFICES ASSUME Init PROVE QInv
  OBVIOUS
<1>1. PICK chain \in Chains : matchers = [i \in DOMAIN chain |-> <<ConditionOf(chain[i])>>]
  BY DEF Init
<1>2. Len(chain) \in Nat /\ DOMAIN chain = 1..Len(chain)
  BY ChainsAssumption
<1>3. Len(matchers) = Len(chain)
  <2>1. matchers = [i \in 1..Len(chain) |-> matchers[i]]
    BY <1>1, <1>2
  <2> QED
    BY <1>2, <2>1, LengthIs
<1>4. MatchersShort /\ \A i \in 1..Len(matchers) : Single(matchers[i])
  BY <1>1, <1>2, <1>3 DEF MatchersShort, Single
<1>5. pass = "count" /\ at = 1 /\ parent = NoNode /\ counted = 0
  BY DEF Init
<1>6. Counting
  <2>1. Len(matchers) \in Nat
    BY <1>4 DEF MatchersShort
  <2>2. at \in 1..(Len(matchers) + 1) /\ \A i \in 1..(at - 1) : FALSE
    BY <1>5, <2>1
  <2>3. parent = ParentAt(matchers, nodes, at)
    BY <1>5 DEF ParentAt
  <2> QED
    BY <1>4, <1>5, <2>2, <2>3 DEF Counting
<1> QED
  BY <1>4, <1>5, <1>6 DEF QInv, Getting

LEMMA CountKeeps ==
  ASSUME QInv, Count
  PROVE  QInv'
<1> DEFINE m == WithParent(matchers[at])
<1>1. /\ pass = "count" /\ at \in 1..Len(matchers) /\ Len(matchers) \in Nat
      /\ parent = ParentAt(matchers, nodes, at)
      /\ matchers = [i \in 1..Len(matchers) |-> matchers[i]]
  BY DEF Count, QInv, Counting, MatchersShort
<1>2. m = <<matchers[at][1], ParentIs(parent)>>
  <2>1. matchers[at] = <<matchers[at][1]>>
    BY <1>1 DEF QInv, Counting, Single
  <2> QED
    BY <2>1, PushedIs DEF WithParent
<1>3. CASE Scanned(m) = {}
  <2>1. pass' = "answered" /\ UNCHANGED matchers
    BY <1>3 DEF Count
  <2> QED
    BY <2>1 DEF QInv, Counting, Getting, MatchersShort, Single
<1>4. CASE Scanned(m) # {}
  <2>1. /\ matchers' = [matchers EXCEPT ![at] = m]
        /\ parent' = First(Scanned(m)) /\ at' = at + 1
        /\ counted' = Cardinality(Scanned(m))
        /\ UNCHANGED <<pass, nodes>>
    BY <1>4 DEF Count
  <2> HIDE DEF m
  <2>2. /\ matchers' = [i \in 1..Len(matchers) |-> matchers'[i]]
        /\ matchers'[at] = m
        /\ \A i \in 1..Len(matchers) : i # at => matchers'[i] = matchers[i]
    BY <1>1, <2>1
  <2>3. Len(matchers') = Len(matchers)
    BY <1>1, <2>2, LengthIs
  <2>4. Scanned(m) = Chosen(nodes, m)
    BY DEF Scanned, Chosen
  <2>5. \A i \in 1..at : ParentAt(matchers', nodes, i) = ParentAt(matchers, nodes, i)
    BY <1>1, <2>2 DEF ParentAt
  <2>6. MatchersShort'
    <3>1. \A i \in 1..Len(matchers) :
             Single(matchers'[i]) \/ matchers'[i] = <<matchers'[i][1], matchers'[i][2]>>
      <4> SUFFICES ASSUME NEW i \in 1..Len(matchers)
                   PROVE  Single(matchers'[i]) \/ matchers'[i] = <<matchers'[i][1], matchers'[i][2]>>
        OBVIOUS
      <4>1. CASE i = at
        BY <1>2, <2>2, <4>1
      <4>2. CASE i # at
        BY <2>2, <4>2 DEF QInv, MatchersShort
      <4> QED
        BY <4>1, <4>2
    <3> QED
      BY <1>1, <2>2, <2>3, <3>1 DEF MatchersShort
  <2>7. Counting'
    <3>1. at' \in 1..(Len(matchers') + 1)
      BY <1>1, <2>1, <2>3
    <3>2. parent' = ParentAt(matchers', nodes', at')
      BY <1>1, <2>1, <2>2, <2>4 DEF ParentAt
    <3>3. \A i \in 1..(at' - 1) : Paired(matchers'[i], ParentAt(matchers', nodes', i))
      <4> SUFFICES ASSUME NEW i \in 1..at
                   PROVE  Paired(matchers'[i], ParentAt(matchers, nodes, i))
        <5>1. at' - 1 = at /\ nodes' = nodes
          BY <1>1, <2>1
        <5> QED
          BY <2>5, <5>1
      <4>1. CASE i = at
        BY <1>1, <1>2, <2>2, <4>1 DEF Paired
      <4>2. CASE i # at
        BY <1>1, <2>2, <4>2 DEF QInv, Counting
      <4> QED
        BY <4>1, <4>2
    <3>4. \A i \in at'..Len(matchers') : Single(matchers'[i])
      BY <1>1, <2>1, <2>2, <2>3 DEF QInv, Counting
    <3>5. counted' = IF at' = 1 THEN 0 ELSE Cardinality(Chosen(nodes', matchers'[at' - 1]))
      BY <1>1, <2>1, <2>2, <2>4
    <3> QED
      BY <3>1, <3>2, <3>3, <3>4, <3>5 DEF Counting
  <2> QED
    BY <1>1, <2>1, <2>6, <2>7 DEF QInv, Getting
<1> QED
  BY <1>3, <1>4

LEMMA CountEndsKeeps ==
  ASSUME QInv, CountEnds
  PROVE  QInv'
<1>1. /\ pass = "count" /\ at \in 1..(Len(matchers) + 1) /\ at > Len(matchers)
      /\ Len(matchers) \in Nat
  BY DEF CountEnds, QInv, Counting, MatchersShort
<1>2. /\ pass' = IF counted = 0 THEN "answered" ELSE "get"
      /\ at' = 1 /\ parent' = NoNode /\ UNCHANGED <<matchers, nodes, counted>>
  BY DEF CountEnds
<1>3. at = Len(matchers) + 1
  BY <1>1
<1>4. Len(matchers) = 0 => counted = 0
  BY <1>1, <1>3 DEF QInv, Counting
<1>5. MatchersShort'
  BY <1>2 DEF QInv, MatchersShort, Single
<1>6. Getting'
  <2> SUFFICES ASSUME pass' = "get" PROVE Getting'
    BY DEF Getting
  <2>1. Len(matchers) >= 1
    BY <1>1, <1>2, <1>4
  <2>2. at' \in 1..Len(matchers')
    BY <1>1, <1>2, <2>1
  <2>3. parent' = ParentAt(matchers', nodes', at')
    BY <1>2 DEF ParentAt
  <2>4. \A i \in 1..Len(matchers') : Paired(matchers'[i], ParentAt(matchers', nodes', i))
    BY <1>1, <1>2, <1>3 DEF QInv, Counting
  <2>5. counted' = Cardinality(Chosen(nodes', matchers'[Len(matchers')]))
    <3>1. at # 1 /\ at - 1 = Len(matchers)
      BY <1>1, <1>3, <2>1
    <3> QED
      BY <1>1, <1>2, <3>1 DEF QInv, Counting
  <2> QED
    BY <2>2, <2>3, <2>4, <2>5 DEF Getting
<1> QED
  BY <1>2, <1>5, <1>6 DEF QInv, Counting

LEMMA GetKeeps ==
  ASSUME QInv, Get
  PROVE  QInv'
<1> DEFINE m == WithParent(matchers[at])
<1>1. /\ pass = "get" /\ at \in 1..Len(matchers) /\ Len(matchers) \in Nat
      /\ parent = ParentAt(matchers, nodes, at)
  BY DEF Get, QInv, Getting, MatchersShort
<1>2. UNCHANGED <<matchers, nodes, counted>>
  BY DEF Get
<1>3. Scanned(m) = Chosen(nodes, matchers[at])
  <2>1. matchers[at] = <<matchers[at][1], ParentIs(parent)>>
    BY <1>1 DEF QInv, Getting, Paired
  <2>2. m = <<matchers[at][1], ParentIs(parent), ParentIs(parent)>>
    BY <2>1, PushedIs DEF WithParent
  <2>3. Chosen(nodes, m) = Chosen(nodes, matchers[at])
    BY <2>1, <2>2, TwiceIsOnce
  <2> QED
    BY <2>3 DEF Scanned, Chosen
<1>4. MatchersShort'
  BY <1>2 DEF QInv, MatchersShort, Single
<1>5. CASE Scanned(m) = {}
  <2>1. pass' = "answered"
    BY <1>5 DEF Get
  <2> QED
    BY <1>4, <2>1 DEF QInv, Counting, Getting
<1>6. CASE Scanned(m) # {} /\ at < Len(matchers)
  <2>1. parent' = First(Scanned(m)) /\ at' = at + 1 /\ UNCHANGED pass
    BY <1>1, <1>6 DEF Get
  <2>2. at' \in 1..Len(matchers') /\ at' # 1 /\ at' - 1 = at
    BY <1>1, <1>2, <1>6, <2>1
  <2>3. parent' = ParentAt(matchers', nodes', at')
    <3> HIDE DEF m
    <3> QED
      BY <1>2, <1>3, <2>1, <2>2 DEF ParentAt
  <2>4. Getting'
    BY <1>1, <1>2, <2>2, <2>3 DEF QInv, Getting
  <2> QED
    BY <1>1, <1>4, <2>1, <2>4 DEF QInv, Counting
<1>7. CASE Scanned(m) # {} /\ at = Len(matchers)
  <2>1. counted = Cardinality(Scanned(m))
    <3> HIDE DEF m
    <3> QED
      BY <1>1, <1>3, <1>7 DEF QInv, Getting
  <2>2. pass' = "answered"
    BY <1>1, <1>7, <2>1 DEF Get
  <2> QED
    BY <1>4, <2>2 DEF QInv, Counting, Getting
<1> QED
  BY <1>1, <1>5, <1>6, <1>7

(* A pass fails on a condition that ends the process, and never because of *)
(* too many conditions.                                                    *)
LEMMA FailsByCrash ==
  ASSUME QInv, StepFails
  PROVE  /\ pass' = "crash" /\ ScanCrashes(WithParent(matchers[at]))
         /\ UNCHANGED <<nodes, matchers, answer>>
<1>1. ~Full(matchers[at])
  <2>1. at \in 1..Len(matchers)
    BY DEF StepFails, QInv, Counting, Getting, MatchersShort
  <2>2. Len(matchers[at]) = 1 \/ Len(matchers[at]) = 2
    <3>1. Single(matchers[at]) \/ matchers[at] = <<matchers[at][1], matchers[at][2]>>
      BY <2>1 DEF QInv, MatchersShort
    <3> QED
      BY <3>1, PushedIs DEF Single
  <2> QED
    BY <2>2, RoomFor DEF Full
<1> QED
  BY <1>1 DEF StepFails

LEMMA StepFailsKeeps ==
  ASSUME QInv, StepFails
  PROVE  QInv'
  BY FailsByCrash DEF QInv, MatchersShort, Counting, Getting, Single

LEMMA QInvKeeps == QInv /\ [Next]_vars => QInv'
<1> SUFFICES ASSUME QInv, [Next]_vars PROVE QInv'
  OBVIOUS
<1>1. CASE StepFails
  BY <1>1, StepFailsKeeps
<1>2. CASE Count
  BY <1>2, CountKeeps
<1>3. CASE CountEnds
  BY <1>3, CountEndsKeeps
<1>4. CASE Get
  BY <1>4, GetKeeps
<1>5. CASE UNCHANGED vars
  BY <1>5 DEF vars, QInv, MatchersShort, Counting, Getting, Single, Paired
<1> QED
  BY <1>1, <1>2, <1>3, <1>4, <1>5 DEF Next

(* The second pass always finds as many nodes as the first counted, and no *)
(* matcher gets more than two conditions: the assertion of document.c:540  *)
(* and the abort of node_value_matcher.c:29 stop no query, whatever file   *)
(* is asked and however long the chain.                                    *)
THEOREM PassesAlwaysAgree == Spec => []PassesAgree
<1>1. Init => QInv
  BY InitQuery
<1>2. QInv => PassesAgree
  <2> SUFFICES ASSUME QInv PROVE PassesAgree
    OBVIOUS
  <2>1. ASSUME NEW i \in DOMAIN matchers PROVE Len(matchers[i]) <= 2
    <3>1. i \in 1..Len(matchers)
      BY LengthIs DEF QInv, MatchersShort
    <3>2. Single(matchers[i]) \/ matchers[i] = <<matchers[i][1], matchers[i][2]>>
      BY <3>1 DEF QInv, MatchersShort
    <3>3. Len(matchers[i]) = 1 \/ Len(matchers[i]) = 2
      BY <3>2, PushedIs DEF Single
    <3> QED
      BY <3>3, RoomFor
  <2> QED
    BY <2>1 DEF QInv, PassesAgree
<1> QED
  BY <1>1, <1>2, QInvKeeps, PTL DEF Spec

-----------------------------------------------------------------------------
(* What the passes answer.                                                 *)

(* The first k conditions of a path led to the first node they chose, and  *)
(* none of them ends the process on any node of the file.                  *)
Walked(ns, ms, path, k) ==
  \A i \in 1..k :
    /\ Way(ns, path)[i] = {First(Chosen(ns, ms[i]))}
    /\ Chosen(ns, ms[i]) # {}
    /\ \A x \in DOMAIN ns : Evaluate(path[i], ns[x]) # "crash"

AnswerInv ==
  /\ nodes \in Forests
  /\ pass \in {"count", "get"} => answer = {}
  /\ pass = "count" => Walked(nodes, matchers, Path, at - 1)
  /\ pass = "get" => Walked(nodes, matchers, Path, Len(matchers))
  /\ EndsWithTheAnswer

LEMMA PathIs ==
  ASSUME QInv
  PROVE  /\ Len(Path) = Len(matchers) /\ Len(Path) \in Nat
         /\ DOMAIN Path = 1..Len(Path)
         /\ \A i \in 1..Len(Path) : Path[i] = matchers[i][1]
         /\ Path = <<>> <=> Len(Path) = 0
<1>1. Len(matchers) \in Nat /\ matchers = [i \in 1..Len(matchers) |-> matchers[i]]
  BY DEF QInv, MatchersShort
<1>2. DOMAIN matchers = 1..Len(matchers)
  BY <1>1, LengthIs
<1>3. Path = [i \in 1..Len(matchers) |-> matchers[i][1]]
  BY <1>2 DEF Path
<1>4. Path = [i \in 1..Len(matchers) |-> Path[i]]
  BY <1>3
<1>5. Len(Path) = Len(matchers) /\ DOMAIN Path = 1..Len(matchers)
  BY <1>1, <1>4, LengthIs
<1>6. Path = <<>> <=> Len(Path) = 0
  <2> DEFINE S == {Path[i] : i \in 1..Len(matchers)}
  <2>1. Path \in [1..Len(matchers) -> S]
    BY <1>3
  <2>2. Path \in Seq(S)
    <3> HIDE DEF S
    <3> QED
      BY <1>1, <2>1, SequenceOf
  <2> QED
    BY <2>2, EmptySeq
<1> QED
  BY <1>1, <1>3, <1>5, <1>6

(* A matcher with the condition on the parent, once or twice, ends the     *)
(* process where its first condition does, and chooses as Below says.      *)
LEMMA PairIs ==
  ASSUME NEW ns, NEW c, NEW p
  PROVE  /\ Chosen(ns, <<c, ParentIs(p)>>) = Below(ns, c, {p})
         /\ \A x \in DOMAIN ns :
              /\ Decide(<<c, ParentIs(p)>>, ns[x]) = "crash" <=> Evaluate(c, ns[x]) = "crash"
              /\ Decide(<<c, ParentIs(p), ParentIs(p)>>, ns[x]) = "crash"
                   <=> Evaluate(c, ns[x]) = "crash"
<1>1. Chosen(ns, <<c, ParentIs(p)>>) = Below(ns, c, {p})
  BY DEF Chosen, Below
<1> DEFINE d == ParentIs(p)
<1>2. \A node : Evaluate(d, node) # "crash"
  BY ParentVerdict
<1> HIDE DEF d
<1>3. ASSUME NEW node
      PROVE  /\ Decide(<<c, d>>, node) = "crash" <=> Evaluate(c, node) = "crash"
             /\ Decide(<<c, d, d>>, node) = "crash" <=> Evaluate(c, node) = "crash"
  <2>1. DOMAIN <<c, d>> = 1..2 /\ <<c, d>>[1] = c /\ \A i \in 2..2 : <<c, d>>[i] = d
    OBVIOUS
  <2>2. DOMAIN <<c, d, d>> = 1..3 /\ <<c, d, d>>[1] = c /\ \A i \in 2..3 : <<c, d, d>>[i] = d
    OBVIOUS
  <2>3. \A i \in 2..2 : Evaluate(<<c, d>>[i], node) # "crash"
    BY <1>2, <2>1
  <2>4. \A i \in 2..3 : Evaluate(<<c, d, d>>[i], node) # "crash"
    BY <1>2, <2>2
  <2>5. Decide(<<c, d>>, node) = "crash" <=> Evaluate(<<c, d>>[1], node) = "crash"
    <3>1. 2 \in Nat /\ 2 >= 1
      OBVIOUS
    <3> QED
      BY <2>1, <2>3, <3>1, DecideCrashes
  <2>6. Decide(<<c, d, d>>, node) = "crash" <=> Evaluate(<<c, d, d>>[1], node) = "crash"
    <3>1. 3 \in Nat /\ 3 >= 1
      OBVIOUS
    <3> QED
      BY <2>2, <2>4, <3>1, DecideCrashes
  <2> QED
    BY <2>1, <2>2, <2>5, <2>6
<1> QED
  BY <1>1, <1>3 DEF d

(* The parent of the next round is where the way has come to. *)
LEMMA WalkedTo ==
  ASSUME NEW ns, NEW ms, NEW path, Len(path) \in Nat, NEW k \in 0..Len(path),
         Walked(ns, ms, path, k)
  PROVE  \A i \in 1..k + 1 : Way(ns, path)[i - 1] = {ParentAt(ms, ns, i)}
<1> SUFFICES ASSUME NEW i \in 1..k + 1
             PROVE  Way(ns, path)[i - 1] = {ParentAt(ms, ns, i)}
  OBVIOUS
<1>1. CASE i = 1
  BY <1>1, WayIs DEF ParentAt
<1>2. CASE i # 1
  <2>1. i - 1 \in 1..k
    BY <1>2
  <2> QED
    BY <1>2, <2>1 DEF Walked, ParentAt
<1> QED
  BY <1>1, <1>2

LEMMA InitAnswer == Init => AnswerInv
  BY DEF Init, AnswerInv, Walked, EndsWithTheAnswer

(* What the way so far says of the end of the process: none while no       *)
(* condition it asked crashes, one as soon as the next does.               *)
LEMMA WalkCrashes ==
  ASSUME NEW ns, NEW ms, NEW path, Len(path) \in Nat, DOMAIN path = 1..Len(path)
  PROVE  /\ Walked(ns, ms, path, Len(path)) => ~Crashes(ns, path)
         /\ \A k \in 1..Len(path) :
              Walked(ns, ms, path, k - 1)
                /\ (\E x \in DOMAIN ns : Evaluate(path[k], ns[x]) = "crash")
              => Crashes(ns, path)
<1>1. Walked(ns, ms, path, Len(path)) => ~Crashes(ns, path)
  BY DEF Walked, Crashes
<1>2. ASSUME NEW k \in 1..Len(path), Walked(ns, ms, path, k - 1),
             \E x \in DOMAIN ns : Evaluate(path[k], ns[x]) = "crash"
      PROVE  Crashes(ns, path)
  <2>1. k - 1 \in 0..Len(path) /\ k \in 1..(k - 1) + 1 /\ k \in DOMAIN path
    OBVIOUS
  <2>2. Way(ns, path)[k - 1] # {}
    <3>1. \A i \in 1..(k - 1) + 1 : Way(ns, path)[i - 1] = {ParentAt(ms, ns, i)}
      BY <1>2, <2>1, WalkedTo
    <3> QED
      BY <2>1, <3>1
  <2> QED
    BY <1>2, <2>1, <2>2 DEF Crashes
<1> QED
  BY <1>1, <1>2

(* A condition that chooses nothing ends the walk: nothing is answered,    *)
(* and no later condition is asked.                                        *)
LEMMA DeadEnd ==
  ASSUME NEW ns, NEW ms, NEW path, Len(path) \in Nat, DOMAIN path = 1..Len(path),
         path # <<>>, NEW k \in 1..Len(path), Walked(ns, ms, path, k - 1),
         \A x \in DOMAIN ns : Evaluate(path[k], ns[x]) # "crash",
         Below(ns, path[k], Way(ns, path)[k - 1]) = {}
  PROVE  Answer(ns, path) = {} /\ ~Crashes(ns, path)
<1>1. Way(ns, path)[k] = {}
  <2>1. \A j \in 1..Len(path) :
          Way(ns, path)[j] = Leads(Below(ns, path[j], Way(ns, path)[j - 1]))
    BY WayIs
  <2>2. Way(ns, path)[k] = Leads(Below(ns, path[k], Way(ns, path)[k - 1]))
    BY <2>1
  <2> QED
    BY <2>2 DEF Leads
<1>2. \A j \in k..Len(path) : Way(ns, path)[j] = {}
  BY <1>1, WayStaysEmpty
<1>3. Answer(ns, path) = {}
  <2>1. Answer(ns, path) = Below(ns, path[Len(path)], Way(ns, path)[Len(path) - 1])
    BY DEF Answer
  <2>2. CASE k = Len(path)
    BY <2>1, <2>2
  <2>3. CASE k # Len(path)
    <3> DEFINE n == Len(path)
    <3>1. Len(path) - 1 \in k..Len(path)
      <4>1. n \in Nat /\ k \in 1..n /\ k # n
        BY <2>3
      <4> HIDE DEF n
      <4>2. n - 1 \in k..n
        BY <4>1
      <4> QED
        BY <4>2 DEF n
    <3>2. Way(ns, path)[Len(path) - 1] = {}
      BY <1>2, <3>1
    <3> QED
      BY <2>1, <3>2, BelowIs
  <2> QED
    BY <2>2, <2>3
<1>4. ASSUME NEW j \in 1..Len(path), Way(ns, path)[j - 1] # {}
      PROVE  \A x \in DOMAIN ns : Evaluate(path[j], ns[x]) # "crash"
  <2>1. CASE j < k
    <3>1. j \in 1..k - 1
      BY <2>1
    <3> QED
      BY <3>1 DEF Walked
  <2>2. CASE j = k
    BY <2>2
  <2>3. CASE j > k
    <3>1. j - 1 \in k..Len(path)
      BY <2>3
    <3> QED
      BY <1>2, <1>4, <3>1
  <2> QED
    BY <2>1, <2>2, <2>3
<1> QED
  BY <1>3, <1>4 DEF Crashes

LEMMA CountAnswers ==
  ASSUME QInv, AnswerInv, Count
  PROVE  AnswerInv'
<1> DEFINE m == WithParent(matchers[at])
           c == matchers[at][1]
<1>1. /\ pass = "count" /\ at \in 1..Len(matchers) /\ Len(matchers) \in Nat
      /\ parent = ParentAt(matchers, nodes, at)
      /\ matchers = [i \in 1..Len(matchers) |-> matchers[i]]
      /\ answer = {} /\ Walked(nodes, matchers, Path, at - 1)
      /\ UNCHANGED <<nodes, answer>>
  BY DEF Count, QInv, Counting, MatchersShort, AnswerInv
<1>2. m = <<c, ParentIs(parent)>>
  <2>1. matchers[at] = <<matchers[at][1]>>
    BY <1>1 DEF QInv, Counting, Single
  <2> QED
    BY <2>1, PushedIs DEF WithParent
<1>3. /\ Len(Path) = Len(matchers) /\ Len(Path) \in Nat /\ DOMAIN Path = 1..Len(Path)
      /\ Path[at] = c /\ Path # <<>>
  <2>1. /\ Len(Path) = Len(matchers) /\ Len(Path) \in Nat /\ DOMAIN Path = 1..Len(Path)
        /\ \A i \in 1..Len(Path) : Path[i] = matchers[i][1]
        /\ Path = <<>> <=> Len(Path) = 0
    BY PathIs
  <2>2. at \in 1..Len(Path) /\ Len(Path) # 0
    BY <1>1, <2>1
  <2> QED
    BY <2>1, <2>2
<1>4. Way(nodes, Path)[at - 1] = {parent}
  <2>1. at - 1 \in 0..Len(Path) /\ at \in 1..(at - 1) + 1
    BY <1>1, <1>3
  <2> DEFINE path == Path
             k == at - 1
  <2>2. Len(path) \in Nat /\ k \in 0..Len(path) /\ Walked(nodes, matchers, path, k)
    BY <1>1, <1>3, <2>1
  <2> HIDE DEF path, k
  <2>3. \A i \in 1..k + 1 : Way(nodes, path)[i - 1] = {ParentAt(matchers, nodes, i)}
    BY <2>2, WalkedTo
  <2> QED
    BY <1>1, <2>1, <2>3 DEF path, k
<1>5. Scanned(m) = Chosen(nodes, m) /\ Chosen(nodes, m) = Below(nodes, c, {parent})
  <2>1. Chosen(nodes, <<c, ParentIs(parent)>>) = Below(nodes, c, {parent})
    BY PairIs
  <2> QED
    BY <1>2, <2>1 DEF Scanned, Chosen
<1>6. \A x \in DOMAIN nodes : Evaluate(c, nodes[x]) # "crash"
  <2>1. \A x \in DOMAIN nodes : Decide(m, nodes[x]) # "crash"
    BY DEF Count, Scannable, ScanCrashes
  <2>2. \A x \in DOMAIN nodes :
          Decide(<<c, ParentIs(parent)>>, nodes[x]) = "crash" <=> Evaluate(c, nodes[x]) = "crash"
    BY PairIs
  <2> QED
    BY <1>2, <2>1, <2>2
<1>7. CASE Scanned(m) = {}
  <2>1. pass' = "answered" /\ UNCHANGED matchers
    BY <1>7 DEF Count
  <2>2. Path' = Path
    BY <2>1 DEF Path
  <2>3. Below(nodes, Path[at], Way(nodes, Path)[at - 1]) = {}
    <3> HIDE DEF m, c
    <3> QED
      BY <1>3, <1>4, <1>5, <1>7
  <2>4. Answer(nodes, Path) = {} /\ ~Crashes(nodes, Path)
    BY <1>1, <1>3, <1>6, <2>3, DeadEnd
  <2> QED
    BY <1>1, <2>1, <2>2, <2>4 DEF AnswerInv, EndsWithTheAnswer
<1>8. CASE Scanned(m) # {}
  <2>1. matchers' = [matchers EXCEPT ![at] = m] /\ at' = at + 1 /\ UNCHANGED pass
    BY <1>8 DEF Count
  <2>2. m[1] = c
    BY <1>2
  <2> HIDE DEF m
  <2>3. /\ DOMAIN matchers' = DOMAIN matchers /\ matchers'[at] = m
        /\ \A i \in 1..Len(matchers) : i # at => matchers'[i] = matchers[i]
        /\ DOMAIN matchers = 1..Len(matchers)
    <3>1. DOMAIN matchers = 1..Len(matchers)
      BY <1>1
    <3> QED
      BY <1>1, <2>1, <3>1
  <2>4. Path' = Path
    <3>1. \A i \in 1..Len(matchers) : matchers'[i][1] = matchers[i][1]
      BY <2>2, <2>3
    <3> QED
      BY <2>3, <3>1 DEF Path
  <2>5. Walked(nodes, matchers', Path, at)
    <3>1. \A i \in 1..at - 1 : i \in 1..Len(matchers) /\ i # at
      BY <1>1
    <3>2. Walked(nodes, matchers', Path, at - 1)
      BY <1>1, <2>3, <3>1 DEF Walked
    <3>3. Way(nodes, Path)[at] = Leads(Below(nodes, Path[at], Way(nodes, Path)[at - 1]))
      BY <1>1, <1>3, WayIs
    <3>4. Way(nodes, Path)[at] = {First(Chosen(nodes, m))} /\ Chosen(nodes, m) # {}
      <4> HIDE DEF c
      <4> QED
        BY <1>3, <1>4, <1>5, <1>8, <3>3 DEF Leads
    <3>5. \A i \in 1..at : i \in 1..at - 1 \/ i = at
      BY <1>1
    <3> HIDE DEF c
    <3> QED
      BY <1>3, <1>6, <2>3, <3>2, <3>4, <3>5 DEF Walked
  <2>6. at' - 1 = at
    BY <1>1, <2>1
  <2> QED
    BY <1>1, <2>1, <2>4, <2>5, <2>6 DEF AnswerInv, EndsWithTheAnswer
<1> QED
  BY <1>7, <1>8

LEMMA CountEndsAnswers ==
  ASSUME QInv, AnswerInv, CountEnds
  PROVE  AnswerInv'
<1>1. /\ pass = "count" /\ at = Len(matchers) + 1 /\ Len(matchers) \in Nat
      /\ answer = {} /\ Walked(nodes, matchers, Path, Len(matchers))
      /\ nodes \in Forests
  <2>1. /\ pass = "count" /\ at \in 1..(Len(matchers) + 1) /\ at > Len(matchers)
        /\ Len(matchers) \in Nat
    BY DEF CountEnds, QInv, Counting, MatchersShort
  <2>2. at = Len(matchers) + 1 /\ at - 1 = Len(matchers)
    BY <2>1
  <2> QED
    BY <2>1, <2>2 DEF AnswerInv
<1>2. /\ pass' = IF counted = 0 THEN "answered" ELSE "get"
      /\ UNCHANGED <<nodes, matchers, answer>>
  BY DEF CountEnds
<1>3. Path' = Path
  BY <1>2 DEF Path
<1>4. /\ Len(Path) = Len(matchers) /\ DOMAIN Path = 1..Len(Path)
      /\ Path = <<>> <=> Len(Path) = 0
  BY PathIs
<1>5. CASE Len(matchers) = 0
  <2>1. counted = 0
    BY <1>1, <1>5 DEF QInv, Counting
  <2>2. Answer(nodes, Path) = {}
    BY <1>4, <1>5 DEF Answer
  <2>3. ~Crashes(nodes, Path)
    BY <1>1, <1>4, WalkCrashes
  <2> QED
    BY <1>1, <1>2, <1>3, <2>1, <2>2, <2>3 DEF AnswerInv, EndsWithTheAnswer
<1>6. CASE Len(matchers) # 0
  <2> DEFINE found == Chosen(nodes, matchers[Len(matchers)])
  <2>1. Len(matchers) \in 1..Len(matchers) /\ at # 1 /\ at - 1 = Len(matchers)
    BY <1>1, <1>6
  <2>2. found # {}
    BY <1>1, <2>1 DEF Walked
  <2>3. IsFiniteSet(found)
    BY <1>1, FS_Subset, ForestsAssumption DEF Chosen
  <2>4. counted = Cardinality(found)
    BY <1>1, <2>1 DEF QInv, Counting
  <2> HIDE DEF found
  <2>5. counted # 0
    BY <2>2, <2>3, <2>4, FS_EmptySet
  <2> QED
    BY <1>1, <1>2, <1>3, <2>5 DEF AnswerInv, EndsWithTheAnswer
<1> QED
  BY <1>5, <1>6

LEMMA GetAnswers ==
  ASSUME QInv, AnswerInv, Get
  PROVE  AnswerInv'
<1> DEFINE m == WithParent(matchers[at])
           c == matchers[at][1]
<1>1. /\ pass = "get" /\ at \in 1..Len(matchers) /\ Len(matchers) \in Nat
      /\ parent = ParentAt(matchers, nodes, at)
      /\ answer = {} /\ Walked(nodes, matchers, Path, Len(matchers))
      /\ UNCHANGED <<nodes, matchers>>
  BY DEF Get, QInv, Getting, MatchersShort, AnswerInv
<1>2. Path' = Path
  BY <1>1 DEF Path
<1>3. /\ Len(Path) = Len(matchers) /\ Len(Path) \in Nat /\ DOMAIN Path = 1..Len(Path)
      /\ Path[at] = c /\ Path # <<>>
  <2>1. /\ Len(Path) = Len(matchers) /\ Len(Path) \in Nat /\ DOMAIN Path = 1..Len(Path)
        /\ \A i \in 1..Len(Path) : Path[i] = matchers[i][1]
        /\ Path = <<>> <=> Len(Path) = 0
    BY PathIs
  <2>2. at \in 1..Len(Path) /\ Len(Path) # 0
    BY <1>1, <2>1
  <2> QED
    BY <2>1, <2>2
<1>4. matchers[at] = <<c, ParentIs(parent)>>
  BY <1>1 DEF QInv, Getting, Paired
<1>5. Scanned(m) = Chosen(nodes, matchers[at])
  <2>1. m = <<c, ParentIs(parent), ParentIs(parent)>>
    BY <1>4, PushedIs DEF WithParent
  <2>2. Chosen(nodes, m) = Chosen(nodes, matchers[at])
    BY <1>4, <2>1, TwiceIsOnce
  <2> QED
    BY <2>2 DEF Scanned, Chosen
<1>6. Scanned(m) # {}
  BY <1>1, <1>5 DEF Walked
<1>7. CASE at < Len(matchers)
  <2>1. UNCHANGED <<pass, answer>>
    BY <1>6, <1>7 DEF Get
  <2> QED
    BY <1>1, <1>2, <2>1 DEF AnswerInv, EndsWithTheAnswer
<1>8. CASE at = Len(matchers)
  <2>1. counted = Cardinality(Scanned(m))
    <3> HIDE DEF m
    <3> QED
      BY <1>1, <1>5, <1>8 DEF QInv, Getting
  <2>2. pass' = "answered" /\ answer' = Scanned(m)
    BY <1>6, <1>8, <2>1 DEF Get
  <2>3. Scanned(m) = Below(nodes, c, {parent})
    <3>1. Chosen(nodes, <<c, ParentIs(parent)>>) = Below(nodes, c, {parent})
      BY PairIs
    <3> QED
      BY <1>4, <1>5, <3>1
  <2>4. Way(nodes, Path)[at - 1] = {parent}
    <3>1. /\ Len(Path) \in 0..Len(Path) /\ at \in 1..Len(Path) + 1
          /\ Walked(nodes, matchers, Path, Len(Path))
      BY <1>1, <1>3
    <3> DEFINE path == Path
               k == Len(Path)
    <3>2. Len(path) \in Nat /\ k \in 0..Len(path) /\ Walked(nodes, matchers, path, k)
      BY <1>3, <3>1
    <3> HIDE DEF path, k
    <3>3. \A i \in 1..k + 1 : Way(nodes, path)[i - 1] = {ParentAt(matchers, nodes, i)}
      BY <3>2, WalkedTo
    <3> QED
      BY <1>1, <3>1, <3>3 DEF path, k
  <2>5. Answer(nodes, Path) = Scanned(m)
    <3> HIDE DEF m, c
    <3> QED
      BY <1>3, <1>8, <2>3, <2>4 DEF Answer
  <2>6. ~Crashes(nodes, Path)
    BY <1>1, <1>3, WalkCrashes
  <2> HIDE DEF m
  <2> QED
    BY <1>1, <1>2, <2>2, <2>5, <2>6 DEF AnswerInv, EndsWithTheAnswer
<1> QED
  BY <1>1, <1>7, <1>8

LEMMA StepFailsAnswers ==
  ASSUME QInv, AnswerInv, StepFails
  PROVE  AnswerInv'
<1> DEFINE m == WithParent(matchers[at])
           c == matchers[at][1]
<1>1. /\ pass' = "crash" /\ ScanCrashes(m) /\ UNCHANGED <<nodes, matchers, answer>>
  BY FailsByCrash
<1>2. Path' = Path
  BY <1>1 DEF Path
<1>3. /\ pass \in {"count", "get"} /\ at \in 1..Len(matchers) /\ Len(matchers) \in Nat
  BY DEF StepFails, QInv, Counting, Getting, MatchersShort
<1>4. /\ Len(Path) = Len(matchers) /\ Len(Path) \in Nat /\ DOMAIN Path = 1..Len(Path)
      /\ Path[at] = c
  BY <1>3, PathIs
<1>5. \/ m = <<c, ParentIs(parent)>>
      \/ m = <<c, ParentIs(parent), ParentIs(parent)>>
  <2>1. CASE pass = "count"
    <3>1. matchers[at] = <<c>>
      BY <1>3, <2>1 DEF QInv, Counting, Single
    <3> QED
      BY <3>1, PushedIs DEF WithParent
  <2>2. CASE pass = "get"
    <3>1. matchers[at] = <<c, ParentIs(parent)>>
      BY <1>3, <2>2 DEF QInv, Getting, Paired
    <3> QED
      BY <3>1, PushedIs DEF WithParent
  <2> QED
    BY <1>3, <2>1, <2>2
<1>6. \E x \in DOMAIN nodes : Evaluate(c, nodes[x]) = "crash"
  <2>1. \E x \in DOMAIN nodes : Decide(m, nodes[x]) = "crash"
    BY <1>1 DEF ScanCrashes
  <2>2. \A x \in DOMAIN nodes :
          /\ Decide(<<c, ParentIs(parent)>>, nodes[x]) = "crash" <=> Evaluate(c, nodes[x]) = "crash"
          /\ Decide(<<c, ParentIs(parent), ParentIs(parent)>>, nodes[x]) = "crash"
               <=> Evaluate(c, nodes[x]) = "crash"
    BY PairIs
  <2> HIDE DEF m, c
  <2> QED
    BY <1>5, <2>1, <2>2
<1>7. Walked(nodes, matchers, Path, at - 1)
  <2>1. CASE pass = "count"
    BY <2>1 DEF AnswerInv
  <2>2. CASE pass = "get"
    <3>1. \A i \in 1..at - 1 : i \in 1..Len(matchers)
      BY <1>3
    <3> QED
      BY <2>2, <3>1 DEF AnswerInv, Walked
  <2> QED
    BY <1>3, <2>1, <2>2
<1>8. Crashes(nodes, Path)
  <2> HIDE DEF c
  <2> QED
    BY <1>3, <1>4, <1>6, <1>7, WalkCrashes
<1> QED
  BY <1>1, <1>2, <1>8 DEF AnswerInv, EndsWithTheAnswer

LEMMA AnswerKeeps == QInv /\ AnswerInv /\ [Next]_vars => AnswerInv'
<1> SUFFICES ASSUME QInv, AnswerInv, [Next]_vars PROVE AnswerInv'
  OBVIOUS
<1>1. CASE StepFails
  BY <1>1, StepFailsAnswers
<1>2. CASE Count
  BY <1>2, CountAnswers
<1>3. CASE CountEnds
  BY <1>3, CountEndsAnswers
<1>4. CASE Get
  BY <1>4, GetAnswers
<1>5. CASE UNCHANGED vars
  <2>1. Path' = Path
    BY <1>5 DEF vars, Path
  <2> QED
    BY <1>5, <2>1 DEF vars, AnswerInv, EndsWithTheAnswer
<1> QED
  BY <1>1, <1>2, <1>3, <1>4, <1>5 DEF Next

(* A query ends with the nodes the last step of its way chooses, or ends   *)
(* the process exactly where a condition it asks does, although the second *)
(* pass runs over matchers that already carry the conditions of the first: *)
(* for every file and every chain.                                         *)
THEOREM AnswersRight == Spec => []EndsWithTheAnswer
<1>1. Init => QInv /\ AnswerInv
  BY InitQuery, InitAnswer
<1>2. AnswerInv => EndsWithTheAnswer
  BY DEF AnswerInv
<1> QED
  BY <1>1, <1>2, QInvKeeps, AnswerKeeps, PTL DEF Spec

(* What is answered is what the path means, and all of it when the path    *)
(* leaves no choice before its end.                                        *)
THEOREM AnswersMeant == Spec => []AnswersWhatThePathMeans
<1>1. Init => QInv /\ AnswerInv
  BY InitQuery, InitAnswer
<1>2. QInv /\ AnswerInv => AnswersWhatThePathMeans
  <2> DEFINE n == Len(Path)
             meant == Reached(nodes, Path)[n]
             way == Way(nodes, Path)
             reached == Reached(nodes, Path)
  <2> SUFFICES ASSUME QInv, AnswerInv, pass = "answered", matchers # <<>>
               PROVE  answer \subseteq meant /\ (Unambiguous(nodes, Path) => answer = meant)
    BY DEF AnswersWhatThePathMeans
  <2>1. n \in Nat /\ (Path = <<>> <=> n = 0) /\ n = Len(matchers)
    BY PathIs
  <2>2. n # 0
    <3> DEFINE S == {matchers[i] : i \in 1..Len(matchers)}
    <3>1. Len(matchers) \in Nat /\ matchers \in [1..Len(matchers) -> S]
      BY DEF QInv, MatchersShort
    <3>2. matchers \in Seq(S)
      <4> HIDE DEF S
      <4> QED
        BY <3>1, SequenceOf
    <3> QED
      BY <2>1, <3>2, EmptySeq
  <2>3. answer = Below(nodes, Path[n], way[n - 1])
    BY <2>1, <2>2 DEF AnswerInv, EndsWithTheAnswer, Answer
  <2>4. DOMAIN nodes \subseteq Nat \X Nat /\ IsFiniteSet(DOMAIN nodes)
    BY ForestsAssumption DEF AnswerInv
  <2>5. n \in 1..n /\ n - 1 \in 0..n /\ n - 1 \in 0..n - 1
    BY <2>1, <2>2
  <2>6. reached[n] = Below(nodes, Path[n], reached[n - 1])
    BY <2>1, <2>5, ReachedIs
  <2>7. /\ way[n - 1] \subseteq reached[n - 1]
        /\ Unambiguous(nodes, Path) => way[n - 1] = reached[n - 1]
    BY <2>1, <2>4, <2>5, WayIsReached
  <2>8. Below(nodes, Path[n], way[n - 1]) \subseteq Below(nodes, Path[n], reached[n - 1])
    BY <2>7, BelowIs
  <2> HIDE DEF n, way, reached
  <2> QED
    BY <2>3, <2>6, <2>7, <2>8 DEF reached
<1> QED
  BY <1>1, <1>2, QInvKeeps, AnswerKeeps, PTL DEF Spec
=============================================================================
