---------------------------- MODULE ControlProofs ----------------------------
(***************************************************************************)
(* Proofs about module Control, for any users, groups, servers, roots and  *)
(* constraints, any ceiling and any lifetime of tokens.                    *)
(*                                                                         *)
(* The first sections say what the two decisions of the code decide: the   *)
(* loop over grants in any order (RightIsEntitled) and the walk down the   *)
(* constraints in the order of their priorities (ConstraintsPermit).  The  *)
(* invariant says what a request has been shown at each step, and that a   *)
(* token was signed no later than its user last held the right.  It has    *)
(* one lemma for each step of a request and each change of the policy.     *)
(***************************************************************************)
EXTENDS Control, FiniteSetTheorems, WellFoundedInduction, TLAPS

(* A set of numbers has a least one.                                       *)
LEMMA LeastNat ==
  ASSUME NEW T \in SUBSET Nat, T # {}
  PROVE  \E n \in T : \A m \in T : n <= m
<1> DEFINE R == OpToRel(<, Nat)
<1>1. PICK x \in T : \A y \in T : ~(<<y, x>> \in R)
  BY NatLessThanWellFounded, WFMin
<1>2. ASSUME NEW y \in T, y < x PROVE <<y, x>> \in R
  BY <1>2, Zenon DEF OpToRel
<1> HIDE DEF R
<1>3. \A y \in T : ~(y < x)
  BY <1>1, <1>2
<1> QED
  BY <1>3

(* The loop over n rows, of which those in H match and e gives the effect: *)
(* what it has found after each.                                           *)
Found(n, H, e) ==
  [i \in 0..n |-> IF \E j \in 1..i : j \in H /\ e[j] = "deny" THEN "deny"
                  ELSE IF \E j \in 1..i : j \in H THEN "allow" ELSE "none"]

IsLoop(f, n, H, e) ==
  f = [i \in 0..n |-> IF i = 0 THEN "none" ELSE NextDecision(f[i - 1], i \in H, e[i])]

LEMMA FoundTurn ==
  ASSUME NEW n \in Nat, NEW H, NEW e, \A i \in 1..n : e[i] \in {"allow", "deny"},
         NEW i \in 1..n
  PROVE  Found(n, H, e)[i] = NextDecision(Found(n, H, e)[i - 1], i \in H, e[i])
<1>1. i - 1 \in 0..n /\ i \in 0..n
  OBVIOUS
<1>2. \A j \in 1..i : j = i \/ j \in 1..(i - 1)
  OBVIOUS
<1>3. \A j \in 1..(i - 1) : j \in 1..i
  OBVIOUS
<1>4. Found(n, H, e)[i] = IF \E j \in 1..i : j \in H /\ e[j] = "deny" THEN "deny"
                  ELSE IF \E j \in 1..i : j \in H THEN "allow" ELSE "none"
  BY <1>1 DEF Found
<1>5. Found(n, H, e)[i - 1] = IF \E j \in 1..(i - 1) : j \in H /\ e[j] = "deny" THEN "deny"
                  ELSE IF \E j \in 1..(i - 1) : j \in H THEN "allow" ELSE "none"
  BY <1>1 DEF Found
<1>6. i \in 1..i /\ e[i] \in {"allow", "deny"}
  OBVIOUS
<1>7. CASE i \in H /\ e[i] = "deny"
  BY <1>4, <1>5, <1>6, <1>7, <1>3 DEF NextDecision
<1>8. CASE i \in H /\ e[i] = "allow"
  BY <1>2, <1>3, <1>4, <1>5, <1>6, <1>8 DEF NextDecision
<1>9. CASE i \notin H
  BY <1>2, <1>3, <1>4, <1>5, <1>6, <1>9 DEF NextDecision
<1> QED
  BY <1>6, <1>7, <1>8, <1>9

LEMMA FoundIsLoop ==
  ASSUME NEW n \in Nat, NEW H, NEW e, \A i \in 1..n : e[i] \in {"allow", "deny"}
  PROVE  IsLoop(Found(n, H, e), n, H, e)
<1> DEFINE f == Found(n, H, e)
           g == [i \in 0..n |-> IF i = 0 THEN "none" ELSE NextDecision(f[i - 1], i \in H, e[i])]
<1>1. f = [i \in 0..n |-> f[i]]
  BY DEF Found
<1>2. f[0] = "none"
  BY DEF Found
<1>3. \A i \in 0..n : f[i] = g[i]
  BY <1>2, FoundTurn
<1>4. f = g
  BY <1>1, <1>3
<1> QED
  BY <1>4 DEF IsLoop

LEMMA LoopIsFound ==
  ASSUME NEW n \in Nat, NEW H, NEW e, \A i \in 1..n : e[i] \in {"allow", "deny"},
         NEW f, IsLoop(f, n, H, e)
  PROVE  f = Found(n, H, e)
<1> DEFINE T == {i \in 0..n : f[i] # Found(n, H, e)[i]}
<1>1. CASE T = {}
  <2>1. f = [i \in 0..n |-> f[i]]
    BY DEF IsLoop
  <2>2. Found(n, H, e) = [i \in 0..n |-> Found(n, H, e)[i]]
    BY DEF Found
  <2> QED
    BY <1>1, <2>1, <2>2
<1>2. CASE T # {}
  <2>1. PICK i \in T : \A j \in T : i <= j
    <3>1. T \in SUBSET Nat
      OBVIOUS
    <3> HIDE DEF T
    <3> QED
      BY <1>2, <3>1, LeastNat
  <2>2. i # 0
    <3>1. f[0] = "none" /\ Found(n, H, e)[0] = "none"
      BY DEF IsLoop, Found
    <3> QED
      BY <3>1
  <2>3. i \in 1..n /\ i - 1 \in 0..n /\ i - 1 \notin T
    BY <2>1, <2>2
  <2>4. f[i - 1] = Found(n, H, e)[i - 1]
    BY <2>3
  <2>5. f[i] = NextDecision(f[i - 1], i \in H, e[i])
    BY <2>3 DEF IsLoop
  <2> QED
    BY <2>3, <2>4, <2>5, FoundTurn
<1> QED
  BY <1>1, <1>2

-----------------------------------------------------------------------------
(* The order in which the rows are read does not matter.                   *)
LEMMA SetToSeqEnumerates ==
  ASSUME NEW S, IsFiniteSet(S)
  PROVE  /\ SetToSeq(S) \in Seq(S)
         /\ \A x \in S : \E i \in DOMAIN SetToSeq(S) : SetToSeq(S)[i] = x
<1> DEFINE n == Cardinality(S)
<1>1. n \in Nat /\ ExistsBijection(1..n, S)
  BY FS_CardinalityType
<1>2. \E f \in [1..n -> S] : IsInjective(f)
  BY <1>1 DEF ExistsBijection, Bijection, Injection
<1>3. SetToSeq(S) \in [1..n -> S] /\ IsInjective(SetToSeq(S))
  BY <1>2 DEF SetToSeq
<1>4. SetToSeq(S) \in Injection(1..n, S)
  BY <1>3 DEF Injection
<1>5. IsFiniteSet(1..n) /\ Cardinality(1..n) = n
  <2>1. 1..n = 1..n /\ 1 \in Int /\ n \in Int
    BY <1>1
  <2>2. IsFiniteSet(1..n) /\ Cardinality(1..n) = IF 1 > n THEN 0 ELSE n - 1 + 1
    BY <2>1, FS_Interval
  <2> QED
    BY <1>1, <2>2
<1>6. SetToSeq(S) \in Surjection(1..n, S)
  BY <1>4, <1>5, FS_Injection
<1> HIDE DEF n
<1> QED
  BY <1>1, <1>3, <1>6 DEF Surjection

(* x is somewhere in the sequence q. *)
Lists(q, x) == \E i \in 1..Len(q) : q[i] = x

LEMMA Joined ==
  ASSUME NEW S, NEW a \in Seq(S), NEW b \in Seq(S)
  PROVE  /\ a \o b \in Seq(S)
         /\ \A x : Lists(a, x) \/ Lists(b, x) => Lists(a \o b, x)
<1>1. a \o b \in Seq(S) /\ Len(a \o b) = Len(a) + Len(b) /\ Len(a) \in Nat /\ Len(b) \in Nat
  OBVIOUS
<1>2. ASSUME NEW x, NEW i \in 1..Len(a), a[i] = x PROVE Lists(a \o b, x)
  <2>1. i \in 1..Len(a \o b) /\ (a \o b)[i] = x
    BY <1>1, <1>2
  <2> QED
    BY <2>1 DEF Lists
<1>3. ASSUME NEW x, NEW i \in 1..Len(b), b[i] = x PROVE Lists(a \o b, x)
  <2>1. Len(a) + i \in 1..Len(a \o b) /\ (a \o b)[Len(a) + i] = x
    BY <1>1, <1>3
  <2> QED
    BY <2>1 DEF Lists
<1> QED
  BY <1>1, <1>2, <1>3 DEF Lists

LEMMA EnumerationLists ==
  ASSUME NEW S, IsFiniteSet(S), NEW x \in S
  PROVE  Lists(SetToSeq(S), x)
<1>1. SetToSeq(S) \in Seq(S) /\ \E i \in DOMAIN SetToSeq(S) : SetToSeq(S)[i] = x
  BY SetToSeqEnumerates
<1> QED
  BY <1>1 DEF Lists

(* Every subject of a grant has its place among the rows of an effect. *)
LEMMA RowsOfFacts ==
  ASSUME NEW eff
  PROVE  LET All == (Users \cup Groups \cup {"authenticated", "everyone"}) \X {eff} IN
         /\ RowsOf(eff) \in Seq(All)
         /\ \A x \in Subjects : Lists(RowsOf(eff), <<x, eff>>)
<1> DEFINE All == (Users \cup Groups \cup {"authenticated", "everyone"}) \X {eff}
           a == << <<"authenticated", eff>>, <<"everyone", eff>> >>
           G == Groups \X {eff}
           U == (Users \ {Anonymous}) \X {eff}
<1>1. IsFiniteSet(G) /\ IsFiniteSet(U)
  <2>1. IsFiniteSet(Groups) /\ IsFiniteSet(Users \ {Anonymous}) /\ IsFiniteSet({eff})
    <3>1. IsFiniteSet(Users \cup Groups)
      BY ControlAssumption
    <3>2. Groups \in SUBSET (Users \cup Groups)
          /\ Users \ {Anonymous} \in SUBSET (Users \cup Groups)
      OBVIOUS
    <3>3. IsFiniteSet(Groups) /\ IsFiniteSet(Users \ {Anonymous})
      BY <3>1, <3>2, FS_Subset
    <3> QED
      BY <3>3, FS_Singleton
  <2> QED
    BY <2>1, FS_Product
<1>2. SetToSeq(G) \in Seq(G) /\ SetToSeq(U) \in Seq(U)
  BY <1>1, SetToSeqEnumerates
<1>3. SetToSeq(G) \in Seq(All) /\ SetToSeq(U) \in Seq(All)
  <2>1. G \subseteq All /\ U \subseteq All
    OBVIOUS
  <2> HIDE DEF G, U, All
  <2> QED
    BY <1>2, <2>1
<1>4. a \in Seq(All) /\ Lists(a, <<"authenticated", eff>>) /\ Lists(a, <<"everyone", eff>>)
  <2>1. <<"authenticated", eff>> \in All /\ <<"everyone", eff>> \in All
    OBVIOUS
  <2>2. Len(a) = 2 /\ a[1] = <<"authenticated", eff>> /\ a[2] = <<"everyone", eff>>
    OBVIOUS
  <2>3. a \in Seq(All)
    <3> HIDE DEF All
    <3> QED BY <2>1
  <2> HIDE DEF a
  <2> QED
    BY <2>2, <2>3 DEF Lists
<1>5. RowsOf(eff) = (a \o SetToSeq(G)) \o SetToSeq(U)
  BY DEF RowsOf
<1>6. \A x \in Subjects : Lists(a, <<x, eff>>) \/ Lists(SetToSeq(G), <<x, eff>>)
                         \/ Lists(SetToSeq(U), <<x, eff>>)
  <2> SUFFICES ASSUME NEW x \in Subjects
               PROVE  Lists(a, <<x, eff>>) \/ Lists(SetToSeq(G), <<x, eff>>)
                      \/ Lists(SetToSeq(U), <<x, eff>>)
    OBVIOUS
  <2>1. x \in {"authenticated", "everyone"} \/ <<x, eff>> \in G \/ <<x, eff>> \in U
    BY ControlAssumption
  <2> HIDE DEF G, U, a
  <2> QED
    BY <1>1, <1>4, <2>1, EnumerationLists
<1> HIDE DEF All, a, G, U
<1>7. a \o SetToSeq(G) \in Seq(All)
      /\ \A x : Lists(a, x) \/ Lists(SetToSeq(G), x) => Lists(a \o SetToSeq(G), x)
  BY <1>3, <1>4, Joined
<1>8. /\ (a \o SetToSeq(G)) \o SetToSeq(U) \in Seq(All)
      /\ \A x : Lists(a \o SetToSeq(G), x) \/ Lists(SetToSeq(U), x)
             => Lists((a \o SetToSeq(G)) \o SetToSeq(U), x)
  BY <1>3, <1>7, Joined
<1>9. RowsOf(eff) \in Seq(All) /\ \A x \in Subjects : Lists(RowsOf(eff), <<x, eff>>)
  BY <1>5, <1>6, <1>7, <1>8
<1> QED
  BY <1>9 DEF All

LEMMA RowOrderFacts ==
  /\ RowOrder \in Seq((Users \cup Groups \cup {"authenticated", "everyone"}) \X {"allow", "deny"})
  /\ Len(RowOrder) \in Nat
  /\ \A i \in 1..Len(RowOrder) : RowOrder[i][2] \in {"allow", "deny"}
  /\ \A k \in Keys : Lists(RowOrder, k)
<1> DEFINE B == (Users \cup Groups \cup {"authenticated", "everyone"}) \X {"allow", "deny"}
           A(eff) == (Users \cup Groups \cup {"authenticated", "everyone"}) \X {eff}
<1>1. RowsOf("allow") \in Seq(B) /\ RowsOf("deny") \in Seq(B)
  <2>1. RowsOf("allow") \in Seq(A("allow")) /\ RowsOf("deny") \in Seq(A("deny"))
    BY RowsOfFacts
  <2>2. A("allow") \subseteq B /\ A("deny") \subseteq B
    OBVIOUS
  <2> HIDE DEF A, B
  <2> QED
    BY <2>1, <2>2
<1>2. RowOrder \in Seq(B)
      /\ \A x : Lists(RowsOf("allow"), x) \/ Lists(RowsOf("deny"), x) => Lists(RowOrder, x)
  <2> HIDE DEF B
  <2> QED
    BY <1>1, Joined DEF RowOrder
<1>3. \A k \in Keys : Lists(RowOrder, k)
  <2> SUFFICES ASSUME NEW k \in Keys PROVE Lists(RowOrder, k)
    OBVIOUS
  <2>1. PICK x \in Subjects, eff \in {"allow", "deny"} : k = <<x, eff>>
    BY DEF Keys
  <2>2. Lists(RowsOf(eff), <<x, eff>>)
    BY RowsOfFacts
  <2> QED
    BY <1>2, <2>1, <2>2
<1>4. Len(RowOrder) \in Nat /\ \A i \in 1..Len(RowOrder) : RowOrder[i] \in B
  <2> HIDE DEF B
  <2> QED
    BY <1>2
<1>5. \A k \in B : k[2] \in {"allow", "deny"}
  OBVIOUS
<1> QED
  BY <1>2, <1>3, <1>4, <1>5

(* A decision is what the loop found at its end. *)
LEMMA AccessIsFound ==
  ASSUME NEW s, NEW u, NEW c
  PROVE  LET n == Len(RowOrder)
             e == [i \in 1..n |-> RowOrder[i][2]]
         IN  EvaluateServerAccess(s, u, c) <=> Found(n, Hits(s, u, c), e)[n] = "allow"
<1> DEFINE n == Len(RowOrder)
           H == Hits(s, u, c)
           e == [i \in 1..n |-> RowOrder[i][2]]
           body(f) == [i \in 0..n |-> IF i = 0 THEN "none"
                                      ELSE NextDecision(f[i - 1], i \in H, RowOrder[i][2])]
           acc == CHOOSE f : f = body(f)
<1>1. EvaluateServerAccess(s, u, c) <=> acc[n] = "allow"
  BY Zenon DEF EvaluateServerAccess
<1>2. n \in Nat /\ \A i \in 1..n : e[i] = RowOrder[i][2] /\ e[i] \in {"allow", "deny"}
  BY RowOrderFacts
<1>3. \A f : f = body(f) <=> IsLoop(f, n, H, e)
  <2> SUFFICES ASSUME NEW f PROVE f = body(f) <=> IsLoop(f, n, H, e)
    OBVIOUS
  <2> DEFINE loop == [i \in 0..n |-> IF i = 0 THEN "none"
                                     ELSE NextDecision(f[i - 1], i \in H, e[i])]
  <2>1. \A i \in 0..n : i = 0 \/ (i \in 1..n /\ e[i] = RowOrder[i][2])
    BY <1>2
  <2> HIDE DEF n, H, e
  <2>2. \A i \in 0..n : body(f)[i] = loop[i]
    BY <2>1
  <2>3. body(f) = loop
    BY <2>2
  <2> QED
    BY <2>3 DEF IsLoop
<1>4. IsLoop(Found(n, H, e), n, H, e)
  BY <1>2, FoundIsLoop
<1>5. acc = body(acc)
  BY <1>3, <1>4, Zenon
<1>6. acc = Found(n, H, e)
  BY <1>2, <1>3, <1>5, LoopIsFound
<1> QED
  BY <1>1, <1>6

(* The decision of the code is that of the documents: some allow matches   *)
(* and no deny does.                                                       *)
LEMMA RightIsEntitled ==
  ASSUME NEW s, NEW u, NEW c
  PROVE  Right(s, u, c) <=> Entitled(s, u, c)
<1> DEFINE n == Len(RowOrder)
           H == Hits(s, u, c)
           e == [i \in 1..n |-> RowOrder[i][2]]
           hit(k) == grants[s][k] # None /\ Matches(u, k[1]) /\ Covers(grants[s][k], c)
<1>1. n \in Nat /\ DOMAIN RowOrder = 1..n /\ \A i \in 1..n : e[i] = RowOrder[i][2]
  BY RowOrderFacts
<1>2. \A i : i \in H <=> i \in 1..n /\ RowOrder[i] \in Keys /\ hit(RowOrder[i])
  BY <1>1 DEF Hits, ListServerAccessGrants
<1>3. EvaluateServerAccess(s, u, c) <=> Found(n, H, e)[n] = "allow"
  BY AccessIsFound
<1>4. \A k \in Keys : \E i \in 1..n : RowOrder[i] = k
  BY RowOrderFacts DEF Lists
<1>5. \A i \in 1..n : e[i] \in {"allow", "deny"}
  BY <1>1, RowOrderFacts
<1>7. Entitled(s, u, c) <=> \/ u \in {"admin", "system"}
                           \/ /\ \E k \in Keys : k[2] = "allow" /\ hit(k)
                              /\ ~\E k \in Keys : k[2] = "deny" /\ hit(k)
  BY DEF Entitled
<1> HIDE DEF n, H, e, hit
<1>6. Found(n, H, e)[n] = IF \E i \in 1..n : i \in H /\ e[i] = "deny" THEN "deny"
                         ELSE IF \E i \in 1..n : i \in H THEN "allow" ELSE "none"
  BY <1>1 DEF Found
<1>8. (\E k \in Keys : k[2] = "deny" /\ hit(k)) <=> \E i \in 1..n : i \in H /\ e[i] = "deny"
  BY <1>1, <1>2, <1>4
<1>9. (\E k \in Keys : k[2] = "allow" /\ hit(k)) <=> \E i \in 1..n : i \in H /\ e[i] = "allow"
  BY <1>1, <1>2, <1>4
<1>10. Found(n, H, e)[n] = "allow" <=> /\ \E i \in 1..n : i \in H /\ e[i] = "allow"
                                      /\ ~\E i \in 1..n : i \in H /\ e[i] = "deny"
  BY <1>5, <1>6
<1> QED
  BY <1>3, <1>7, <1>8, <1>9, <1>10 DEF Right

-----------------------------------------------------------------------------
(* Rows of constraints; those of a server are under the ceiling. *)
RulesOK ==
  /\ rules \in [1..MaxRules -> RuleRow \cup {None}]
  /\ \A i \in RuleIds : rules[i].scope # "instance" => rules[i].prio <= Ceiling

LEMMA RuleFacts ==
  ASSUME RulesOK, NEW i \in RuleIds
  PROVE  /\ i \in Nat /\ rules[i] \in RuleRow
         /\ rules[i].prio \in Nat /\ rules[i].prio \in {Ceiling, Ceiling + 1}
         /\ rules[i].mode \in {"require", "exempt"}
         /\ rules[i].scope # "instance" => rules[i].prio <= Ceiling
<1>1. Ceiling \in Nat /\ MaxRules \in Nat
  BY ControlAssumption
<1>2. i \in 1..MaxRules /\ rules[i] \in RuleRow
  BY DEF RulesOK, RuleIds
<1> QED
  BY <1>1, <1>2 DEF RulesOK, RuleRow

(* ORDER BY has a first row. *)
LEMMA FirstRule ==
  ASSUME RulesOK, NEW D \in SUBSET RuleIds, D # {}
  PROVE  \E i \in D : \A j \in D \ {i} : Precedes(i, j)
<1> DEFINE top == IF \E i \in D : rules[i].prio = Ceiling + 1 THEN Ceiling + 1 ELSE Ceiling
           E == {i \in D : rules[i].prio = top}
           F == IF \E i \in E : rules[i].scope = "instance"
                THEN {i \in E : rules[i].scope = "instance"} ELSE E
<1>1. Ceiling \in Nat /\ \A i \in D : /\ i \in Nat /\ rules[i].prio \in Nat
                                     /\ rules[i].prio \in {Ceiling, Ceiling + 1}
  BY ControlAssumption, RuleFacts
<1>2. E # {} /\ \A j \in D \ E : rules[j].prio < top
  BY <1>1
<1> HIDE DEF top
<1>3. F # {} /\ F \in SUBSET Nat /\ F \subseteq E
  BY <1>1, <1>2
<1>4. PICK i \in F : \A j \in F : i <= j
  <2> HIDE DEF F
  <2> QED
    BY <1>3, LeastNat
<1>5. \A j \in E \ F : rules[i].scope = "instance" /\ rules[j].scope # "instance"
  BY <1>4
<1>6. \A j \in F : rules[i].scope = "instance" <=> rules[j].scope = "instance"
  BY <1>4
<1>7. i \in E /\ rules[i].prio = top /\ i \in D /\ \A j \in E : rules[j].prio = top /\ j \in D
  BY <1>3, <1>4
<1> HIDE DEF E, F
<1>8. ASSUME NEW j \in D \ {i} PROVE Precedes(i, j)
  <2>1. CASE j \in D \ E
    BY <1>2, <1>7, <2>1 DEF Precedes
  <2>2. CASE j \in E \ F
    BY <1>5, <1>7, <2>2 DEF Precedes
  <2>3. CASE j \in F
    <3>1. i < j
      BY <1>1, <1>3, <1>4, <1>7, <2>3, <1>8
    <3>2. (rules[i].scope = "instance") = (rules[j].scope = "instance")
      BY <1>6, <2>3
    <3> QED
      BY <1>3, <1>7, <2>3, <3>1, <3>2 DEF Precedes
  <2> QED
    BY <1>8, <2>1, <2>2, <2>3
<1> QED
  BY <1>7, <1>8

(* What the loop over the constraints lets pass, the documents do. *)
LEMMA ConstraintsPermit ==
  ASSUME RulesOK, NEW s, EvaluateConstraints(s)
  PROVE  Permitted(s)
<1> DEFINE D == {i \in Applicable(s) : Decisive(i)}
           first == CHOOSE i \in D : \A j \in D \ {i} : Precedes(i, j)
<1>1. D \in SUBSET RuleIds
  BY DEF Applicable
<1> SUFFICES ASSUME NEW i \in Applicable(s), rules[i].mode = "require", ~Broken(i), ~Passed(i)
             PROVE  \E e \in Applicable(s) :
                      /\ rules[e].mode = "exempt" /\ ~Broken(e) /\ Passed(e)
                      /\ rules[e].prio >= rules[i].prio
                      /\ rules[i].scope = "instance" /\ rules[i].prio >= Ceiling =>
                           rules[e].scope = "instance"
  BY DEF Permitted
<1>2. i \in D
  BY DEF Decisive
<1>3. first \in D /\ \A j \in D \ {first} : Precedes(first, j)
  <2>1. \E k \in D : \A j \in D \ {k} : Precedes(k, j)
    <3> HIDE DEF D
    <3> QED
      BY <1>1, <1>2, FirstRule
  <2> QED
    BY <2>1, Zenon
<1>4. rules[first].mode = "exempt"
  BY <1>2, Zenon DEF EvaluateConstraints
<1>5. first # i /\ first \in Applicable(s) /\ Decisive(first)
  BY <1>3, <1>4
<1>6. Precedes(first, i)
  BY <1>2, <1>3, <1>5
<1> HIDE DEF first, D
<1>7. /\ rules[i].prio \in {Ceiling, Ceiling + 1}
      /\ rules[first].prio \in {Ceiling, Ceiling + 1}
      /\ rules[first].scope # "instance" => rules[first].prio <= Ceiling
      /\ Ceiling \in Nat
  BY <1>1, <1>2, <1>3, RuleFacts, ControlAssumption
<1>8. ~Broken(first) /\ Passed(first)
  BY <1>4, <1>5 DEF Decisive
<1>9. rules[first].prio >= rules[i].prio
      /\ (rules[i].scope = "instance" => rules[first].scope = "instance")
  BY <1>6, <1>7 DEF Precedes
<1> QED
  BY <1>4, <1>5, <1>8, <1>9

-----------------------------------------------------------------------------
(* The parts of the invariant.                                             *)
Vias == {"act", "auto", "call", "sign", "console", "read", "write"}
Pcs == {"idle", "gate", "acl", "rules", "path", "done", "call"}
Refs == Paths \cup {"deploy", "right", "rules"}

ReqRow == [pc : Pcs, via : Vias \cup {None}, user : People \cup {None},
           srv : Servers \cup {None}, cap : Capabilities \cup {None},
           copy : LinkRow \cup {None}, paths : Seq(Paths), all : Seq(Paths),
           refs : SUBSET Refs, failopen : BOOLEAN]

(* What the kind of a request says about it, and where it may be. *)
Shape(q) ==
  /\ q.pc = "idle" <=> q.via = None
  /\ q.pc # "idle" => q.user \in People /\ q.srv \in Servers
  /\ q.via = "sign" => q.user \in Users /\ q.cap = "file.write"
  /\ q.via \notin {"call", "sign"} => q.all = <<>> /\ q.paths = <<>>
  /\ q.pc # "idle" /\ q.cap = "console.write" => q.via \in {"console", "read"}
  /\ q.via = "read" => q.pc = "done" /\ q.cap = "console.write"
  /\ q.via = "write" => q.pc \in {"acl", "done"}
  /\ q.pc = "call" => q.via \in {"act", "auto"}
  /\ q.pc = "path" => q.paths # <<>>

(* What its checks have shown so far; a path is checked or still to be.    *)
Shown(q) ==
  /\ q.pc = "acl" /\ q.via # "write" => "deploy" \in q.refs
  /\ q.pc = "rules" => {"deploy", "right"} \subseteq q.refs
  /\ q.pc = "path" => {"deploy", "right", "rules"} \subseteq q.refs
  /\ q.pc \in {"done", "call"} /\ q.via # "read" => Needed(q) \subseteq q.refs
  /\ \A i \in DOMAIN q.all : \/ q.all[i] \in q.refs
                             \/ \E j \in DOMAIN q.paths : q.paths[j] = q.all[i]

(* A request for a token that passed the access check did so in this tick. *)
Holding(q) ==
  q.via = "sign" /\ q.pc \in {"rules", "path", "done"} => heldAt[q.user][q.srv] = clock

PolicyOK ==
  /\ grants \in [Servers -> [Keys -> Grantable \cup {"*", None}]]
  /\ RulesOK
  /\ link \in [Servers -> LinkRow \cup {None}]
  /\ mgmt \in [Servers -> SUBSET (Features \cup Paths)]
  /\ world \in BOOLEAN

RequestsOK ==
  /\ req \in [Requests -> ReqRow]
  /\ \A r \in Requests : Shape(req[r]) /\ Shown(req[r]) /\ Holding(req[r])

ClockOK ==
  /\ clock \in 0..MaxClock
  /\ heldAt \in [Users -> [Servers -> Nat]]
  /\ \A u \in Users, s \in Servers : heldAt[u][s] <= clock

(* A token was signed when its user held the right, for what was shown. *)
TokensOK ==
  \A t \in tokens :
    /\ t.user \in Users /\ t.srv \in Servers /\ t.iat \in Nat
    /\ t.exp = t.iat + Lifetime /\ t.iat <= heldAt[t.user][t.srv]
    /\ {"deploy", "right", "rules"} \cup {t.all[i] : i \in DOMAIN t.all} \subseteq t.refs

ConsolesOK == \A c \in consoles : c.write => {"deploy", "right", "rules"} \subseteq c.refs

(* The inductive invariant. *)
IInv == /\ PolicyOK /\ RequestsOK /\ ClockOK /\ TokensOK /\ ConsolesOK
        /\ ActedWithinRights /\ RevocationBounded

(* The history that Next keeps beside every step. *)
HeldNext ==
  heldAt' = [u \in Users |-> [s \in Servers |->
               IF Entitled(s, u, "file.write")' THEN clock' ELSE heldAt[u][s]]]

LEMMA NeededFacts ==
  ASSUME NEW q
  PROVE  /\ q.via = "write" => Needed(q) = {"right"}
         /\ q.via \in {"act", "auto"} =>
              Needed(q) = {"deploy", "right"} \cup (IF q.failopen THEN {} ELSE {"rules"})
         /\ q.via \notin {"write", "act", "auto"} =>
              Needed(q) = {"deploy", "right", "rules"} \cup {q.all[i] : i \in DOMAIN q.all}
  BY DEF Needed

LEMMA HeldFacts ==
  ASSUME IInv, HeldNext, clock' \in {clock, clock + 1}
  PROVE  /\ heldAt' \in [Users -> [Servers -> Nat]]
         /\ \A u \in Users, s \in Servers :
              /\ heldAt'[u][s] <= clock' /\ heldAt[u][s] <= heldAt'[u][s]
              /\ heldAt[u][s] = clock /\ clock' = clock => heldAt'[u][s] = clock'
              /\ Entitled(s, u, "file.write")' => heldAt'[u][s] = clock'
<1>1. clock \in Nat /\ clock' \in Nat /\ clock <= clock'
  BY DEF IInv, ClockOK
<1>2. \A u \in Users, s \in Servers :
        heldAt[u][s] \in Nat /\ heldAt[u][s] <= clock
        /\ heldAt'[u][s] = IF Entitled(s, u, "file.write")' THEN clock' ELSE heldAt[u][s]
  BY DEF IInv, ClockOK, HeldNext
<1>3. \A u \in Users, s \in Servers : heldAt'[u][s] \in Nat
  BY <1>1, <1>2
<1>4. heldAt' \in [Users -> [Servers -> Nat]]
  BY <1>3 DEF HeldNext
<1> QED
  BY <1>1, <1>2, <1>4

LEMMA IdleRequest == NoReq \in ReqRow /\ Shape(NoReq) /\ Shown(NoReq) /\ NoReq.via = None
                     /\ NoReq.pc = "idle" /\ None \notin Vias
<1>1. None \notin Vias
  BY ControlAssumption DEF Vias
<1>2. /\ NoReq.pc = "idle" /\ NoReq.via = None /\ NoReq.paths = <<>> /\ NoReq.all = <<>>
      /\ NoReq \in ReqRow
  BY DEF NoReq, ReqRow, Pcs, Refs
<1>3. Shape(NoReq)
  BY <1>1, <1>2 DEF Shape, Vias
<1>4. Shown(NoReq)
  BY <1>2 DEF Shown
<1> QED
  BY <1>1, <1>2, <1>3, <1>4

(* A step that moves the request r to q, or none. *)
LEMMA RequestStep ==
  ASSUME IInv, HeldNext, clock' = clock, NEW r \in Requests, NEW q \in ReqRow, Goto(r, q),
         Shape(q), Shown(q),
         q.via = "sign" /\ q.pc \in {"rules", "path", "done"} => heldAt'[q.user][q.srv] = clock
  PROVE  RequestsOK'
<1>1. req' \in [Requests -> ReqRow] /\ req'[r] = q
      /\ \A d \in Requests : d # r => req'[d] = req[d]
  BY DEF Goto, IInv, RequestsOK
<1>2. \A d \in Requests : d # r => Holding(req[d])'
  <2> SUFFICES ASSUME NEW d \in Requests, d # r, req[d].via = "sign",
                      req[d].pc \in {"rules", "path", "done"}
               PROVE  heldAt'[req[d].user][req[d].srv] = clock'
    BY <1>1 DEF Holding
  <2>1. req[d].user \in Users /\ req[d].srv \in Servers
        /\ heldAt[req[d].user][req[d].srv] = clock
    BY DEF IInv, RequestsOK, Shape, Holding
  <2> QED
    BY <2>1, HeldFacts
<1>3. Holding(req[r])'
  BY <1>1 DEF Holding
<1> QED
  BY <1>1, <1>2, <1>3 DEF RequestsOK, IInv

LEMMA SameRequests ==
  ASSUME IInv, HeldNext, UNCHANGED req,
         clock' = clock \/ (clock' = clock + 1 /\ \A r \in Requests : req[r].pc = "idle")
  PROVE  RequestsOK'
<1> SUFFICES ASSUME NEW r \in Requests PROVE Holding(req[r])'
  BY DEF IInv, RequestsOK
<1> SUFFICES ASSUME req[r].via = "sign", req[r].pc \in {"rules", "path", "done"}
             PROVE  heldAt'[req[r].user][req[r].srv] = clock'
  BY DEF Holding
<1>1. req[r].user \in Users /\ req[r].srv \in Servers /\ heldAt[req[r].user][req[r].srv] = clock
  BY DEF IInv, RequestsOK, Shape, Holding
<1> QED
  BY <1>1, HeldFacts

LEMMA SameTokens ==
  ASSUME IInv, HeldNext, clock' \in {clock, clock + 1}, UNCHANGED tokens
  PROVE  TokensOK'
<1> SUFFICES ASSUME NEW t \in tokens PROVE t.iat <= heldAt'[t.user][t.srv]
  BY DEF IInv, TokensOK
<1>1. t.user \in Users /\ t.srv \in Servers /\ t.iat \in Nat /\ t.iat <= heldAt[t.user][t.srv]
  BY DEF IInv, TokensOK
<1>2. heldAt[t.user][t.srv] \in Nat /\ heldAt'[t.user][t.srv] \in Nat
      /\ heldAt[t.user][t.srv] <= heldAt'[t.user][t.srv]
  BY <1>1, HeldFacts DEF IInv, ClockOK
<1> QED
  BY <1>1, <1>2

LEMMA SameClock ==
  ASSUME IInv, HeldNext, clock' = clock
  PROVE  ClockOK'
  BY HeldFacts DEF IInv, ClockOK

-----------------------------------------------------------------------------
(* What most steps leave alone. *)
LEMMA SamePolicy == ASSUME IInv, UNCHANGED <<policy, world>> PROVE PolicyOK'
  BY DEF IInv, PolicyOK, RulesOK, RuleIds, policy

LEMMA SameEffect ==
  ASSUME IInv, effect' = effect \/ effect' = None
  PROVE  ActedWithinRights' /\ RevocationBounded'
  BY DEF IInv, ActedWithinRights, RevocationBounded

LEMMA ShownEffect ==
  ASSUME NEW q, Effect(q), Needed(q) \subseteq q.refs, q.via # "token"
  PROVE  ActedWithinRights' /\ RevocationBounded'
  BY DEF Effect, ActedWithinRights, RevocationBounded

LEMMA Assemble ==
  ASSUME IInv, HeldNext, UNCHANGED <<tokens, consoles, clock>>,
         PolicyOK', RequestsOK', ActedWithinRights', RevocationBounded'
  PROVE  IInv'
<1>1. ClockOK' /\ TokensOK'
  BY SameClock, SameTokens DEF IInv
<1>2. ConsolesOK'
  BY DEF IInv, ConsolesOK
<1> QED
  BY <1>1, <1>2 DEF IInv

(* A request that ends. *)
LEMMA DoneStep ==
  ASSUME IInv, HeldNext, clock' = clock, NEW r \in Requests, Done(r)
  PROVE  RequestsOK'
<1>1. None # "sign"
  BY IdleRequest DEF Vias
<1> QED
  BY <1>1, IdleRequest, RequestStep DEF Done

(* A request that begins. *)
LEMMA BeginStep ==
  ASSUME IInv, HeldNext, NEW r \in Requests, NEW via \in Vias \ {"read"}, NEW u \in People,
         NEW s \in Servers, NEW c \in Capabilities \ {"console.write"}, NEW ps \in Seq(Paths),
         Begin(r, via, u, s, c, ps),
         via \notin {"call", "sign"} => ps = <<>>,
         via = "sign" => u \in Users /\ c = "file.write"
  PROVE  IInv'
<1> DEFINE l == IF via = "act" THEN link[s] ELSE None
           p == IF via = "write" THEN "acl" ELSE "gate"
           q == [NoReq EXCEPT !.pc = p, !.via = via, !.user = u, !.srv = s, !.cap = c, !.paths = ps,
                              !.all = ps, !.copy = l]
<1>1. l \in LinkRow \cup {None} /\ p \in Pcs
  BY DEF IInv, PolicyOK, Pcs
<1>2. /\ UNCHANGED <<policy, world, tokens, consoles, clock>> /\ effect' = None
      /\ Goto(r, q)
  BY DEF Begin
<1>3. /\ q.pc = p /\ q.via = via /\ q.user = u /\ q.srv = s /\ q.cap = c /\ q.paths = ps
      /\ q.all = ps
  BY DEF NoReq
<1> HIDE DEF l
<1>4. q \in ReqRow
  BY <1>1, IdleRequest DEF ReqRow
<1> HIDE DEF q
<1>5. Shape(q)
  BY <1>3, IdleRequest DEF Shape
<1>6. Shown(q) /\ q.pc \in {"acl", "gate"}
  BY <1>3 DEF Shown
<1>7. RequestsOK'
  BY <1>2, <1>4, <1>5, <1>6, RequestStep
<1> QED
  BY <1>2, <1>7, Assemble, SamePolicy, SameEffect

LEMMA ArriveStep ==
  ASSUME IInv, HeldNext, NEW r \in Requests, Arrive(r)
  PROVE  IInv'
<1>1. /\ {"act", "auto", "call", "sign", "console", "write"} \subseteq Vias \ {"read"}
      /\ Users \subseteq People /\ "system" \in People /\ <<>> \in Seq(Paths)
      /\ {"start", "command:say", "file.write", "backup.restore", "server.update",
          "console.read", "access.manage"} \subseteq Capabilities \ {"console.write"}
  BY DEF Vias, People, Capabilities, Actions, Managed
<1>2. \A p, t \in Paths : <<p>> \in Seq(Paths) /\ <<p, t>> \in Seq(Paths)
  OBVIOUS
<1>3. CASE ServerAction(r)
  <2>1. PICK s \in Servers, u \in People : Begin(r, "act", u, s, "start", <<>>)
    BY <1>3 DEF ServerAction
  <2> QED
    BY <1>1, <1>2, <2>1, BeginStep
<1>4. CASE SendCommand(r)
  <2>1. PICK s \in Servers, u \in Users : Begin(r, "act", u, s, "command:say", <<>>)
    BY <1>4 DEF SendCommand
  <2> QED
    BY <1>1, <1>2, <2>1, BeginStep
<1>5. CASE ScheduledAction(r)
  <2>1. PICK s \in Servers : Begin(r, "auto", "system", s, "start", <<>>)
    BY <1>5 DEF ScheduledAction
  <2> QED
    BY <1>1, <1>2, <2>1, BeginStep
<1>6. CASE AgentFileWrite(r)
  <2>1. PICK s \in Servers, u \in Users, p \in Paths : Begin(r, "call", u, s, "file.write", <<p>>)
    BY <1>6 DEF AgentFileWrite
  <2> QED
    BY <1>1, <1>2, <2>1, BeginStep
<1>7. CASE AgentFileOperation(r)
  <2>1. PICK s \in Servers, u \in Users, p \in Paths, t \in Paths : Begin(r, "call", u, s, "file.write", <<p, t>>)
    BY <1>7 DEF AgentFileOperation
  <2> QED
    BY <1>1, <1>2, <2>1, BeginStep
<1>8. CASE AgentFileAccess(r)
  <2>1. PICK s \in Servers, u \in Users, p \in Paths, t \in Paths :
               Begin(r, "sign", u, s, "file.write", IF p = t THEN <<p>> ELSE <<p, t>>)
    BY <1>8 DEF AgentFileAccess
  <2> DEFINE x == IF p = t THEN <<p>> ELSE <<p, t>>
  <2>2. x \in Seq(Paths) /\ Begin(r, "sign", u, s, "file.write", x)
    BY <1>2, <2>1
  <2> HIDE DEF x
  <2> QED
    BY <1>1, <2>2, BeginStep
<1>9. CASE AgentBackupRestore(r)
  <2>1. PICK s \in Servers, u \in Users : Begin(r, "call", u, s, "backup.restore", <<>>)
    BY <1>9 DEF AgentBackupRestore
  <2> QED
    BY <1>1, <1>2, <2>1, BeginStep
<1>10. CASE AgentUpdate(r)
  <2>1. PICK s \in Servers, u \in Users : Begin(r, "call", u, s, "server.update", <<>>)
    BY <1>10 DEF AgentUpdate
  <2> QED
    BY <1>1, <1>2, <2>1, BeginStep
<1>11. CASE ServeWS(r)
  <2>1. PICK s \in Servers, u \in Users : Begin(r, "console", u, s, "console.read", <<>>)
    BY <1>11 DEF ServeWS
  <2> QED
    BY <1>1, <1>2, <2>1, BeginStep
<1>12. CASE ManageAccess(r)
  <2>1. PICK s \in Servers, u \in Users : Begin(r, "write", u, s, "access.manage", <<>>)
    BY <1>12 DEF ManageAccess
  <2> QED
    BY <1>1, <1>2, <2>1, BeginStep
<1> QED
  BY <1>3, <1>4, <1>5, <1>6, <1>7, <1>8, <1>9, <1>10, <1>11, <1>12 DEF Arrive

LEMMA RefuseStep ==
  ASSUME IInv, HeldNext, clock' = clock, NEW r \in Requests, Refuse(r), req[r].pc # "idle"
  PROVE  RequestsOK'
<1> DEFINE q == req[r]
           v == [q EXCEPT !.pc = "done", !.via = "read"]
<1>1. q \in ReqRow /\ Shape(q) /\ Shown(q)
  BY DEF IInv, RequestsOK
<1>2. CASE q.cap = "console.write" /\ Goto(r, v)
  <2>1. v \in ReqRow /\ v.pc = "done" /\ v.via = "read" /\ v.user = q.user /\ v.srv = q.srv
        /\ v.cap = q.cap /\ v.paths = q.paths /\ v.all = q.all /\ v.refs = q.refs
    BY <1>1 DEF ReqRow, Pcs, Vias
  <2>2. q.all = <<>> /\ q.paths = <<>>
    BY <1>1, <1>2 DEF Shape
  <2> HIDE DEF q, v
  <2>3. None # "read" /\ q.user \in People /\ q.srv \in Servers
    BY <1>1, IdleRequest DEF Vias, Shape, q
  <2>4. Shape(v)
    BY <1>2, <2>1, <2>2, <2>3 DEF Shape
  <2>5. Shown(v)
    BY <2>1, <2>2 DEF Shown
  <2> QED
    BY <1>2, <2>1, <2>4, <2>5, RequestStep
<1>3. CASE Done(r)
  BY <1>3, DoneStep
<1> QED
  BY <1>2, <1>3 DEF Refuse

(* The facts about a request under way that every step of it starts from. *)
LEMMA RequestFacts ==
  ASSUME IInv, NEW r \in Requests
  PROVE  /\ req[r] \in ReqRow /\ Shape(req[r]) /\ Shown(req[r]) /\ Holding(req[r])
         /\ req[r].pc \in Pcs /\ req[r].refs \in SUBSET Refs /\ req[r].via \in Vias \cup {None}
         /\ req[r].paths \in Seq(Paths) /\ req[r].all \in Seq(Paths)
  BY DEF IInv, RequestsOK, ReqRow

(* A check of the request r that passed. *)
LEMMA PassStep ==
  ASSUME IInv, HeldNext, UNCHANGED <<policy, world, tokens, consoles, clock, effect>>,
         NEW r \in Requests, NEW p \in Pcs \ {"idle"}, NEW x \in Refs, Pass(r, p, x, TRUE),
         req[r].pc # "idle",
         NEW v, v = [req[r] EXCEPT !.pc = p, !.refs = req[r].refs \cup {x}],
         v \in ReqRow => Shape(v) /\ Shown(v),
         req[r].via = "sign" /\ p \in {"rules", "path", "done"} =>
           heldAt'[req[r].user][req[r].srv] = clock
  PROVE  IInv'
<1> DEFINE q == req[r]
<1>1. q \in ReqRow /\ q.refs \cup {x} \in SUBSET Refs
  BY RequestFacts
<1>2. v \in ReqRow /\ v.pc = p /\ v.via = q.via /\ v.user = q.user /\ v.srv = q.srv
  <2> DEFINE R == q.refs \cup {x}
  <2>1. v = [q EXCEPT !.pc = p, !.refs = R] /\ p \in Pcs /\ R \in SUBSET Refs
    BY <1>1
  <2>2. R = q.refs \cup {x}
    OBVIOUS
  <2> HIDE DEF q, R
  <2> QED BY <1>1, <2>1, <2>2 DEF ReqRow
<1>3. Goto(r, v)
  <2>1. Goto(r, [q EXCEPT !.pc = p, !.refs = q.refs \cup {x}])
    BY Zenon DEF Pass
  <2> QED
    BY <2>1
<1> HIDE DEF q
<1>4. RequestsOK'
  BY <1>2, <1>3, RequestStep DEF q
<1> QED
  BY <1>4, Assemble, SamePolicy, SameEffect

LEMMA RefusedStep ==
  ASSUME IInv, HeldNext, UNCHANGED <<policy, world, tokens, consoles, clock, effect>>,
         NEW r \in Requests, req[r].pc # "idle", Refuse(r) \/ Done(r)
  PROVE  IInv'
  BY RefuseStep, DoneStep, Assemble, SamePolicy, SameEffect

LEMMA CheckDeploymentStep ==
  ASSUME IInv, HeldNext, NEW r \in Requests, CheckDeployment(r)
  PROVE  IInv'
<1> DEFINE q == req[r]
           v == [q EXCEPT !.pc = "acl", !.refs = q.refs \cup {"deploy"}]
<1>1. q.pc = "gate" /\ (Pass(r, "acl", "deploy", TRUE) \/ Refuse(r))
      /\ UNCHANGED <<policy, world, tokens, consoles, clock, effect>>
  BY DEF CheckDeployment
<1>2. q \in ReqRow /\ Shape(q) /\ Shown(q)
  BY RequestFacts
<1>3. "acl" \in Pcs \ {"idle"} /\ "deploy" \in Refs /\ q.refs \cup {"deploy"} \in SUBSET Refs
  BY RequestFacts DEF Pcs, Refs
<1>4. /\ v \in ReqRow /\ v.pc = "acl" /\ v.refs = q.refs \cup {"deploy"} /\ v.via = q.via
      /\ v.user = q.user /\ v.srv = q.srv /\ v.cap = q.cap /\ v.paths = q.paths /\ v.all = q.all
      /\ v.failopen = q.failopen
  <2> DEFINE R == q.refs \cup {"deploy"}
  <2>1. v = [q EXCEPT !.pc = "acl", !.refs = R] /\ "acl" \in Pcs /\ R \in SUBSET Refs
    BY <1>3
  <2>2. R = q.refs \cup {"deploy"}
    OBVIOUS
  <2> HIDE DEF q, v, R
  <2> QED BY <1>2, <2>1, <2>2 DEF ReqRow
<1>5. v = [req[r] EXCEPT !.pc = "acl", !.refs = req[r].refs \cup {"deploy"}]
  OBVIOUS
<1> HIDE DEF v
<1>6. Shape(v) /\ Shown(v)
  BY <1>1, <1>2, <1>4 DEF Shape, Shown
<1>7. CASE Pass(r, "acl", "deploy", TRUE)
  BY <1>1, <1>3, <1>5, <1>6, <1>7, PassStep
<1> QED
  BY <1>1, <1>7, RefusedStep

LEMMA SameEntitled ==
  ASSUME UNCHANGED grants, NEW s, NEW u, NEW c
  PROVE  Entitled(s, u, c)' <=> Entitled(s, u, c)
  BY DEF Entitled

LEMMA EvaluateACLStep ==
  ASSUME IInv, HeldNext, NEW r \in Requests, EvaluateACL(r)
  PROVE  IInv'
<1> DEFINE q == req[r]
           p == IF q.via = "write" THEN "done" ELSE "rules"
           R == Right(q.srv, q.user, q.cap)
           E == Entitled(q.srv, q.user, q.cap)
           v == [q EXCEPT !.pc = p, !.refs = q.refs \cup {"right"}]
<1>1. q.pc = "acl" /\ UNCHANGED <<policy, world, tokens, consoles, clock, effect>>
  BY DEF EvaluateACL
<1>2. q \in ReqRow /\ Shape(q) /\ Shown(q)
  BY RequestFacts
<1>3. p \in Pcs \ {"idle"} /\ "right" \in Refs /\ q.refs \cup {"right"} \in SUBSET Refs
  BY RequestFacts DEF Pcs, Refs
<1>4. /\ v \in ReqRow /\ v.pc = p /\ v.refs = q.refs \cup {"right"} /\ v.via = q.via
      /\ v.user = q.user /\ v.srv = q.srv /\ v.cap = q.cap /\ v.paths = q.paths /\ v.all = q.all
      /\ v.failopen = q.failopen
  <2> DEFINE F == q.refs \cup {"right"}
  <2>1. v = [q EXCEPT !.pc = p, !.refs = F] /\ p \in Pcs /\ F \in SUBSET Refs
    BY <1>3
  <2>2. F = q.refs \cup {"right"}
    OBVIOUS
  <2> HIDE DEF q, p, v, F
  <2> QED BY <1>2, <2>1, <2>2 DEF ReqRow
<1>5. v = [req[r] EXCEPT !.pc = p, !.refs = req[r].refs \cup {"right"}]
  OBVIOUS
<1>6. R <=> E
  BY RightIsEntitled
<1>7. CASE Refuse(r)
  BY <1>1, <1>7, RefusedStep
<1>8. CASE E /\ Pass(r, p, "right", E)
  <2>1. Pass(r, p, "right", TRUE)
    <3>1. E <=> TRUE
      BY <1>8
    <3> HIDE DEF E
    <3> QED BY <1>8, <3>1 DEF Pass
  <2>2. Shape(v)
    <3> HIDE DEF v
    <3> QED BY <1>1, <1>2, <1>4 DEF Shape
  <2>3. Shown(v)
    <3>1. q.via = "write" => q.all = <<>>
      BY <1>2 DEF Shape
    <3>2. q.via # "write" => "deploy" \in q.refs
      BY <1>1, <1>2 DEF Shown
    <3>3. q.via = "write" => Needed(v) = {"right"}
      <4> HIDE DEF v
      <4> QED BY <1>4, NeededFacts
    <3> HIDE DEF v
    <3> QED BY <1>1, <1>2, <1>4, <3>1, <3>2, <3>3 DEF Shown
  <2>4. ASSUME q.via = "sign" PROVE heldAt'[q.user][q.srv] = clock
    <3>1. q.user \in Users /\ q.srv \in Servers /\ q.cap = "file.write"
      BY <1>1, <1>2, <2>4 DEF Shape
    <3>2. PICK u \in Users, s \in Servers : u = q.user /\ s = q.srv
      BY <3>1
    <3>3. Entitled(s, u, "file.write")'
      <4>1. Entitled(s, u, "file.write")
        BY <1>8, <3>1, <3>2
      <4>2. UNCHANGED grants
        BY <1>1 DEF policy
      <4> QED
        BY <4>1, <4>2, SameEntitled
    <3> QED
      BY <1>1, <3>2, <3>3, HeldFacts
  <2> HIDE DEF v, p
  <2> QED
    BY <1>1, <1>3, <1>5, <2>1, <2>2, <2>3, <2>4, PassStep
<1> QED
  <2>1. Refuse(r) \/ (R /\ Pass(r, p, "right", E))
    BY DEF EvaluateACL
  <2> QED
    BY <1>6, <1>7, <1>8, <2>1

LEMMA EvaluateStep ==
  ASSUME IInv, HeldNext, NEW r \in Requests, Evaluate(r)
  PROVE  IInv'
<1> DEFINE q == req[r]
           p == IF q.paths # <<>> THEN "path" ELSE "done"
           P == Permitted(q.srv)
           R == q.refs \cup {"rules"}
           v == [q EXCEPT !.pc = p, !.refs = R]
<1>1. q.pc = "rules" /\ UNCHANGED <<policy, world, tokens, consoles, clock, effect>>
  BY DEF Evaluate
<1>2. q \in ReqRow /\ Shape(q) /\ Shown(q) /\ Holding(q)
  BY RequestFacts
<1>3. p \in Pcs \ {"idle"} /\ "rules" \in Refs /\ R \in SUBSET Refs
  BY RequestFacts DEF Pcs, Refs
<1>4. /\ v \in ReqRow /\ v.pc = p /\ v.refs = R /\ v.via = q.via
      /\ v.user = q.user /\ v.srv = q.srv /\ v.cap = q.cap /\ v.paths = q.paths /\ v.all = q.all
      /\ v.failopen = q.failopen
  <2> HIDE DEF q, p, R
  <2> QED BY <1>2, <1>3 DEF ReqRow
<1>5. v = [req[r] EXCEPT !.pc = p, !.refs = req[r].refs \cup {"rules"}]
  OBVIOUS
<1>6. EvaluateConstraints(q.srv) => P
  BY ConstraintsPermit DEF IInv, PolicyOK
<1>7. CASE Refuse(r)
  BY <1>1, <1>7, RefusedStep
<1>8. CASE P /\ Pass(r, p, "rules", P)
  <2>1. Pass(r, p, "rules", TRUE)
    <3>1. P <=> TRUE
      BY <1>8
    <3> HIDE DEF P
    <3> QED BY <1>8, <3>1 DEF Pass
  <2>2. Shape(v)
    <3> HIDE DEF v
    <3> QED BY <1>1, <1>2, <1>4 DEF Shape
  <2>3. Shown(v)
    <3>1. {"deploy", "right"} \subseteq q.refs /\ q.via # "write"
      BY <1>1, <1>2 DEF Shown, Shape
    <3>2. \A i \in DOMAIN q.all : q.all[i] \in q.refs \/ \E j \in DOMAIN q.paths : q.paths[j] = q.all[i]
      BY <1>2 DEF Shown
    <3>3. p = "done" => q.paths = <<>> /\ DOMAIN q.paths = {}
      OBVIOUS
    <3>4. p = "done" => {q.all[i] : i \in DOMAIN q.all} \subseteq q.refs
      BY <3>2, <3>3
    <3>5. p = "done" => Needed(v) \subseteq R
      <4>1. Needed(v) \subseteq {"deploy", "right", "rules"} \cup {q.all[i] : i \in DOMAIN q.all}
        <5> HIDE DEF v
        <5> QED BY <1>4, NeededFacts
      <4> HIDE DEF v, p
      <4> QED BY <3>1, <3>4, <4>1
    <3> HIDE DEF v
    <3> QED BY <1>4, <3>1, <3>2, <3>5 DEF Shown
  <2>4. ASSUME q.via = "sign" PROVE heldAt'[q.user][q.srv] = clock
    <3>1. q.user \in Users /\ q.srv \in Servers /\ heldAt[q.user][q.srv] = clock
      BY <1>1, <1>2, <2>4 DEF Shape, Holding
    <3> QED
      BY <1>1, <3>1, HeldFacts
  <2> HIDE DEF v, p, R
  <2> QED
    BY <1>1, <1>3, <1>5, <2>1, <2>2, <2>3, <2>4, PassStep
<1> QED
  <2>1. Refuse(r) \/ (EvaluateConstraints(q.srv) /\ Pass(r, p, "rules", P))
    BY DEF Evaluate
  <2> QED
    BY <1>6, <1>7, <1>8, <2>1

LEMMA StoreFailsStep ==
  ASSUME IInv, HeldNext, NEW r \in Requests, StoreFails(r)
  PROVE  IInv'
<1> DEFINE q == req[r]
           v == [q EXCEPT !.pc = "done", !.failopen = TRUE]
<1>1. q.pc \in {"gate", "acl", "rules", "path"}
      /\ UNCHANGED <<policy, world, tokens, consoles, clock, effect>>
  BY DEF StoreFails
<1>2. q \in ReqRow /\ Shape(q) /\ Shown(q)
  BY RequestFacts
<1>3. /\ v \in ReqRow /\ v.pc = "done" /\ v.refs = q.refs /\ v.via = q.via
      /\ v.user = q.user /\ v.srv = q.srv /\ v.cap = q.cap /\ v.paths = q.paths /\ v.all = q.all
      /\ v.failopen = TRUE
  <2> HIDE DEF q
  <2> QED BY <1>2 DEF ReqRow, Pcs
<1>4. CASE Refuse(r)
  BY <1>1, <1>4, RefusedStep
<1>5. CASE q.pc = "rules" /\ q.via \in {"act", "auto"} /\ Goto(r, v)
  <2> HIDE DEF v
  <2>1. Shape(v)
    BY <1>2, <1>3, <1>5 DEF Shape
  <2>2. {"deploy", "right"} \subseteq q.refs
    BY <1>2, <1>5 DEF Shown
  <2>3. Needed(v) = {"deploy", "right"}
    BY <1>3, <1>5, NeededFacts
  <2>4. Shown(v)
    BY <1>2, <1>3, <1>5, <2>2, <2>3 DEF Shown
  <2>5. RequestsOK'
    BY <1>1, <1>3, <1>5, <2>1, <2>4, RequestStep
  <2> QED
    BY <1>1, <2>5, Assemble, SamePolicy, SameEffect
<1> QED
  <2>1. Refuse(r) \/ (q.pc = "rules" /\ q.via \in {"act", "auto"} /\ Goto(r, v))
    BY DEF StoreFails
  <2> QED
    BY <1>4, <1>5, <2>1

(* What is in a sequence is its head or in its tail. *)
LEMMA HeadOrTail ==
  ASSUME NEW S, NEW ps \in Seq(S), ps # <<>>, NEW j \in DOMAIN ps
  PROVE  ps[j] = Head(ps) \/ \E k \in DOMAIN Tail(ps) : Tail(ps)[k] = ps[j]
<1>1. Len(ps) \in Nat /\ DOMAIN ps = 1..Len(ps) /\ Len(ps) > 0
  OBVIOUS
<1>2. Len(Tail(ps)) = Len(ps) - 1 /\ DOMAIN Tail(ps) = 1..(Len(ps) - 1)
  BY <1>1
<1>3. CASE j = 1
  BY <1>3
<1>4. CASE j # 1
  <2>1. j - 1 \in DOMAIN Tail(ps)
    BY <1>1, <1>2, <1>4
  <2>2. Tail(ps)[j - 1] = ps[j]
    BY <1>1, <1>2, <1>4, <2>1
  <2> QED BY <2>1, <2>2
<1> QED
  BY <1>3, <1>4

LEMMA ManagedPathStep ==
  ASSUME IInv, HeldNext, NEW r \in Requests, authorizeManagedPath(r)
  PROVE  IInv'
<1> DEFINE q == req[r]
           p == Head(q.paths)
           T == Tail(q.paths)
           R == q.refs \cup {p}
           n == IF T = <<>> THEN "done" ELSE "gate"
           v == [q EXCEPT !.pc = n, !.paths = T, !.refs = R]
<1>1. q.pc = "path" /\ UNCHANGED <<policy, world, tokens, consoles, clock, effect>>
  BY DEF authorizeManagedPath
<1>2. q \in ReqRow /\ Shape(q) /\ Shown(q) /\ Holding(q) /\ q.paths \in Seq(Paths)
  BY RequestFacts
<1>3. q.paths # <<>> /\ p \in Paths /\ T \in Seq(Paths)
  <2>1. q.paths # <<>>
    BY <1>1, <1>2 DEF Shape
  <2> HIDE DEF q
  <2> QED BY <1>2, <2>1
<1>4. R \in SUBSET Refs /\ n \in Pcs
  BY <1>3, RequestFacts DEF Refs, Pcs
<1>5. /\ v \in ReqRow /\ v.pc = n /\ v.refs = R /\ v.via = q.via /\ v.paths = T
      /\ v.user = q.user /\ v.srv = q.srv /\ v.cap = q.cap /\ v.all = q.all
  <2> HIDE DEF q, n, R, T
  <2> QED BY <1>2, <1>3, <1>4 DEF ReqRow
<1>6. CASE Done(r)
  BY <1>1, <1>6, RefusedStep
<1>7. CASE Goto(r, v)
  <2>1. q.via \in {"call", "sign"} /\ {"deploy", "right", "rules"} \subseteq q.refs
    BY <1>1, <1>2, <1>3 DEF Shape, Shown
  <2>2. Shape(v)
    <3> HIDE DEF v, T
    <3> QED BY <1>1, <1>2, <1>5, <2>1 DEF Shape
  <2>3. \A i \in DOMAIN q.all : q.all[i] \in R \/ \E j \in DOMAIN T : T[j] = q.all[i]
    <3> SUFFICES ASSUME NEW i \in DOMAIN q.all, q.all[i] \notin q.refs
                 PROVE  q.all[i] \in R \/ \E j \in DOMAIN T : T[j] = q.all[i]
      OBVIOUS
    <3>1. PICK j \in DOMAIN q.paths : q.paths[j] = q.all[i]
      BY <1>2 DEF Shown
    <3> HIDE DEF q
    <3>2. q.paths[j] = p \/ \E k \in DOMAIN T : T[k] = q.paths[j]
      BY <1>2, <1>3, HeadOrTail
    <3> QED
      BY <3>1, <3>2
  <2>4. n = "done" => Needed(v) \subseteq R
    <3>1. Needed(v) = {"deploy", "right", "rules"} \cup {q.all[i] : i \in DOMAIN q.all}
      <4> HIDE DEF v
      <4> QED BY <1>5, <2>1, NeededFacts
    <3>2. n = "done" => DOMAIN T = {}
      OBVIOUS
    <3>3. n = "done" => {q.all[i] : i \in DOMAIN q.all} \subseteq R
      BY <2>3, <3>2
    <3> HIDE DEF v, n
    <3> QED BY <2>1, <3>1, <3>3
  <2>5. Shown(v)
    <3> HIDE DEF v, T, R
    <3> QED BY <1>5, <2>3, <2>4 DEF Shown
  <2>6. ASSUME q.via = "sign" PROVE heldAt'[q.user][q.srv] = clock
    <3>1. q.user \in Users /\ q.srv \in Servers /\ heldAt[q.user][q.srv] = clock
      BY <1>1, <1>2, <2>6 DEF Shape, Holding
    <3> QED
      BY <1>1, <3>1, HeldFacts
  <2> HIDE DEF v
  <2>7. RequestsOK'
    BY <1>1, <1>5, <1>7, <2>2, <2>5, <2>6, RequestStep
  <2> QED
    BY <1>1, <2>7, Assemble, SamePolicy, SameEffect
<1> QED
  <2>1. Done(r) \/ Goto(r, v)
    BY DEF authorizeManagedPath, Rest
  <2> QED
    BY <1>6, <1>7, <2>1

LEMMA ResolveBackendStep ==
  ASSUME IInv, HeldNext, NEW r \in Requests, resolveBackend(r)
  PROVE  IInv'
<1> DEFINE q == req[r]
           copy == IF q.via = "auto" THEN link[q.srv] ELSE q.copy
           v == [q EXCEPT !.pc = "call"]
<1>1. /\ q.pc = "done" /\ q.via \in {"act", "auto"}
      /\ UNCHANGED <<grants, rules, mgmt, world, tokens, consoles, clock, effect>>
  BY DEF resolveBackend
<1>2. q \in ReqRow /\ Shape(q) /\ Shown(q)
  BY RequestFacts
<1>3. /\ v \in ReqRow /\ v.pc = "call" /\ v.refs = q.refs /\ v.via = q.via
      /\ v.user = q.user /\ v.srv = q.srv /\ v.cap = q.cap /\ v.paths = q.paths /\ v.all = q.all
      /\ v.failopen = q.failopen
  <2> HIDE DEF q
  <2> QED BY <1>2 DEF ReqRow, Pcs
<1>4. q.srv \in Servers /\ copy \in LinkRow \cup {None}
      /\ link \in [Servers -> LinkRow \cup {None}]
  BY <1>1, <1>2 DEF Shape, ReqRow, IInv, PolicyOK
<1>5. CASE Done(r) /\ UNCHANGED link
  <2>1. UNCHANGED <<policy, world>>
    BY <1>1, <1>5 DEF policy
  <2> QED
    BY <1>1, <1>5, <2>1, RefusedStep
<1>6. CASE /\ copy # None /\ Goto(r, v)
           /\ link' = IF ~copy.ident /\ link[q.srv] # None
                      THEN [link EXCEPT ![q.srv] = [copy EXCEPT !.ident = TRUE]] ELSE link
  <2>1. Shape(v)
    <3> HIDE DEF v
    <3> QED BY <1>1, <1>2, <1>3 DEF Shape
  <2>2. Shown(v)
    <3>1. Needed(v) = Needed(q)
      <4> HIDE DEF v
      <4> QED BY <1>1, <1>3, NeededFacts
    <3> HIDE DEF v
    <3> QED BY <1>1, <1>2, <1>3, <3>1 DEF Shown
  <2>3. RequestsOK'
    <3> HIDE DEF v
    <3> QED BY <1>1, <1>3, <1>6, <2>1, <2>2, RequestStep
  <2>4. PolicyOK'
    <3> DEFINE row == [copy EXCEPT !.ident = TRUE]
    <3>1. row \in LinkRow
      <4> HIDE DEF copy
      <4> QED BY <1>4, <1>6 DEF LinkRow
    <3> HIDE DEF row, copy
    <3>2. link' \in [Servers -> LinkRow \cup {None}]
      BY <1>4, <1>6, <3>1 DEF row
    <3> QED
      BY <1>1, <3>2 DEF IInv, PolicyOK, RulesOK, RuleIds
  <2> QED
    BY <1>1, <2>3, <2>4, Assemble, SameEffect
<1> QED
  BY <1>5, <1>6 DEF resolveBackend

LEMMA CallStep ==
  ASSUME IInv, HeldNext, NEW r \in Requests, Call(r)
  PROVE  IInv'
<1> DEFINE q == req[r]
<1>1. /\ q.pc = "call" \/ (q.pc = "done" /\ q.via = "call")
      /\ Effect(q) /\ Done(r) /\ UNCHANGED <<policy, world, tokens, consoles, clock>>
  BY DEF Call
<1>2. Shape(q) /\ Shown(q) /\ q.via \in Vias \cup {None}
  BY RequestFacts
<1>3. q.via # "read" /\ q.via # "token"
  BY <1>1, <1>2, ControlAssumption DEF Shape, Vias
<1>4. Needed(q) \subseteq q.refs
  BY <1>1, <1>2, <1>3 DEF Shown
<1>5. ActedWithinRights' /\ RevocationBounded'
  <2> HIDE DEF q
  <2> QED BY <1>1, <1>3, <1>4, ShownEffect
<1> QED
  BY <1>1, <1>5, DoneStep, SamePolicy, Assemble

LEMMA DirectAccessStep ==
  ASSUME IInv, HeldNext, NEW r \in Requests, DirectAccess(r)
  PROVE  IInv'
<1> DEFINE q == req[r]
           t == [user |-> q.user, srv |-> q.srv, all |-> q.all, iat |-> clock,
                 exp |-> clock + Lifetime, refs |-> q.refs]
<1>1. /\ q.pc = "done" /\ q.via = "sign" /\ tokens' = tokens \cup {t} /\ Done(r)
      /\ UNCHANGED <<policy, world, consoles, clock, effect>>
  BY DEF DirectAccess
<1>2. Shape(q) /\ Shown(q) /\ Holding(q)
  BY RequestFacts
<1>3. q.user \in Users /\ q.srv \in Servers /\ heldAt[q.user][q.srv] = clock /\ clock \in Nat
  BY <1>1, <1>2 DEF Shape, Holding, IInv, ClockOK
<1>4. heldAt'[q.user][q.srv] = clock
  BY <1>1, <1>3, HeldFacts
<1>5. {"deploy", "right", "rules"} \cup {q.all[i] : i \in DOMAIN q.all} \subseteq q.refs
  <2>1. Needed(q) \subseteq q.refs
    BY <1>1, <1>2 DEF Shown
  <2> QED
    BY <1>1, <2>1, NeededFacts
<1>6. t.user = q.user /\ t.srv = q.srv /\ t.all = q.all /\ t.iat = clock
      /\ t.exp = clock + Lifetime /\ t.refs = q.refs
  OBVIOUS
<1>7. \A x \in tokens : x.iat <= heldAt'[x.user][x.srv]
  <2> SUFFICES ASSUME NEW x \in tokens PROVE x.iat <= heldAt'[x.user][x.srv]
    OBVIOUS
  <2>1. x.user \in Users /\ x.srv \in Servers /\ x.iat \in Nat /\ x.iat <= heldAt[x.user][x.srv]
    BY DEF IInv, TokensOK
  <2>2. heldAt[x.user][x.srv] \in Nat /\ heldAt'[x.user][x.srv] \in Nat
        /\ heldAt[x.user][x.srv] <= heldAt'[x.user][x.srv]
    BY <1>1, <2>1, HeldFacts DEF IInv, ClockOK
  <2> QED
    BY <2>1, <2>2
<1> HIDE DEF t
<1>8. TokensOK'
  <2> SUFFICES ASSUME NEW x \in tokens'
               PROVE  /\ x.user \in Users /\ x.srv \in Servers /\ x.iat \in Nat
                      /\ x.exp = x.iat + Lifetime /\ x.iat <= heldAt'[x.user][x.srv]
                      /\ {"deploy", "right", "rules"} \cup {x.all[i] : i \in DOMAIN x.all}
                           \subseteq x.refs
    BY DEF TokensOK
  <2>1. CASE x = t
    BY <1>3, <1>4, <1>5, <1>6, <2>1
  <2>2. CASE x \in tokens
    BY <1>7, <2>2 DEF IInv, TokensOK
  <2> QED
    BY <1>1, <2>1, <2>2
<1>9. ConsolesOK'
  BY <1>1 DEF IInv, ConsolesOK
<1> QED
  BY <1>1, <1>8, <1>9, DoneStep, SamePolicy, SameClock, SameEffect DEF IInv

LEMMA UseTokenStep ==
  ASSUME IInv, HeldNext, NEW t \in tokens, UseToken(t)
  PROVE  IInv'
<1> DEFINE q == [NoReq EXCEPT !.via = "token", !.user = t.user, !.srv = t.srv, !.all = t.all,
                              !.refs = t.refs]
<1>1. Verify(t) /\ Effect(q) /\ UNCHANGED <<policy, world, req, tokens, consoles, clock>>
  BY DEF UseToken
<1>2. q.via = "token" /\ q.user = t.user /\ q.srv = t.srv /\ q.all = t.all /\ q.refs = t.refs
  BY DEF NoReq
<1> HIDE DEF q
<1>3. /\ t.user \in Users /\ t.srv \in Servers /\ t.iat \in Nat
      /\ t.exp = t.iat + Lifetime /\ t.iat <= heldAt[t.user][t.srv]
      /\ {"deploy", "right", "rules"} \cup {t.all[i] : i \in DOMAIN t.all} \subseteq t.refs
  BY DEF IInv, TokensOK
<1>4. heldAt[t.user][t.srv] \in Nat /\ clock \in Nat /\ Lifetime \in Nat
  BY <1>3, ControlAssumption DEF IInv, ClockOK
<1>5. clock - heldAt[t.user][t.srv] <= Lifetime
  BY <1>1, <1>3, <1>4 DEF Verify
<1>6. Needed(q) = {"deploy", "right", "rules"} \cup {t.all[i] : i \in DOMAIN t.all}
  BY <1>2, NeededFacts
<1>7. ActedWithinRights'
  BY <1>1, <1>2, <1>3, <1>6 DEF Effect, ActedWithinRights
<1>8. RevocationBounded'
  BY <1>1, <1>2, <1>3, <1>5 DEF Effect, RevocationBounded
<1> QED
  BY <1>1, <1>7, <1>8, SameRequests, SamePolicy, Assemble

LEMMA ConsoleOpensStep ==
  ASSUME IInv, HeldNext, NEW r \in Requests, ConsoleOpens(r)
  PROVE  IInv'
<1> DEFINE q == req[r]
           v == [q EXCEPT !.pc = "gate", !.cap = "console.write", !.refs = {}]
           c == [user |-> q.user, srv |-> q.srv, write |-> q.via = "console", refs |-> q.refs]
<1>1. q.pc = "done" /\ q.via \in {"console", "read"}
      /\ UNCHANGED <<policy, world, tokens, clock, effect>>
  BY DEF ConsoleOpens
<1>2. q \in ReqRow /\ Shape(q) /\ Shown(q)
  BY RequestFacts
<1>3. q.all = <<>> /\ q.paths = <<>>
  BY <1>1, <1>2 DEF Shape
<1>4. CASE q.cap = "console.read" /\ Goto(r, v) /\ UNCHANGED consoles
  <2>1. /\ v \in ReqRow /\ v.pc = "gate" /\ v.refs = {} /\ v.via = q.via
        /\ v.user = q.user /\ v.srv = q.srv /\ v.cap = "console.write" /\ v.paths = q.paths
        /\ v.all = q.all
    <3> HIDE DEF q
    <3> QED BY <1>2 DEF ReqRow, Pcs, Capabilities, Managed
  <2>2. q.via # "read"
    BY <1>2, <1>4 DEF Shape
  <2> HIDE DEF v
  <2>3. Shape(v)
    BY <1>1, <1>2, <1>3, <2>1, <2>2 DEF Shape
  <2>4. Shown(v)
    BY <1>3, <2>1 DEF Shown
  <2>5. RequestsOK'
    BY <1>1, <2>1, <1>4, <2>3, <2>4, RequestStep
  <2> QED
    BY <1>1, <1>4, <2>5, Assemble, SamePolicy, SameEffect
<1>5. CASE Done(r) /\ consoles' = consoles \cup {c}
  <2>1. c.write => {"deploy", "right", "rules"} \subseteq c.refs
    <3>1. c.refs = q.refs /\ (c.write <=> q.via = "console")
      OBVIOUS
    <3>2. q.via = "console" => {"deploy", "right", "rules"} \subseteq Needed(q)
      BY NeededFacts
    <3>3. q.via = "console" => Needed(q) \subseteq q.refs
      BY <1>1, <1>2 DEF Shown
    <3> HIDE DEF c
    <3> QED BY <3>1, <3>2, <3>3
  <2> HIDE DEF c
  <2>2. ConsolesOK'
    BY <1>5, <2>1 DEF IInv, ConsolesOK
  <2> QED
    BY <1>1, <1>5, <2>2, DoneStep, SamePolicy, SameTokens, SameClock, SameEffect DEF IInv
<1> QED
  BY <1>4, <1>5 DEF ConsoleOpens

LEMMA ConsoleInputStep ==
  ASSUME IInv, HeldNext, NEW c \in consoles, ConsoleInput(c)
  PROVE  IInv'
<1> DEFINE q == [NoReq EXCEPT !.via = "console", !.user = c.user, !.srv = c.srv, !.refs = c.refs]
<1>1. c.write /\ Effect(q) /\ UNCHANGED <<policy, world, req, tokens, consoles, clock>>
  BY DEF ConsoleInput, TakesInput
<1>2. q.via = "console" /\ q.all = <<>> /\ q.refs = c.refs
  BY DEF NoReq
<1> HIDE DEF q
<1>3. Needed(q) = {"deploy", "right", "rules"}
  <2>1. Needed(q) = {"deploy", "right", "rules"} \cup {q.all[i] : i \in DOMAIN q.all}
    BY <1>2, NeededFacts
  <2>2. DOMAIN q.all = {}
    BY <1>2
  <2> QED
    BY <2>1, <2>2
<1>4. Needed(q) \subseteq q.refs
  BY <1>1, <1>2, <1>3 DEF IInv, ConsolesOK
<1> QED
  BY <1>1, <1>2, <1>4, ShownEffect, SameRequests, SamePolicy, Assemble

LEMMA ConsoleClosesStep ==
  ASSUME IInv, HeldNext, NEW c \in consoles, ConsoleCloses(c)
  PROVE  IInv'
<1>1. UNCHANGED <<policy, world, req, tokens, clock, effect>> /\ consoles' = consoles \ {c}
  BY DEF ConsoleCloses
<1>2. ConsolesOK'
  BY <1>1 DEF IInv, ConsolesOK
<1> QED
  BY <1>1, <1>2, SameRequests, SamePolicy, SameTokens, SameClock, SameEffect DEF IInv

-----------------------------------------------------------------------------
(* The changes an administrator or a manager makes, and the clock.         *)
LEMMA GrantEdit ==
  ASSUME IInv, UNCHANGED <<rules, link, mgmt, world>>, NEW s \in Servers, NEW k \in Keys,
         NEW c \in Grantable \cup {"*", None}, grants' = [grants EXCEPT ![s][k] = c]
  PROVE  PolicyOK'
<1>1. grants' \in [Servers -> [Keys -> Grantable \cup {"*", None}]]
  BY DEF IInv, PolicyOK
<1> QED
  BY <1>1 DEF IInv, PolicyOK, RulesOK, RuleIds

LEMMA RuleEdit ==
  ASSUME IInv, UNCHANGED <<grants, link, mgmt, world>>, NEW i, NEW row \in RuleRow \cup {None},
         row = None \/ row.scope = "instance" \/ row.prio <= Ceiling,
         rules' = [rules EXCEPT ![i] = row]
  PROVE  PolicyOK'
<1>1. rules \in [1..MaxRules -> RuleRow \cup {None}]
  BY DEF IInv, PolicyOK, RulesOK
<1>2. rules' \in [1..MaxRules -> RuleRow \cup {None}]
  BY <1>1
<1>3. ASSUME NEW j \in 1..MaxRules, rules'[j] # None, rules'[j].scope # "instance"
      PROVE  rules'[j].prio <= Ceiling
  <2>1. rules'[j] = row \/ rules'[j] = rules[j]
    BY <1>1
  <2>2. CASE rules'[j] = row
    BY <1>3, <2>2
  <2>3. CASE rules'[j] = rules[j]
    BY <1>3, <2>3 DEF IInv, PolicyOK, RulesOK, RuleIds
  <2> QED
    BY <2>1, <2>2, <2>3
<1>4. RulesOK'
  BY <1>2, <1>3 DEF RulesOK, RuleIds
<1> QED
  BY <1>4 DEF IInv, PolicyOK

LEMMA AdminStep ==
  ASSUME IInv, HeldNext, ByAdmin, PolicyOK'
  PROVE  IInv'
<1>1. UNCHANGED <<req, effect, world, tokens, consoles, clock>>
  BY DEF ByAdmin, Edit
<1> QED
  BY <1>1, SameRequests, SameEffect, Assemble

LEMMA ManagerStep ==
  ASSUME IInv, HeldNext, NEW r \in Requests, ByManager(r), PolicyOK'
  PROVE  IInv'
<1> DEFINE q == req[r]
<1>1. UNCHANGED <<world, tokens, consoles, clock>> /\ Done(r) /\ Effect(q)
      /\ q.pc = "done" /\ q.via = "write"
  BY DEF ByManager, Edit
<1>2. Shown(q)
  BY RequestFacts
<1>3. Needed(q) \subseteq q.refs
  BY <1>1, <1>2 DEF Shown
<1>4. ActedWithinRights' /\ RevocationBounded'
  <2> HIDE DEF q
  <2> QED BY <1>1, <1>3, ShownEffect
<1> QED
  BY <1>1, <1>4, DoneStep, Assemble

LEMMA ManagerEdits ==
  ASSUME IInv, HeldNext, NEW r \in Requests,
         \/ HandleAccessGrantSet(r) \/ HandleAccessGrantDelete(r)
         \/ HandleServerConstraintSet(r) \/ HandleServerConstraintDelete(r)
  PROVE  IInv'
<1>1. ByManager(r) /\ UNCHANGED world /\ req[r].srv \in Servers
  <2>1. ByManager(r) /\ req[r].pc = "done" /\ UNCHANGED world
    BY DEF HandleAccessGrantSet, HandleAccessGrantDelete, HandleServerConstraintSet,
           HandleServerConstraintDelete, ByManager, Edit
  <2> QED
    BY <2>1, RequestFacts DEF Shape
<1>2. CASE HandleAccessGrantSet(r)
  <2>1. UNCHANGED <<rules, link, mgmt>>
        /\ \E k \in Keys, c \in Grantable : grants' = [grants EXCEPT ![req[r].srv][k] = c]
    BY <1>2 DEF HandleAccessGrantSet, SetServerAccessGrant
  <2> QED
    BY <1>1, <2>1, GrantEdit, ManagerStep
<1>3. CASE HandleAccessGrantDelete(r)
  <2>1. UNCHANGED <<rules, link, mgmt>>
        /\ \E k \in Keys : grants' = [grants EXCEPT ![req[r].srv][k] = None]
    BY <1>3 DEF HandleAccessGrantDelete, DeleteServerAccessGrant
  <2> QED
    BY <1>1, <2>1, GrantEdit, ManagerStep
<1>4. CASE HandleServerConstraintSet(r)
  <2>1. PICK row \in RuleRow : row.prio <= Ceiling /\ \E i : rules' = [rules EXCEPT ![i] = row]
    BY <1>4 DEF HandleServerConstraintSet, UnderCeiling, SetRule
  <2>2. UNCHANGED <<grants, link, mgmt>>
    BY <1>4 DEF HandleServerConstraintSet
  <2> QED
    BY <1>1, <2>1, <2>2, RuleEdit, ManagerStep
<1>5. CASE HandleServerConstraintDelete(r)
  <2>1. PICK i : rules' = [rules EXCEPT ![i] = None]
    BY <1>5 DEF HandleServerConstraintDelete
  <2>2. UNCHANGED <<grants, link, mgmt>>
    BY <1>5 DEF HandleServerConstraintDelete
  <2> QED
    BY <1>1, <2>1, <2>2, RuleEdit, ManagerStep
<1> QED
  BY <1>2, <1>3, <1>4, <1>5

LEMMA AdminEdits ==
  ASSUME IInv, HeldNext, Change
  PROVE  IInv'
<1>1. ByAdmin /\ UNCHANGED world
  BY DEF Change, SetGrant, DeleteGrant, AddConstraint, UpdateConstraint, DeleteConstraint,
         LinkServer, UnlinkServer, ReconcileManagement, ByAdmin, Edit
<1>2. CASE SetGrant
  <2>1. UNCHANGED <<rules, link, mgmt>> /\ \E s \in Servers, k \in Keys, c \in Grantable :
                                              grants' = [grants EXCEPT ![s][k] = c]
    BY <1>2 DEF SetGrant, SetServerAccessGrant
  <2> QED
    BY <1>1, <2>1, GrantEdit, AdminStep
<1>3. CASE DeleteGrant
  <2>1. UNCHANGED <<rules, link, mgmt>> /\ \E s \in Servers, k \in Keys :
                                              grants' = [grants EXCEPT ![s][k] = None]
    BY <1>3 DEF DeleteGrant, DeleteServerAccessGrant
  <2> QED
    BY <1>1, <2>1, GrantEdit, AdminStep
<1>4. CASE AddConstraint \/ UpdateConstraint
  <2>1. PICK row \in RuleRow : /\ row.scope = "instance"
                             /\ \E i : rules' = [rules EXCEPT ![i] = row]
    BY <1>4 DEF AddConstraint, UpdateConstraint, SetRule
  <2>2. UNCHANGED <<grants, link, mgmt>>
    BY <1>4 DEF AddConstraint, UpdateConstraint
  <2> QED
    BY <1>1, <2>1, <2>2, RuleEdit, AdminStep
<1>5. CASE DeleteConstraint
  <2>1. PICK i : rules' = [rules EXCEPT ![i] = None]
    BY <1>5 DEF DeleteConstraint
  <2>2. UNCHANGED <<grants, link, mgmt>>
    BY <1>5 DEF DeleteConstraint
  <2> QED
    BY <1>1, <2>1, <2>2, RuleEdit, AdminStep
<1>6. CASE LinkServer \/ UnlinkServer
  <2>1. PICK s \in Servers, row \in LinkRow \cup {None} : link' = [link EXCEPT ![s] = row]
    BY <1>6 DEF LinkServer, UnlinkServer
  <2>2. UNCHANGED <<grants, rules, mgmt>>
    BY <1>6 DEF LinkServer, UnlinkServer
  <2>3. link' \in [Servers -> LinkRow \cup {None}]
    BY <2>1 DEF IInv, PolicyOK
  <2>4. PolicyOK'
    BY <1>1, <2>2, <2>3 DEF IInv, PolicyOK, RulesOK, RuleIds
  <2> QED
    BY <1>1, <2>4, AdminStep
<1>7. CASE ReconcileManagement
  <2>1. mgmt \in [Servers -> SUBSET (Features \cup Paths)]
    BY DEF IInv, PolicyOK
  <2>2. PICK s \in Servers, f \in Features \cup Paths :
               mgmt' = [mgmt EXCEPT ![s] = IF f \in mgmt[s] THEN mgmt[s] \ {f} ELSE mgmt[s] \cup {f}]
    BY <1>7 DEF ReconcileManagement
  <2>3. mgmt' \in [Servers -> SUBSET (Features \cup Paths)]
    BY <2>1, <2>2
  <2>4. UNCHANGED <<grants, rules, link>>
    BY <1>7 DEF ReconcileManagement
  <2>5. PolicyOK'
    BY <1>1, <2>3, <2>4 DEF IInv, PolicyOK, RulesOK, RuleIds
  <2> QED
    BY <1>1, <2>5, AdminStep
<1> QED
  BY <1>2, <1>3, <1>4, <1>5, <1>6, <1>7 DEF Change

LEMMA EnvironmentStep ==
  ASSUME IInv, HeldNext, WorldChanges \/ Tick
  PROVE  IInv'
<1>1. CASE WorldChanges
  <2>1. UNCHANGED <<policy, req, tokens, consoles, clock, effect>> /\ world' \in BOOLEAN
    BY <1>1 DEF WorldChanges, IInv, PolicyOK
  <2>2. PolicyOK'
    BY <2>1 DEF IInv, PolicyOK, RulesOK, RuleIds, policy
  <2> QED
    BY <2>1, <2>2, SameRequests, SameEffect, Assemble
<1>2. CASE Tick
  <2>1. /\ UNCHANGED <<policy, world, req, tokens, consoles, effect>> /\ clock < MaxClock
        /\ clock' = clock + 1 /\ \A r \in Requests : req[r].pc = "idle"
    BY <1>2 DEF Tick
  <2>2. clock \in 0..MaxClock /\ MaxClock \in Nat /\ clock' \in 0..MaxClock
    BY <2>1, ControlAssumption DEF IInv, ClockOK
  <2>3. ClockOK'
    BY <2>1, <2>2, HeldFacts DEF ClockOK
  <2>4. ConsolesOK'
    BY <2>1 DEF IInv, ConsolesOK
  <2> QED
    BY <2>1, <2>3, <2>4, SameRequests, SamePolicy, SameTokens, SameEffect DEF IInv
<1> QED
  BY <1>1, <1>2

-----------------------------------------------------------------------------
LEMMA InitEstablishes == Init => IInv
<1> SUFFICES ASSUME Init PROVE IInv
  OBVIOUS
<1>1. PolicyOK
  <2>1. grants \in [Servers -> [Keys -> Grantable \cup {"*", None}]]
    BY DEF Init
  <2>2. RulesOK
    BY DEF Init, RulesOK, RuleIds
  <2>3. link \in [Servers -> LinkRow \cup {None}]
    BY DEF Init, LinkRow
  <2> QED
    BY <2>1, <2>2, <2>3 DEF Init, PolicyOK
<1>2. RequestsOK
  <2>1. None # "sign"
    BY IdleRequest DEF Vias
  <2>2. Holding(NoReq)
    BY <2>1, IdleRequest DEF Holding
  <2>3. req = [r \in Requests |-> NoReq]
    BY DEF Init
  <2> QED
    BY <2>2, <2>3, IdleRequest DEF RequestsOK
<1>3. ClockOK
  BY ControlAssumption DEF Init, ClockOK
<1>4. TokensOK /\ ConsolesOK /\ ActedWithinRights /\ RevocationBounded
  BY DEF Init, TokensOK, ConsolesOK, ActedWithinRights, RevocationBounded
<1> QED
  BY <1>1, <1>2, <1>3, <1>4 DEF IInv

LEMMA StepPreserves == IInv /\ [Next]_vars => IInv'
<1> SUFFICES ASSUME IInv, [Next]_vars PROVE IInv'
  OBVIOUS
<1>1. CASE UNCHANGED vars
  BY <1>1 DEF vars, IInv, PolicyOK, RulesOK, RuleIds, RequestsOK, Holding, ClockOK, TokensOK,
              ConsolesOK, ActedWithinRights, RevocationBounded
<1>2. CASE Next
  <2>1. Act /\ HeldNext
    BY <1>2 DEF Next, HeldNext
  <2>2. ASSUME NEW r \in Requests, Arrive(r) PROVE IInv'
    BY <2>1, <2>2, ArriveStep
  <2>3. ASSUME NEW r \in Requests, Step(r) PROVE IInv'
    BY <2>1, <2>3, CheckDeploymentStep, EvaluateACLStep, EvaluateStep, StoreFailsStep,
       ManagedPathStep, ResolveBackendStep, CallStep, DirectAccessStep, ConsoleOpensStep,
       ManagerEdits DEF Step
  <2>4. ASSUME NEW t \in tokens, UseToken(t) PROVE IInv'
    BY <2>1, <2>4, UseTokenStep
  <2>5. ASSUME NEW c \in consoles, ConsoleInput(c) \/ ConsoleCloses(c) PROVE IInv'
    BY <2>1, <2>5, ConsoleInputStep, ConsoleClosesStep
  <2>6. CASE Change \/ WorldChanges \/ Tick
    BY <2>1, <2>6, AdminEdits, EnvironmentStep
  <2> QED
    BY <2>1, <2>2, <2>3, <2>4, <2>5, <2>6 DEF Act
<1> QED
  BY <1>1, <1>2

LEMMA Invariance == Spec => []IInv
  BY InitEstablishes, StepPreserves, PTL DEF Spec

(* Every state has its type: no constraint of a server is above the        *)
(* ceiling, however its manager made it (HandleServerConstraintSet), and   *)
(* every token that DirectAccess signed lives exactly its lifetime.        *)
THEOREM ControlTypes == Spec => []TypeOK
<1>1. IInv => TypeOK
  BY DEF IInv, PolicyOK, RulesOK, RequestsOK, ReqRow, Pcs, Shape, ClockOK, TokensOK, TypeOK
<1> QED
  BY <1>1, Invariance, PTL

(* Nothing is done to a server that the documents do not allow: whatever   *)
(* the engine, the managed handlers, the console and the agent carry out   *)
(* was enabled by the deployment, within the user's rights with every deny *)
(* applied (EvaluateServerAccess), inside the enabled paths                *)
(* (authorizeManagedPath) and not against a requirement without an         *)
(* exemption that outranks it (EvaluateConstraints) when it was decided;   *)
(* the requirements are left out only where the engine lets an action go   *)
(* on after an error of their evaluation.                                  *)
THEOREM OnlyWithinRights == Spec => []ActedWithinRights
<1>1. IInv => ActedWithinRights
  BY DEF IInv
<1> QED
  BY <1>1, Invariance, PTL

(* A capability token outlives the right it was signed for by no more than *)
(* its lifetime (DirectAccess, capability.Verify).                         *)
THEOREM TokensExpire == Spec => []RevocationBounded
<1>1. IInv => RevocationBounded
  BY DEF IInv
<1> QED
  BY <1>1, Invariance, PTL
=============================================================================
