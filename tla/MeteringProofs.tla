-------------------------- MODULE MeteringProofs --------------------------
(***************************************************************************)
(* The safety properties of Metering for any users, VPSes, sessions and    *)
(* months.  Sums are folds, so the first part is the laws of sums.         *)
(***************************************************************************)
EXTENDS Metering, FiniteSetTheorems, WellFoundedInduction, TLAPS

USE DEF traffic

(* Sums *)

\* Among some subsets of a finite set there is a smallest one.
LEMMA SmallestSet ==
  ASSUME NEW S, IsFiniteSet(S), NEW Sets, Sets \subseteq SUBSET S, Sets # {}
  PROVE  \E T \in Sets : \A U \in Sets : ~(U \subseteq T /\ U # T)
<1>1. IsWellFoundedOn(StrictSubsetOrdering(S), SUBSET S)
  BY FS_FiniteSubsetsOfFinite, FS_StrictSubsetOrderingWellFounded
<1>2. PICK T \in Sets : \A U \in Sets : <<U, T>> \notin StrictSubsetOrdering(S)
  BY <1>1, WFMin
<1>3. ASSUME NEW U \in Sets, U \subseteq T, U # T PROVE FALSE
  <2>1. <<U, T>> \in StrictSubsetOrdering(S)
    BY <1>3 DEF StrictSubsetOrdering
  <2> QED
    BY <1>2, <2>1
<1> QED
  BY <1>3

\* What Sum counts: f[x] tokens for each x of S.
Tokens(f, S) == UNION {{x} \X (1..f[x]) : x \in S}

\* One element more brings its tokens.
LEMMA TokensAdd ==
  ASSUME NEW f, NEW S, IsFiniteSet(Tokens(f, S)), NEW x, x \notin S, f[x] \in Nat
  PROVE  /\ IsFiniteSet(Tokens(f, S \cup {x}))
         /\ Cardinality(Tokens(f, S \cup {x})) = f[x] + Cardinality(Tokens(f, S))
<1> DEFINE New == {x} \X (1..f[x])
<1>1. IsFiniteSet(New) /\ Cardinality(New) = f[x]
  <2>1. IsFiniteSet({x}) /\ Cardinality({x}) = 1
    BY FS_Singleton
  <2>2. IsFiniteSet(1..f[x]) /\ Cardinality(1..f[x]) = f[x]
    <3>1. \A n \in Nat : IsFiniteSet(1..n) /\ Cardinality(1..n) = n
      BY SMTT(30), FS_Interval
    <3> QED
      BY <3>1
  <2>3. IsFiniteSet(New) /\ Cardinality(New) = Cardinality({x}) * Cardinality(1..f[x])
    BY <2>1, <2>2, FS_Product
  <2>4. 1 * f[x] = f[x]
    OBVIOUS
  <2> QED
    BY <2>1, <2>2, <2>3, <2>4
<1>2. Tokens(f, S \cup {x}) = Tokens(f, S) \cup New
  BY DEF Tokens
<1>3. Tokens(f, S) \cap New = {}
  BY DEF Tokens
<1> HIDE DEF New
<1>4. Cardinality(Tokens(f, S)) \in Nat
  BY FS_CardinalityType
<1>5. /\ IsFiniteSet(Tokens(f, S) \cup New)
      /\ Cardinality(Tokens(f, S) \cup New) =
           Cardinality(Tokens(f, S)) + Cardinality(New) - Cardinality(Tokens(f, S) \cap New)
  BY <1>1, FS_Union
<1>6. Cardinality(Tokens(f, S) \cap New) = 0
  BY <1>3, FS_EmptySet
<1>7. Cardinality(Tokens(f, S) \cup New) = f[x] + Cardinality(Tokens(f, S))
  BY <1>1, <1>4, <1>5, <1>6
<1> QED
  BY <1>2, <1>5, <1>7, Zenon

\* Finitely many elements have finitely many tokens: the smallest set that had not would
\* have an element to take away.
LEMMA TokensFinite ==
  ASSUME NEW f, NEW S, IsFiniteSet(S), \A x \in S : f[x] \in Nat
  PROVE  IsFiniteSet(Tokens(f, S))
<1> DEFINE Infinite == {T \in SUBSET S : ~IsFiniteSet(Tokens(f, T))}
<1> SUFFICES ASSUME Infinite # {} PROVE FALSE
  OBVIOUS
<1>1. Infinite \subseteq SUBSET S
  OBVIOUS
<1>2. PICK T \in Infinite : \A U \in Infinite : ~(U \subseteq T /\ U # T)
  <2> HIDE DEF Infinite
  <2> QED
    BY <1>1, SmallestSet
<1>3. T # {}
  <2>1. Tokens(f, {}) = {}
    BY DEF Tokens
  <2> QED
    BY <2>1, FS_EmptySet
<1>4. PICK x \in T : TRUE
  BY <1>3
<1>5. T \ {x} \in SUBSET S /\ T \ {x} \subseteq T /\ T \ {x} # T /\ (T \ {x}) \cup {x} = T
  BY <1>4
<1>6. IsFiniteSet(Tokens(f, T \ {x}))
  BY <1>2, <1>5
<1>7. IsFiniteSet(Tokens(f, (T \ {x}) \cup {x}))
  BY <1>4, <1>6, TokensAdd
<1> QED
  BY <1>5, <1>7

\* The fold takes one element after the other; tokens can be counted in that order too,
\* so that what the fold defines exists and is the number of tokens.
LEMMA SumIsTokens ==
  ASSUME NEW f, NEW S, IsFiniteSet(S), \A x \in S : f[x] \in Nat
  PROVE  Sum(f, S) = Cardinality(Tokens(f, S))
<1> DEFINE first(T) == CHOOSE x \in T : TRUE
           eqn(g) == g = [T \in SUBSET S |-> IF T = {} THEN 0 ELSE f[first(T)] + g[T \ {first(T)}]]
           count == [T \in SUBSET S |-> Cardinality(Tokens(f, T))]
           iter == CHOOSE g : eqn(g)
<1>1. Sum(f, S) = iter[S]
  BY Zenon DEF Sum, FoldFunctionOnSet, MapThenFoldSet
<1>2. \A T \in SUBSET S : T # {} =>
        /\ first(T) \in T /\ T \ {first(T)} \in SUBSET S
        /\ Cardinality(Tokens(f, T)) = f[first(T)] + Cardinality(Tokens(f, T \ {first(T)}))
  <2> TAKE T \in SUBSET S
  <2> HAVE T # {}
  <2> DEFINE x == first(T)
  <2>1. x \in T
    OBVIOUS
  <2> HIDE DEF x
  <2>2. IsFiniteSet(T \ {x}) /\ \A y \in T \ {x} : f[y] \in Nat
    BY FS_Subset
  <2>3. IsFiniteSet(Tokens(f, T \ {x}))
    BY <2>2, TokensFinite
  <2>4. (T \ {x}) \cup {x} = T
    BY <2>1
  <2>5. Cardinality(Tokens(f, (T \ {x}) \cup {x})) = f[x] + Cardinality(Tokens(f, T \ {x}))
    BY <2>1, <2>3, TokensAdd
  <2> QED
    BY <2>1, <2>4, <2>5 DEF x
<1>3. Cardinality(Tokens(f, {})) = 0
  BY FS_EmptySet DEF Tokens
<1>4. eqn(count)
  BY <1>2, <1>3
<1>5. eqn(iter)
  BY <1>4
<1> DEFINE Wrong == {T \in SUBSET S : iter[T] # count[T]}
<1> HIDE DEF iter, count
<1>6. ASSUME Wrong # {} PROVE FALSE
  <2>1. Wrong \subseteq SUBSET S
    OBVIOUS
  <2>2. PICK T \in Wrong : \A U \in Wrong : ~(U \subseteq T /\ U # T)
    <3> HIDE DEF Wrong
    <3> QED
      BY <1>6, <2>1, SmallestSet
  <2>3. T # {}
    BY <1>3, <1>4, <1>5
  <2>4. iter[T \ {first(T)}] = count[T \ {first(T)}]
    BY <1>2, <2>2, <2>3
  <2> QED
    BY SMTT(30), <1>2, <1>4, <1>5, <2>2, <2>3, <2>4
<1> QED
  BY <1>1, <1>6 DEF count

(* The laws of sums *)

\* A sum of naturals is a natural,
LEMMA SumNat ==
  ASSUME NEW f, NEW S, IsFiniteSet(S), \A x \in S : f[x] \in Nat
  PROVE  Sum(f, S) \in Nat
  BY SumIsTokens, TokensFinite, FS_CardinalityType

\* that of nothing is 0,
LEMMA SumEmpty == \A f : Sum(f, {}) = 0
<1> TAKE f
<1>1. Tokens(f, {}) = {}
  BY DEF Tokens
<1> QED
  BY <1>1, SumIsTokens, FS_EmptySet

\* One element more.
LEMMA SumAdd ==
  ASSUME NEW f, NEW S, IsFiniteSet(S), NEW x, x \notin S, \A y \in S \cup {x} : f[y] \in Nat
  PROVE  Sum(f, S \cup {x}) = f[x] + Sum(f, S)
<1>1. IsFiniteSet(S \cup {x}) /\ f[x] \in Nat
  BY FS_AddElement
<1>2. Sum(f, S \cup {x}) = Cardinality(Tokens(f, S \cup {x}))
  BY <1>1, SumIsTokens
<1>3. Sum(f, S) = Cardinality(Tokens(f, S))
  BY SumIsTokens
<1>4. IsFiniteSet(Tokens(f, S))
  BY TokensFinite
<1> QED
  BY <1>1, <1>2, <1>3, <1>4, TokensAdd

\* One element less.
LEMMA SumRemove ==
  ASSUME NEW f, NEW S, IsFiniteSet(S), NEW x \in S, \A y \in S : f[y] \in Nat
  PROVE  Sum(f, S) = f[x] + Sum(f, S \ {x})
<1>1. IsFiniteSet(S \ {x}) /\ (S \ {x}) \cup {x} = S
  BY FS_RemoveElement
<1>2. x \notin S \ {x} /\ \A y \in (S \ {x}) \cup {x} : f[y] \in Nat
  BY <1>1
<1>3. Sum(f, (S \ {x}) \cup {x}) = f[x] + Sum(f, S \ {x})
  BY <1>1, <1>2, SumAdd
<1> QED
  BY <1>1, <1>3

\* The same function on the set, or a larger one.
LEMMA SumSame ==
  ASSUME NEW f, NEW g, NEW S, IsFiniteSet(S), \A x \in S : f[x] \in Nat /\ g[x] = f[x]
  PROVE  Sum(g, S) = Sum(f, S)
<1>1. Tokens(g, S) = Tokens(f, S)
  BY DEF Tokens
<1> QED
  BY <1>1, SumIsTokens

\* More elements with no smaller values have no smaller sum.
LEMMA SumMonotone ==
  ASSUME NEW f, NEW g, NEW S, IsFiniteSet(S), NEW T, IsFiniteSet(T), S \subseteq T,
         \A x \in S : f[x] \in Nat, \A x \in T : g[x] \in Nat,
         \A x \in S : f[x] <= g[x]
  PROVE  Sum(f, S) <= Sum(g, T)
<1>1. Tokens(f, S) \in SUBSET Tokens(g, T)
  <2> SUFFICES ASSUME NEW x \in S, NEW i \in 1..f[x] PROVE <<x, i>> \in Tokens(g, T)
    BY DEF Tokens
  <2>1. i \in 1..g[x]
    OBVIOUS
  <2> QED
    BY <2>1 DEF Tokens
<1>2. IsFiniteSet(Tokens(g, T))
  BY TokensFinite
<1>3. Cardinality(Tokens(f, S)) <= Cardinality(Tokens(g, T))
  BY <1>1, <1>2, FS_Subset
<1> QED
  BY <1>3, SumIsTokens

\* The function differs at one place.
LEMMA SumChange ==
  ASSUME NEW f, NEW g, NEW S, IsFiniteSet(S), NEW x \in S,
         \A y \in S : f[y] \in Nat, g[x] \in Nat,
         \A y \in S \ {x} : g[y] = f[y]
  PROVE  Sum(g, S) + f[x] = Sum(f, S) + g[x]
<1>1. IsFiniteSet(S \ {x})
  BY FS_RemoveElement
<1>2. Sum(g, S \ {x}) = Sum(f, S \ {x}) /\ Sum(f, S \ {x}) \in Nat
  BY <1>1, SumSame, SumNat
<1>3. Sum(f, S) = f[x] + Sum(f, S \ {x})
  BY SumRemove
<1>4. Sum(g, S) = g[x] + Sum(g, S \ {x})
  BY SumRemove
<1> QED
  BY <1>2, <1>3, <1>4

-----------------------------------------------------------------------------
(* Costs *)

\* The cost of a number of bytes is a number of cents, and grows with it.
LEMMA OverageCostNat == ASSUME NEW bytes \in Nat PROVE OverageCost(bytes) \in Nat
<1>1. CASE bytes <= MaxBandwidth
  BY <1>1 DEF OverageCost, WithinPlan
<1>2. CASE bytes > MaxBandwidth
  <2>1. bytes - MaxBandwidth \in Nat /\ Rate \in Nat /\ Unit \in Nat \ {0}
    BY <1>2, MeteringConstantsOK
  <2>2. (bytes - MaxBandwidth) * Rate \in Nat
    BY <2>1
  <2>3. (bytes - MaxBandwidth) * Rate + Unit - 1 \in Nat
    BY <2>1, <2>2
  <2>4. ((bytes - MaxBandwidth) * Rate + Unit - 1) \div Unit \in Nat
    BY <2>1, <2>3
  <2>5. ~WithinPlan(bytes)
    BY <1>2, MeteringConstantsOK DEF WithinPlan
  <2> QED
    BY <2>4, <2>5, Zenon DEF OverageCost
<1> QED
  BY <1>1, <1>2, MeteringConstantsOK

\* Who uses more does not pay less.
LEMMA OverageCostMonotone ==
  ASSUME NEW few \in Nat, NEW many \in Nat, few <= many
  PROVE  OverageCost(few) <= OverageCost(many)
<1>1. CASE few <= MaxBandwidth
  <2>1. OverageCost(few) = 0
    BY <1>1 DEF OverageCost, WithinPlan
  <2> QED
    BY <2>1, OverageCostNat
<1>2. CASE few > MaxBandwidth
  <2> DEFINE m == few - MaxBandwidth
             n == many - MaxBandwidth
  <2>1. m \in Nat /\ n \in Nat /\ m <= n /\ Rate \in Nat /\ Unit \in Nat \ {0}
    BY <1>2, MeteringConstantsOK
  <2>2. OverageCost(few) = (m * Rate + Unit - 1) \div Unit
    <3>1. ~WithinPlan(few)
      BY <1>2, MeteringConstantsOK DEF WithinPlan
    <3> QED
      BY <3>1, Zenon DEF OverageCost
  <2>3. OverageCost(many) = (n * Rate + Unit - 1) \div Unit
    <3>1. ~WithinPlan(many)
      BY <1>2, MeteringConstantsOK DEF WithinPlan
    <3> QED
      BY <3>1, Zenon DEF OverageCost
  <2> HIDE DEF m, n
  <2>4. m * Rate \in Nat /\ n * Rate \in Nat /\ m * Rate <= n * Rate
    BY <2>1
  <2>5. (m * Rate + Unit - 1) \div Unit <= (n * Rate + Unit - 1) \div Unit
    <3> DEFINE x == m * Rate + Unit - 1
               y == n * Rate + Unit - 1
    <3>1. x \in Nat /\ y \in Nat /\ x <= y
      BY <2>1, <2>4
    <3> HIDE DEF x, y
    <3>2. x \div Unit <= y \div Unit
      BY <2>1, <3>1
    <3> QED
      BY <3>2 DEF x, y
  <2> QED
    BY <2>2, <2>3, <2>5
<1> QED
  BY <1>1, <1>2, MeteringConstantsOK

-----------------------------------------------------------------------------
(* Types *)

\* A session or a round that is under way has its VPS, or its user; one that is over,
\* or has not begun, has counted nothing.
Shape ==
  /\ \A c \in Conns :
       /\ conn[c].pc # "idle" => conn[c].vps \in Vpses
       /\ conn[c].pc = "idle" => conn[c] = NoConn
       /\ conn[c].pc = "budget" => conn[c].counted = 0
  /\ mon.pc \in {"budget", "stop"} => mon.user \in Users

Types == TypeOK /\ Shape

\* What a query of the month's usage finds.
LEMMA UsedNat ==
  ASSUME TypeOK, NEW m \in Months, NEW S \in SUBSET Vpses
  PROVE  UsedIn(m, S) \in Nat
<1> DEFINE f == [v \in S |-> period[v][m]]
<1>1. IsFiniteSet(S) /\ \A v \in S : f[v] \in Nat
  BY FinitelyMany, FS_Subset DEF TypeOK
<1> HIDE DEF f
<1>2. Sum(f, S) \in Nat
  BY <1>1, SumNat
<1> QED
  BY <1>2 DEF UsedIn, f

\* What a user's VPSes used, and what it costs, are numbers.
LEMMA AggregateNat ==
  ASSUME TypeOK, NEW u
  PROVE  Aggregate(u) \in Nat /\ OverageCost(Aggregate(u)) \in Nat
<1>1. {v \in VpsesOf(u) : vps[v] # "destroyed"} \in SUBSET Vpses /\ month \in Months
  BY DEF VpsesOf, TypeOK
<1>2. Aggregate(u) \in Nat
  BY <1>1, UsedNat DEF Aggregate
<1> QED
  BY <1>2, OverageCostNat

ConnRecords ==
  [pc : {"idle", "budget", "open", "flush"}, gated : BOOLEAN, vps : Vpses \cup {None},
   counted : Nat, cost : Nat, asOf : Months]

RoundRecords ==
  [pc : {"idle", "usage", "budget", "stop"}, rows : SUBSET Hetzner,
   users : SUBSET Users, user : Users \cup {None}, cost : Nat, asOf : Months]

\* A request that is let in, or has still to read the budget.
Opened(gated, v) == [NoConn EXCEPT !.pc = "open", !.gated = gated, !.vps = v]
Checked(v, cost, m) ==
  [NoConn EXCEPT !.pc = "budget", !.vps = v, !.cost = cost, !.asOf = m]

\* A session that is not open.
LEMMA NoConnFacts ==
  /\ NoConn \in ConnRecords /\ NoConn.pc = "idle" /\ NoConn.counted = 0 /\ NoConn.vps = None
  /\ ~NoConn.gated
  BY MeteringConstantsOK DEF NoConn, ConnRecords, Months

\* A session just opened.
LEMMA OpenedFacts ==
  ASSUME NEW v \in Vpses, NEW gated \in BOOLEAN
  PROVE  /\ Opened(gated, v) \in ConnRecords
         /\ Opened(gated, v).pc = "open" /\ Opened(gated, v).vps = v
         /\ Opened(gated, v).counted = 0 /\ Opened(gated, v).gated = gated
<1>1. Opened(gated, v) \in ConnRecords
  BY NoConnFacts DEF ConnRecords, Opened
<1>2. Opened(gated, v).gated = gated
  BY DEF NoConn, Opened
<1>3. Opened(gated, v).pc = "open" /\ Opened(gated, v).vps = v /\ Opened(gated, v).counted = 0
  BY DEF NoConn, Opened
<1> QED
  BY <1>1, <1>2, <1>3

\* A request whose usage was just added up.
LEMMA CheckedFacts ==
  ASSUME NEW v \in Vpses, NEW cost \in Nat, NEW m \in Months
  PROVE  /\ Checked(v, cost, m) \in ConnRecords
         /\ Checked(v, cost, m).pc = "budget" /\ Checked(v, cost, m).vps = v
         /\ Checked(v, cost, m).counted = 0 /\ ~Checked(v, cost, m).gated
         /\ Checked(v, cost, m).cost = cost /\ Checked(v, cost, m).asOf = m
  BY DEF NoConn, ConnRecords, Checked

\* A step of one session changes its record to one of its type.
LEMMA ConnMoves ==
  ASSUME Types, NEW c \in Conns, NEW new \in ConnRecords, conn' = [conn EXCEPT ![c] = new],
         new.pc # "idle" => new.vps \in Vpses,
         new.pc = "idle" => new = NoConn,
         new.pc = "budget" => new.counted = 0
  PROVE  /\ conn' \in [Conns -> ConnRecords]
         /\ \A d \in Conns :
              /\ conn'[d].pc # "idle" => conn'[d].vps \in Vpses
              /\ conn'[d].pc = "idle" => conn'[d] = NoConn
              /\ conn'[d].pc = "budget" => conn'[d].counted = 0
<1>1. conn \in [Conns -> ConnRecords]
  BY DEF Types, TypeOK, ConnRecords
<1>2. conn'[c] = new /\ \A d \in Conns \ {c} : conn'[d] = conn[d]
  BY <1>1
<1> QED
  BY <1>1, <1>2 DEF Types, Shape

\* The monitor between two rounds, and a round that just took its next user.
LEMMA RoundFacts ==
  ASSUME Types
  PROVE  /\ NoRound \in RoundRecords /\ NoRound.pc = "idle"
         /\ \A u : NextUser(u) => mon' \in RoundRecords /\ mon'.pc \notin {"budget", "stop"}
<1>1. 0 \in Months
  BY MeteringConstantsOK DEF Months
<1>2. NoRound \in RoundRecords /\ NoRound.pc = "idle"
  BY <1>1 DEF NoRound, RoundRecords
<1>3. mon \in RoundRecords
  BY DEF Types, TypeOK, RoundRecords
<1>4. ASSUME NEW u, NextUser(u) PROVE mon' \in RoundRecords /\ mon'.pc \notin {"budget", "stop"}
  <2> DEFINE rest == mon.users \ {u}
  <2>1. rest \in SUBSET Users /\ mon.rows \in SUBSET Hetzner
    BY <1>3 DEF RoundRecords
  <2>2. mon' = NoRound \/ mon' = [NoRound EXCEPT !.pc = "usage", !.rows = mon.rows, !.users = rest]
    BY <1>4 DEF NextUser
  <2> HIDE DEF rest
  <2>3. mon' = NoRound \/ mon' = [pc |-> "usage", rows |-> mon.rows, users |-> rest,
                                  user |-> None, cost |-> 0, asOf |-> 0]
    BY <2>2 DEF NoRound
  <2> QED
    BY <1>1, <1>2, <2>1, <2>3 DEF RoundRecords
<1> QED
  BY <1>2, <1>4

\* Initially there is nothing.
LEMMA InitTypes == Init => Types
  BY MeteringConstantsOK DEF Init, Types, TypeOK, Shape, NoConn, NoRound, Months

\* Every step keeps the types and the shape.
LEMMA StepTypes == Types /\ [Next]_vars => Types'
<1> SUFFICES ASSUME Types, [Next]_vars PROVE Types'
  OBVIOUS
<1> USE DEF Types
<1>0. /\ month \in Months /\ faults \in Nat /\ faults <= MaxFaults /\ MaxFaults \in Nat
      /\ mon \in RoundRecords /\ conn \in [Conns -> ConnRecords] /\ 0 \in Months
  BY MeteringConstantsOK DEF TypeOK, ConnRecords, RoundRecords, Months
\* What the steps of sessions and of rounds leave to show.
<1>a. ASSUME NEW c \in Conns, NEW new \in ConnRecords, conn' = [conn EXCEPT ![c] = new],
             new.pc # "idle" => new.vps \in Vpses, new.pc = "idle" => new = NoConn,
             new.pc = "budget" => new.counted = 0,
             UNCHANGED <<month, vps, gone, budget, mon, late>>,
             period' \in [Vpses -> [Months -> Nat]], carried' \in [Vpses -> Nat],
             faults' \in 0..MaxFaults
      PROVE  Types'
  BY <1>a, ConnMoves DEF TypeOK, Shape, ConnRecords
<1>b. ASSUME mon' \in RoundRecords, mon'.pc \in {"budget", "stop"} => mon'.user \in Users,
             UNCHANGED <<month, gone, period, budget, conn, traffic>>,
             vps' \in [Vpses -> {"running", "stopped", "destroyed"}],
             faults' \in 0..MaxFaults
      PROVE  Types'
  BY <1>b DEF TypeOK, Shape, RoundRecords
<1>1. ASSUME NEW c \in Conns, NEW v \in Vpses, ProxyRequest(c, v) PROVE Types'
  <2>1. OverageCost(Aggregate(Owner[v])) \in Nat
    BY AggregateNat
  <2>2. /\ UNCHANGED <<month, vps, gone, period, budget, mon, traffic, faults>>
        /\ \/ conn' = [conn EXCEPT ![c] = Opened(FALSE, v)]
           \/ conn' = [conn EXCEPT ![c] = Opened(TRUE, v)]
           \/ conn' = [conn EXCEPT ![c] = Checked(v, OverageCost(Aggregate(Owner[v])), month)]
    <3>1. CASE v \in Hetzner
      BY <1>1, <3>1 DEF ProxyRequest, Open, Opened
    <3>2. CASE v \notin Hetzner
      BY <1>1, <3>2 DEF ProxyRequest, Open, Opened, Checked
    <3> QED
      BY <3>1, <3>2
  <2>3. ASSUME NEW new \in ConnRecords, conn' = [conn EXCEPT ![c] = new],
               new.pc # "idle", new.vps \in Vpses, new.counted = 0
        PROVE  Types'
    BY <1>a, <2>2, <2>3 DEF TypeOK
  <2>4. CASE conn' = [conn EXCEPT ![c] = Opened(FALSE, v)]
    BY <2>3, <2>4, OpenedFacts
  <2>5. CASE conn' = [conn EXCEPT ![c] = Opened(TRUE, v)]
    BY <2>3, <2>5, OpenedFacts
  <2>6. CASE conn' = [conn EXCEPT ![c] = Checked(v, OverageCost(Aggregate(Owner[v])), month)]
    <3> DEFINE new == Checked(v, OverageCost(Aggregate(Owner[v])), month)
    <3>1. new \in ConnRecords /\ new.pc = "budget" /\ new.vps = v /\ new.counted = 0
      BY <1>0, <2>1, CheckedFacts
    <3> HIDE DEF new
    <3> QED
      BY <2>3, <2>6, <3>1 DEF new
  <2> QED
    BY <2>2, <2>4, <2>5, <2>6
<1>2. ASSUME NEW c \in Conns, CheckBudget(c) PROVE Types'
  <2>1. /\ UNCHANGED <<month, vps, gone, period, budget, mon, traffic, faults>>
        /\ \/ conn' = [conn EXCEPT ![c] = NoConn]
           \/ conn' = [conn EXCEPT ![c] = Opened(TRUE, conn[c].vps)]
    BY <1>2 DEF CheckBudget, Open, Opened
  <2>2. conn[c].vps \in Vpses
    BY <1>2 DEF CheckBudget, Shape
  <2>3. /\ Opened(TRUE, conn[c].vps) \in ConnRecords /\ Opened(TRUE, conn[c].vps).pc = "open"
        /\ Opened(TRUE, conn[c].vps).vps = conn[c].vps
    BY <2>2, OpenedFacts
  <2>4. NoConn \in ConnRecords /\ NoConn.pc = "idle"
    BY NoConnFacts
  <2> QED
    BY <1>a, <2>1, <2>2, <2>3, <2>4 DEF TypeOK
<1>3. ASSUME NEW c \in Conns, NEW v \in Vpses, GatewayRequest(c, v) PROVE Types'
  <2>1. /\ UNCHANGED <<month, vps, gone, period, budget, mon, traffic, faults>>
        /\ conn' = [conn EXCEPT ![c] = Opened(FALSE, v)]
    BY <1>3 DEF GatewayRequest, Open, Opened
  <2>2. /\ Opened(FALSE, v) \in ConnRecords /\ Opened(FALSE, v).pc = "open"
        /\ Opened(FALSE, v).vps = v
    BY OpenedFacts
  <2> QED
    BY <1>a, <2>1, <2>2 DEF TypeOK
<1>4. ASSUME NEW c \in Conns, Carry(c) PROVE Types'
  <2> DEFINE new == [conn[c] EXCEPT !.counted = @ + 1]
  <2>1. conn[c] \in ConnRecords /\ conn[c].pc = "open" /\ conn[c].vps \in Vpses
    BY <1>0, <1>4 DEF Carry, Shape
  <2>2. new \in ConnRecords /\ new.pc = "open" /\ new.vps \in Vpses
    BY <2>1 DEF ConnRecords
  <2>3. conn' = [conn EXCEPT ![c] = new] /\ UNCHANGED <<month, vps, gone, period, budget, mon, late, faults>>
    BY <1>4 DEF Carry
  <2>4. carried' \in [Vpses -> Nat]
    BY <1>4, <2>1 DEF Carry, TypeOK
  <2> HIDE DEF new
  <2> QED
    BY <1>a, <2>2, <2>3, <2>4 DEF TypeOK
<1>5. ASSUME NEW c \in Conns, Flush(c) PROVE Types'
  <2>1. conn[c].vps \in Vpses /\ conn[c].counted \in Nat
    BY <1>0, <1>5 DEF Flush, Shape, ConnRecords
  <2>2. period' \in [Vpses -> [Months -> Nat]]
    BY <1>0, <1>5, <2>1 DEF Flush, TypeOK
  <2> QED
    BY <1>5, <1>a, <2>2, NoConnFacts DEF Flush, TypeOK
<1>6. ASSUME NEW c \in Conns, Lose(c) PROVE Types'
  <2>1. faults' \in 0..MaxFaults
    BY <1>0, <1>6 DEF Lose, Fault
  <2> QED
    BY <1>6, <1>a, <2>1, NoConnFacts DEF Lose, TypeOK
<1>7. CASE Crash
  <2>1. faults' \in 0..MaxFaults /\ conn' \in [Conns -> ConnRecords] /\ mon' \in RoundRecords
    BY <1>0, <1>7, NoConnFacts, RoundFacts DEF Crash, Fault
  <2>2. /\ \A c \in Conns : conn'[c] = NoConn
        /\ mon'.pc = "idle"
    BY <1>7, RoundFacts DEF Crash
  <2>3. TypeOK'
    BY <1>7, <2>1 DEF Crash, TypeOK, ConnRecords, RoundRecords
  <2> QED
    BY <2>2, <2>3, NoConnFacts DEF Shape
<1>8. CASE MonitorTick
  <2> DEFINE rows == {v \in Hetzner : vps[v] = "running"}
             users == {Owner[v] : v \in rows}
  <2>1. rows \in SUBSET Hetzner /\ users \in SUBSET Users
    BY MeteringConstantsOK
  <2>2. mon' = [NoRound EXCEPT !.pc = "usage", !.rows = rows, !.users = users]
    BY <1>8 DEF MonitorTick
  <2> HIDE DEF rows, users
  <2>3. mon' \in RoundRecords /\ mon'.pc = "usage"
    BY <1>0, <2>1, <2>2 DEF NoRound, RoundRecords
  <2> QED
    BY <1>8, <1>b, <2>3 DEF MonitorTick, TypeOK
<1>9. ASSUME NEW u \in Users, LoadUsage(u) PROVE Types'
  <2>1. OverageCost(Aggregate(u)) \in Nat
    BY AggregateNat
  <2>2. CASE NextUser(u)
    BY <1>9, <1>b, <2>2, RoundFacts DEF LoadUsage, TypeOK
  <2>3. CASE mon' = [mon EXCEPT !.pc = "budget", !.user = u,
                                !.cost = OverageCost(Aggregate(u)), !.asOf = month]
    <3>1. mon' \in RoundRecords /\ mon'.user = u
      BY <1>0, <2>1, <2>3 DEF RoundRecords
    <3> QED
      BY <1>9, <1>b, <3>1 DEF LoadUsage, TypeOK
  <2> QED
    BY <1>9, <2>2, <2>3 DEF LoadUsage
<1>10. CASE LoadBudget
  <2>1. mon.user \in Users
    BY <1>10 DEF LoadBudget, Shape
  <2>2. CASE NextUser(mon.user)
    BY <1>10, <1>b, <2>2, RoundFacts DEF LoadBudget, TypeOK
  <2>3. CASE mon' = [mon EXCEPT !.pc = "stop", !.cost = 0, !.asOf = 0]
    <3>1. mon' \in RoundRecords /\ mon'.user \in Users
      BY <1>0, <2>1, <2>3 DEF RoundRecords
    <3> QED
      BY <1>10, <1>b, <3>1 DEF LoadBudget, TypeOK
  <2> QED
    BY <1>10, <2>2, <2>3 DEF LoadBudget
<1>11. CASE StopNext
  <2>1. mon.user \in Users
    BY <1>11 DEF StopNext, Shape
  <2>2. CASE NextUser(mon.user) /\ UNCHANGED vps
    BY <1>11, <1>b, <2>2, RoundFacts DEF StopNext, TypeOK
  <2>3. ASSUME NEW v \in mon.rows, vps' = (IF v \in gone THEN vps ELSE [vps EXCEPT ![v] = "stopped"]),
               mon' = [mon EXCEPT !.rows = @ \ {v}]
        PROVE  Types'
    <3>1. mon' \in RoundRecords /\ mon'.user \in Users
      BY <1>0, <2>1, <2>3 DEF RoundRecords
    <3>2. vps' \in [Vpses -> {"running", "stopped", "destroyed"}]
      BY <2>3 DEF TypeOK
    <3> QED
      BY <1>11, <1>b, <3>1, <3>2 DEF StopNext, TypeOK
  <2> QED
    BY <1>11, <2>2, <2>3 DEF StopNext
<1>12. CASE MonitorError
  <2>1. faults' \in 0..MaxFaults /\ UNCHANGED <<month, vps, gone, period, budget, conn, traffic>>
    BY <1>0, <1>12 DEF MonitorError, Fault
  <2>2. ASSUME NEW u, NextUser(u) PROVE Types'
    BY <1>b, <2>1, <2>2, RoundFacts DEF TypeOK
  <2>3. ASSUME mon.pc = "stop", NEW v \in mon.rows, mon' = [mon EXCEPT !.rows = @ \ {v}]
        PROVE  Types'
    <3>1. mon' \in RoundRecords /\ mon'.user \in Users
      BY <1>0, <2>3 DEF RoundRecords, Shape
    <3> QED
      BY <1>b, <2>1, <3>1 DEF TypeOK
  <2> QED
    BY <1>12, <2>2, <2>3 DEF MonitorError
<1>13. CASE MonthEnds
  BY <1>0, <1>13, MeteringConstantsOK DEF MonthEnds, TypeOK, Shape, Months
<1>14. ASSUME NEW u \in Users, NEW cents \in Budgets, SetBudget(u, cents) PROVE Types'
  BY <1>0, <1>14, MeteringConstantsOK DEF SetBudget, TypeOK, Shape
<1>15. ASSUME NEW v \in Handled, VpsEvent(v) PROVE Types'
  BY <1>15, MeteringConstantsOK DEF VpsEvent, TypeOK, Shape
<1>16. CASE UNCHANGED vars
  BY <1>16 DEF vars, TypeOK, Shape
<1>17. ASSUME NEW c \in Conns, LoadCount(c) PROVE Types'
  <2> DEFINE new == [conn[c] EXCEPT !.pc = "flush", !.gated = FALSE]
  <2>1. conn[c] \in ConnRecords /\ conn[c].vps \in Vpses
    BY <1>0, <1>17 DEF LoadCount, Shape
  <2>2. new \in ConnRecords /\ new.pc = "flush" /\ new.vps \in Vpses
    BY <2>1 DEF ConnRecords
  <2>3. conn' = [conn EXCEPT ![c] = new]
    BY <1>0, <1>17 DEF LoadCount, ConnRecords
  <2>4. UNCHANGED <<month, vps, gone, period, budget, mon, traffic, faults>>
    BY <1>17 DEF LoadCount
  <2> HIDE DEF new
  <2> QED
    BY <1>a, <2>2, <2>3, <2>4 DEF TypeOK
<1>18. ASSUME NEW c \in Conns, CarryLate(c) PROVE Types'
  <2>1. conn[c].vps \in Vpses
    BY <1>18 DEF CarryLate, Shape
  <2>2. carried' \in [Vpses -> Nat] /\ late' \in [Vpses -> Nat]
    BY <1>18, <2>1 DEF CarryLate, TypeOK
  <2> QED
    BY <1>18, <2>2 DEF CarryLate, TypeOK, Shape
<1> QED
  BY <1>1, <1>2, <1>3, <1>4, <1>5, <1>6, <1>7, <1>8, <1>9, <1>10, <1>11, <1>12, <1>13, <1>14,
     <1>15, <1>16, <1>17, <1>18 DEF Next, MonitorStep

\* Every VPS has one of three states, and tables, sessions and the monitor's round keep
\* their types, whatever the proxies, the monitor and the handlers do to them.
THEOREM MeteringTypeCorrect == Spec => []TypeOK
<1>1. Types => TypeOK
  BY DEF Types
<1> QED
  BY <1>1, InitTypes, StepTypes, PTL DEF Spec

\* So they hold throughout.
LEMMA SpecTypes == Spec => []Types
  BY InitTypes, StepTypes, PTL DEF Spec

-----------------------------------------------------------------------------
(* Bytes *)

\* What the sessions k have in hand for a VPS, what all but one have, and what
\* one has.
Hand(k, v) == Sum([c \in Conns |-> k[c].counted], {c \in Conns : k[c].vps = v})

Rest(k, c, v) == Sum([d \in Conns |-> k[d].counted], {d \in Conns \ {c} : k[d].vps = v})

Mine(r, v) == IF r.vps = v THEN r.counted ELSE 0

\* What is in hand for a VPS is a number of bytes.
LEMMA HandNat ==
  ASSUME NEW k \in [Conns -> ConnRecords], NEW v
  PROVE  Hand(k, v) \in Nat
<1> DEFINE f == [c \in Conns |-> k[c].counted]
           S == {c \in Conns : k[c].vps = v}
<1>1. IsFiniteSet(S) /\ \A c \in S : f[c] \in Nat
  BY FinitelyMany, FS_Subset DEF ConnRecords
<1> HIDE DEF f, S
<1>2. Sum(f, S) \in Nat
  BY <1>1, SumNat
<1> QED
  BY <1>2 DEF Hand, f, S

\* One session of k against all of them.
LEMMA HandSplits ==
  ASSUME NEW k \in [Conns -> ConnRecords], NEW c \in Conns, NEW v
  PROVE  Hand(k, v) = Mine(k[c], v) + Rest(k, c, v) /\ Rest(k, c, v) \in Nat /\ Mine(k[c], v) \in Nat
<1> DEFINE f == [d \in Conns |-> k[d].counted]
           S == {d \in Conns : k[d].vps = v}
           R == {d \in Conns \ {c} : k[d].vps = v}
<1>1. IsFiniteSet(S) /\ IsFiniteSet(R) /\ \A d \in Conns : f[d] \in Nat
  BY FinitelyMany, FS_Subset DEF ConnRecords
<1>2. f[c] = k[c].counted /\ S \subseteq Conns /\ R \subseteq Conns
  OBVIOUS
<1>3. k[c].vps = v => c \in S /\ S \ {c} = R
  OBVIOUS
<1>4. k[c].vps # v => S = R
  OBVIOUS
<1>5. Hand(k, v) = Sum(f, S)
  BY DEF Hand
<1> HIDE DEF f, S, R
<1>6. Sum(f, R) \in Nat
  BY <1>1, <1>2, SumNat
<1>7. Hand(k, v) = Mine(k[c], v) + Sum(f, R) /\ Mine(k[c], v) \in Nat
  <2>1. CASE k[c].vps = v
    <3>1. Sum(f, S) = f[c] + Sum(f, S \ {c})
      BY <1>1, <1>2, <1>3, <2>1, SumRemove
    <3>2. Mine(k[c], v) = f[c] /\ f[c] \in Nat
      BY <1>1, <1>2, <2>1 DEF Mine
    <3> QED
      BY <1>3, <1>5, <2>1, <3>1, <3>2
  <2>2. CASE k[c].vps # v
    <3>1. Sum(f, S) = Sum(f, R)
      BY <1>4, <2>2
    <3>2. Mine(k[c], v) = 0
      BY <2>2 DEF Mine
    <3> QED
      BY <1>5, <1>6, <3>1, <3>2
  <2> QED
    BY <2>1, <2>2
<1> QED
  BY <1>6, <1>7 DEF f, R, Rest

\* A step of one session changes the sum by what the session changes.
LEMMA HandMoves ==
  ASSUME NEW k \in [Conns -> ConnRecords], NEW n \in [Conns -> ConnRecords],
         NEW c \in Conns, \A d \in Conns \ {c} : n[d] = k[d], NEW v
  PROVE  Hand(n, v) + Mine(k[c], v) = Hand(k, v) + Mine(n[c], v)
<1>1. Rest(n, c, v) = Rest(k, c, v)
  <2> DEFINE f == [d \in Conns |-> k[d].counted]
             g == [d \in Conns |-> n[d].counted]
             R == {d \in Conns \ {c} : k[d].vps = v}
  <2>1. {d \in Conns \ {c} : n[d].vps = v} = R
    OBVIOUS
  <2>2. IsFiniteSet(R) /\ \A d \in R : f[d] \in Nat /\ g[d] = f[d]
    BY FinitelyMany, FS_Subset DEF ConnRecords
  <2>3. Rest(k, c, v) = Sum(f, R) /\ Rest(n, c, v) = Sum(g, R)
    BY <2>1 DEF Rest
  <2> HIDE DEF f, g, R
  <2>4. Sum(g, R) = Sum(f, R)
    BY <2>2, SumSame
  <2> QED
    BY <2>3, <2>4
<1>2. Hand(n, v) = Mine(n[c], v) + Rest(n, c, v) /\ Mine(n[c], v) \in Nat
  BY HandSplits
<1>3. Hand(k, v) = Mine(k[c], v) + Rest(k, c, v) /\ Rest(k, c, v) \in Nat /\ Mine(k[c], v) \in Nat
  BY HandSplits
<1> QED
  BY <1>1, <1>2, <1>3

\* What is booked for a VPS grows by what a step adds to one month.
LEMMA BookedMoves ==
  ASSUME NEW p \in [Vpses -> [Months -> Nat]], NEW v \in Vpses, NEW m \in Months,
         NEW q \in [Vpses -> [Months -> Nat]],
         \A n \in Months \ {m} : q[v][n] = p[v][n]
  PROVE  /\ Sum(q[v], Months) + p[v][m] = Sum(p[v], Months) + q[v][m]
         /\ Sum(p[v], Months) \in Nat
<1>1. IsFiniteSet(Months)
  BY MeteringConstantsOK, FS_Interval DEF Months
<1>2. \A n \in Months : p[v][n] \in Nat /\ q[v][n] \in Nat
  OBVIOUS
<1> DEFINE f == p[v]
           g == q[v]
<1> HIDE DEF f, g
<1>3. /\ \A n \in Months : f[n] \in Nat /\ g[n] \in Nat
      /\ \A n \in Months \ {m} : g[n] = f[n]
  BY <1>2 DEF f, g
<1>4. Sum(g, Months) + f[m] = Sum(f, Months) + g[m]
  BY <1>1, <1>3, SumChange
<1>5. Sum(f, Months) \in Nat
  BY <1>1, <1>3, SumNat
<1> QED
  BY <1>4, <1>5 DEF f, g

\* Nothing was carried yet.
LEMMA InitCharges == Init => BytesChargedOnce
<1> SUFFICES ASSUME Init, NEW v \in Vpses PROVE Booked(v) + InHand(v) + late[v] = carried[v]
  BY DEF BytesChargedOnce, Init
<1>1. carried[v] = 0 /\ late[v] = 0
  BY DEF Init
<1>2. InHand(v) = 0
  <2>1. {c \in Conns : conn[c].vps = v} = {}
    BY MeteringConstantsOK, NoConnFacts DEF Init
  <2> QED
    BY <2>1, SumEmpty DEF InHand
<1>3. Booked(v) = 0
  <2>1. \A m \in Months : period[v][m] = 0
    BY DEF Init
  <2>2. Tokens(period[v], Months) = {}
    BY <2>1 DEF Tokens
  <2>3. IsFiniteSet(Months)
    BY MeteringConstantsOK, FS_Interval DEF Months
  <2> QED
    BY <2>1, <2>2, <2>3, SumIsTokens, FS_EmptySet DEF Booked
<1> QED
  BY <1>1, <1>2, <1>3

\* Every step books, carries or loses bytes for one VPS, and leaves the other VPSes' alone.
LEMMA StepCharges ==
  ASSUME Types, Types', BytesChargedOnce, [Next]_vars
  PROVE  BytesChargedOnce'
<1> DEFINE Keeps(v) == /\ Booked(v)' + InHand(v)' + late'[v] <= carried'[v]
                       /\ faults' = 0 => Booked(v)' + InHand(v)' + late'[v] = carried'[v]
<1> SUFFICES ASSUME NEW v \in Vpses PROVE Keeps(v)
  BY DEF BytesChargedOnce
<1>0. /\ conn \in [Conns -> ConnRecords] /\ conn' \in [Conns -> ConnRecords]
      /\ period \in [Vpses -> [Months -> Nat]] /\ period' \in [Vpses -> [Months -> Nat]]
      /\ month \in Months /\ carried \in [Vpses -> Nat] /\ late \in [Vpses -> Nat]
      /\ faults \in Nat
  BY MeteringConstantsOK DEF Types, TypeOK, ConnRecords
<1>1. /\ Booked(v) = Sum(period[v], Months) /\ Booked(v)' = Sum(period'[v], Months)
      /\ InHand(v) = Hand(conn, v) /\ InHand(v)' = Hand(conn', v)
  BY DEF Booked, InHand, Hand
<1>2. /\ Booked(v) \in Nat /\ InHand(v) \in Nat /\ InHand(v)' \in Nat
      /\ carried[v] \in Nat /\ late[v] \in Nat
  BY <1>0, <1>1, HandNat, BookedMoves
<1>3. /\ Booked(v) + InHand(v) + late[v] <= carried[v]
      /\ faults = 0 => Booked(v) + InHand(v) + late[v] = carried[v]
  BY DEF BytesChargedOnce
\* A session that was idle, or asking, has nothing in hand; one that is opened begins with nothing.
<1>a. ASSUME NEW c \in Conns, \A d \in Conns \ {c} : conn'[d] = conn[d]
      PROVE  /\ InHand(v)' + Mine(conn[c], v) = InHand(v) + Mine(conn'[c], v)
             /\ Mine(conn[c], v) \in Nat /\ Mine(conn'[c], v) \in Nat
  <2>1. Hand(conn', v) + Mine(conn[c], v) = Hand(conn, v) + Mine(conn'[c], v)
    BY ZenonT(60), <1>0, <1>a, HandMoves
  <2>2. Mine(conn[c], v) \in Nat /\ Mine(conn'[c], v) \in Nat
    BY <1>0, HandSplits
  <2> QED
    BY <1>1, <2>1, <2>2
<1>b. ASSUME NEW c \in Conns, \A d \in Conns \ {c} : conn'[d] = conn[d],
             conn[c].pc \in {"idle", "budget"}, conn'[c].counted = 0,
             UNCHANGED <<period, traffic, faults>>
      PROVE  Keeps(v)
  <2>1. conn[c].counted = 0
    BY <1>0, <1>b, NoConnFacts DEF Types, Shape, ConnRecords
  <2>2. Mine(conn[c], v) = 0 /\ Mine(conn'[c], v) = 0
    BY <1>b, <2>1 DEF Mine
  <2>3. InHand(v)' = InHand(v) /\ Booked(v)' = Booked(v)
    BY <1>1, <1>2, <1>a, <1>b, <2>2
  <2> QED
    BY <1>3, <1>b, <2>3
<1>c. ASSUME UNCHANGED <<period, conn, traffic>>, faults' = faults \/ faults' # 0 PROVE Keeps(v)
  <2>1. InHand(v)' = InHand(v) /\ Booked(v)' = Booked(v)
    BY <1>1, <1>c
  <2> QED
    BY <1>3, <1>c, <2>1
<1>4. ASSUME NEW c \in Conns, CheckBudget(c) PROVE Keeps(v)
  <2>1. /\ \A d \in Conns \ {c} : conn'[d] = conn[d]
        /\ conn'[c] = NoConn \/ conn'[c] = Opened(TRUE, conn[c].vps)
    BY <1>0, <1>4 DEF CheckBudget, Open, Opened
  <2>2. conn[c].vps \in Vpses
    BY <1>4 DEF CheckBudget, Types, Shape
  <2>3. conn'[c].counted = 0
    BY <2>1, <2>2, NoConnFacts, OpenedFacts
  <2> QED
    BY <1>4, <1>b, <2>1, <2>3 DEF CheckBudget
<1>5. ASSUME NEW c \in Conns, Carry(c) PROVE Keeps(v)
  <2>1. /\ \A d \in Conns \ {c} : conn'[d] = conn[d]
        /\ conn'[c].vps = conn[c].vps /\ conn'[c].counted = conn[c].counted + 1
        /\ conn[c].counted \in Nat /\ conn[c].vps \in Vpses
        /\ UNCHANGED <<period, late, faults>>
    BY <1>0, <1>5 DEF Carry, Types, Shape, ConnRecords
  <2>2. Booked(v)' = Booked(v)
    BY <1>1, <2>1
  <2>3. CASE conn[c].vps = v
    <3>1. Mine(conn[c], v) = conn[c].counted /\ Mine(conn'[c], v) = conn[c].counted + 1
      BY <2>1, <2>3 DEF Mine
    <3>2. InHand(v)' = InHand(v) + 1
      BY <1>2, <1>a, <2>1, <3>1
    <3>3. carried'[v] = carried[v] + 1
      BY <1>0, <1>5, <2>3 DEF Carry
    <3> QED
      BY <1>2, <1>3, <2>1, <2>2, <3>2, <3>3
  <2>4. CASE conn[c].vps # v
    <3>1. Mine(conn[c], v) = 0 /\ Mine(conn'[c], v) = 0
      BY <2>1, <2>4 DEF Mine
    <3>2. InHand(v)' = InHand(v)
      BY <1>2, <1>a, <2>1, <3>1
    <3>3. carried'[v] = carried[v]
      BY <1>0, <1>5, <2>4 DEF Carry
    <3> QED
      BY <1>2, <1>3, <2>1, <2>2, <3>2, <3>3
  <2> QED
    BY <2>3, <2>4
<1>6. ASSUME NEW c \in Conns, Flush(c) PROVE Keeps(v)
  <2>1. /\ \A d \in Conns \ {c} : conn'[d] = conn[d]
        /\ conn'[c].counted = 0
        /\ conn[c].counted \in Nat /\ conn[c].vps \in Vpses
        /\ UNCHANGED <<traffic, faults>>
    BY <1>0, <1>6, NoConnFacts DEF Flush, Types, Shape, ConnRecords
  <2>2. Mine(conn'[c], v) = 0
    BY <2>1 DEF Mine
  <2>3. InHand(v)' + Mine(conn[c], v) = InHand(v)
    BY <1>2, <1>a, <2>1, <2>2
  <2>4. CASE conn[c].vps = v
    <3>1. /\ \A n \in Months \ {month} : period'[v][n] = period[v][n]
          /\ period'[v][month] = period[v][month] + conn[c].counted
      BY <1>0, <1>6, <2>4 DEF Flush
    <3>2. Booked(v)' + period[v][month] = Booked(v) + period'[v][month]
      <4>1. Sum(period'[v], Months) + period[v][month] = Sum(period[v], Months) + period'[v][month]
        BY <1>0, <3>1, BookedMoves
      <4> QED
        BY <1>1, <4>1
    <3>3. period[v][month] \in Nat /\ period'[v][month] \in Nat /\ Booked(v)' \in Nat
      BY <1>0, <1>1, BookedMoves
    <3>4. Booked(v)' = Booked(v) + conn[c].counted
      BY <1>2, <2>1, <3>1, <3>2, <3>3
    <3>5. InHand(v)' + conn[c].counted = InHand(v)
      BY <2>3, <2>4 DEF Mine
    <3> QED
      BY <1>2, <1>3, <2>1, <3>4, <3>5
  <2>5. CASE conn[c].vps # v
    <3>1. period'[v] = period[v]
      BY <1>0, <1>6, <2>5 DEF Flush
    <3>2. Booked(v)' = Booked(v)
      BY <1>1, <3>1
    <3>3. InHand(v)' = InHand(v)
      BY <1>2, <2>3, <2>5 DEF Mine
    <3> QED
      BY <1>3, <2>1, <3>2, <3>3
  <2> QED
    BY <2>4, <2>5
<1>7. ASSUME NEW c \in Conns, Lose(c) PROVE Keeps(v)
  <2>1. /\ \A d \in Conns \ {c} : conn'[d] = conn[d]
        /\ conn'[c].counted = 0
        /\ faults' # 0 /\ UNCHANGED <<period, traffic>>
    BY <1>0, <1>7, NoConnFacts DEF Lose, Fault
  <2>2. Mine(conn'[c], v) = 0
    BY <2>1 DEF Mine
  <2>3. InHand(v)' <= InHand(v) /\ Booked(v)' = Booked(v)
    BY <1>1, <1>2, <1>a, <2>1, <2>2
  <2> QED
    BY <1>2, <1>3, <2>1, <2>3
<1>8. ASSUME NEW c \in Conns, NEW w \in Vpses, ProxyRequest(c, w) PROVE Keeps(v)
  <2>1. \A d \in Conns \ {c} : conn'[d] = conn[d]
    BY <1>0, <1>8 DEF ProxyRequest, Open
  <2>2. conn'[c].counted = 0
    BY ZenonT(60), <1>0, <1>8 DEF ProxyRequest, Open, NoConn
  <2> QED
    BY <1>8, <1>b, <2>1, <2>2 DEF ProxyRequest
<1>9. ASSUME NEW c \in Conns, NEW w \in Vpses, GatewayRequest(c, w) PROVE Keeps(v)
  <2>1. (\A d \in Conns \ {c} : conn'[d] = conn[d]) /\ conn'[c].counted = 0
    BY <1>0, <1>9 DEF GatewayRequest, Open, NoConn
  <2> QED
    BY <1>9, <1>b, <2>1 DEF GatewayRequest
<1>10. CASE Crash
  <2>1. {c \in Conns : conn'[c].vps = v} = {}
    BY <1>10, MeteringConstantsOK, NoConnFacts DEF Crash
  <2>2. InHand(v)' = 0
    BY <1>1, <2>1, SumEmpty DEF Hand
  <2>3. Booked(v)' = Booked(v) /\ UNCHANGED traffic /\ faults' # 0
    BY <1>0, <1>1, <1>10 DEF Crash, Fault
  <2> QED
    BY <1>2, <1>3, <2>2, <2>3
<1>11. CASE MonitorTick \/ MonitorStep
  BY <1>11, <1>c DEF MonitorTick, MonitorStep, LoadBudget, StopNext, LoadUsage
<1>12. CASE MonitorError
  BY <1>0, <1>12, <1>c DEF MonitorError, Fault
<1>13. CASE MonthEnds \/ \E u \in Users, cents \in Budgets : SetBudget(u, cents)
  BY <1>13, <1>c DEF MonthEnds, SetBudget
<1>14. CASE \E w \in Handled : VpsEvent(w)
  BY <1>14, <1>c DEF VpsEvent
<1>15. CASE UNCHANGED vars
  BY <1>15, <1>c DEF vars
\* Reading the counter leaves it in hand; a byte carried afterwards is late.
<1>16. ASSUME NEW c \in Conns, LoadCount(c) PROVE Keeps(v)
  <2>1. /\ \A d \in Conns \ {c} : conn'[d] = conn[d]
        /\ conn'[c].vps = conn[c].vps /\ conn'[c].counted = conn[c].counted
        /\ UNCHANGED <<period, traffic, faults>>
    BY <1>0, <1>16 DEF LoadCount, ConnRecords
  <2>2. Mine(conn'[c], v) = Mine(conn[c], v)
    BY <2>1 DEF Mine
  <2>3. InHand(v)' = InHand(v) /\ Booked(v)' = Booked(v)
    BY <1>1, <1>2, <1>a, <2>1, <2>2
  <2> QED
    BY <1>3, <2>1, <2>3
<1>17. ASSUME NEW c \in Conns, CarryLate(c) PROVE Keeps(v)
  <2>1. InHand(v)' = InHand(v) /\ Booked(v)' = Booked(v) /\ faults' = faults
    BY <1>1, <1>17 DEF CarryLate
  <2>2. \/ carried'[v] = carried[v] + 1 /\ late'[v] = late[v] + 1
        \/ carried'[v] = carried[v] /\ late'[v] = late[v]
    BY <1>0, <1>17 DEF CarryLate
  <2> QED
    BY <1>2, <1>3, <2>1, <2>2
<1> HIDE DEF Keeps
<1> QED
  BY <1>4, <1>5, <1>6, <1>7, <1>8, <1>9, <1>10, <1>11, <1>12, <1>13, <1>14, <1>15,
     <1>16, <1>17 DEF Next

\* No byte is charged twice, whatever overlaps; the bytes that are not charged are those
\* carried after their session's counter was read and those that a fault lost.
THEOREM BytesChargedOnceHolds == Spec => []BytesChargedOnce
<1>1. Types /\ BytesChargedOnce /\ [Next]_vars => Types' /\ BytesChargedOnce'
  BY StepTypes, StepCharges
<1> QED
  BY <1>1, InitTypes, InitCharges, PTL DEF Spec

-----------------------------------------------------------------------------
(* Usage and cost from one step to the next *)

\* What S used in month m by the table p.
Use(p, m, S) == Sum([v \in S |-> p[v][m]], S)

\* Usage that only grew, of VPSes that only became more, did not shrink.
LEMMA UseMonotone ==
  ASSUME NEW p \in [Vpses -> [Months -> Nat]], NEW q \in [Vpses -> [Months -> Nat]],
         NEW m \in Months, NEW S \in SUBSET Vpses, NEW T \in SUBSET Vpses, S \subseteq T,
         \A v \in S : p[v][m] <= q[v][m]
  PROVE  /\ Use(p, m, S) \in Nat /\ Use(q, m, T) \in Nat
         /\ Use(p, m, S) <= Use(q, m, T)
<1> DEFINE f == [v \in S |-> p[v][m]]
           g == [v \in T |-> q[v][m]]
<1>1. /\ IsFiniteSet(S) /\ IsFiniteSet(T)
      /\ \A v \in S : f[v] \in Nat /\ f[v] <= g[v]
      /\ \A v \in T : g[v] \in Nat
  BY FinitelyMany, FS_Subset
<1>2. Use(p, m, S) = Sum(f, S) /\ Use(q, m, T) = Sum(g, T)
  BY DEF Use
<1> HIDE DEF f, g
<1>3. Sum(f, S) <= Sum(g, T) /\ Sum(f, S) \in Nat /\ Sum(g, T) \in Nat
  BY <1>1, SumMonotone, SumNat
<1> QED
  BY <1>2, <1>3

\* A period that was written once only grows: nothing is taken off a bill.
LEMMA PeriodGrows ==
  ASSUME Types, [Next]_vars
  PROVE  \A v \in Vpses, m \in Months : period[v][m] <= period'[v][m]
<1>1. period \in [Vpses -> [Months -> Nat]]
  BY DEF Types, TypeOK
<1>2. CASE UNCHANGED period
  BY <1>1, <1>2
<1>3. ASSUME NEW c \in Conns, Flush(c)
      PROVE  \A v \in Vpses, m \in Months : period[v][m] <= period'[v][m]
  <2>1. conn[c].counted \in Nat
    BY DEF Types, TypeOK
  <2> QED
    BY <1>1, <1>3, <2>1 DEF Flush
<1>4. UNCHANGED period \/ \E c \in Conns : Flush(c)
  BY DEF Next, vars, CheckBudget, Carry, LoadCount, CarryLate, Lose, ProxyRequest, GatewayRequest, MonitorTick,
         MonitorStep, LoadBudget, StopNext, LoadUsage, MonitorError, MonthEnds, Crash, SetBudget,
         VpsEvent
<1> QED
  BY <1>2, <1>3, <1>4

\* What a session can become: the step that asks, one of those that open or end it, or a
\* fault.
LEMMA WhoMovesConn ==
  ASSUME Types, [Next]_vars, NEW c \in Conns, conn'[c] # conn[c]
  PROVE  /\ (month' = month /\ UNCHANGED <<budget, vps, mon>>) \/ faults' # faults
         /\ \/ \E v \in Vpses : ProxyRequest(c, v) \/ GatewayRequest(c, v)
            \/ CheckBudget(c) \/ Carry(c) \/ LoadCount(c) \/ Flush(c)
            \/ conn'[c] = NoConn /\ faults' # faults
<1>0. conn \in [Conns -> ConnRecords] /\ faults \in Nat
  BY MeteringConstantsOK DEF Types, TypeOK, ConnRecords
<1>1. ASSUME NEW d \in Conns, CheckBudget(d) \/ Carry(d) \/ LoadCount(d) \/ Flush(d) \/ Lose(d)
      PROVE  /\ d = c
             /\ month' = month /\ UNCHANGED <<budget, vps, mon>>
             /\ Lose(d) => conn'[c] = NoConn /\ faults' # faults
  BY <1>0, <1>1 DEF CheckBudget, Open, Carry, LoadCount, Flush, Lose, Fault
<1>2. ASSUME NEW d \in Conns, NEW v \in Vpses, ProxyRequest(d, v) \/ GatewayRequest(d, v)
      PROVE  d = c /\ month' = month /\ UNCHANGED <<budget, vps, mon>>
  BY <1>0, <1>2 DEF ProxyRequest, GatewayRequest, Open
<1>3. CASE Crash
  BY <1>0, <1>3 DEF Crash, Fault
<1>4. CASE UNCHANGED conn
  BY <1>4
<1> QED
  BY <1>1, <1>2, <1>3, <1>4
     DEF Next, vars, CarryLate, MonitorTick, MonitorStep, LoadBudget, StopNext, LoadUsage,
         MonitorError, MonthEnds, SetBudget, VpsEvent

\* The calendar turns alone, and forward.
LEMMA WhoMovesMonth ==
  ASSUME [Next]_vars
  PROVE  month' = month \/ (month' = month + 1 /\ UNCHANGED <<vps, period, budget, conn, mon>>)
  BY DEF Next, vars, CheckBudget, Open, Carry, LoadCount, CarryLate, Flush, Lose, ProxyRequest, GatewayRequest,
         MonitorTick, MonitorStep, LoadBudget, StopNext, LoadUsage, MonitorError, MonthEnds,
         Crash, SetBudget, VpsEvent

\* A round comes to have a usage in hand only by reading it, and decides to stop a user
\* only by comparing it with the budget.
LEMMA WhoMovesRound ==
  ASSUME Types, [Next]_vars, mon' # mon
  PROVE  /\ mon'.pc = "budget" => \E u \in Users : LoadUsage(u)
         /\ mon.pc = "budget" /\ mon'.pc = "stop" => LoadBudget
<1>1. NoRound.pc = "idle" /\ \A u : NextUser(u) => mon'.pc \notin {"budget", "stop"}
  BY RoundFacts
<1>2. mon \in RoundRecords
  BY DEF Types, TypeOK, RoundRecords
<1>3. CASE MonitorTick
  BY <1>3 DEF MonitorTick, NoRound
<1>4. ASSUME NEW u \in Users, LoadUsage(u) PROVE mon.pc = "usage"
  BY <1>4 DEF LoadUsage
<1>5. CASE LoadBudget
  BY <1>1, <1>2, <1>5 DEF LoadBudget, RoundRecords
<1>6. CASE StopNext
  <2>1. mon'.pc # "budget" /\ mon.pc # "budget"
    BY <1>1, <1>2, <1>6 DEF StopNext, RoundRecords
  <2> QED
    BY <2>1
<1>7. CASE MonitorError
  <2>1. CASE mon'.pc \notin {"budget", "stop"}
    BY <2>1
  <2>2. CASE mon.pc = "stop" /\ \E v \in mon.rows : mon' = [mon EXCEPT !.rows = @ \ {v}]
    BY <1>2, <2>2 DEF RoundRecords
  <2> QED
    BY <1>1, <1>7, <2>1, <2>2 DEF MonitorError
<1>8. CASE Crash
  BY <1>1, <1>8 DEF Crash
<1> QED
  BY <1>3, <1>4, <1>5, <1>6, <1>7, <1>8
     DEF Next, vars, CheckBudget, Open, Carry, LoadCount, CarryLate, Flush, Lose, ProxyRequest,
         GatewayRequest, MonitorStep, MonthEnds, SetBudget, VpsEvent

-----------------------------------------------------------------------------
(* Decisions *)

\* The usage that was read, if it is this month's, is at most what there is by now.
BackedBy(p, m, cost, asOf, u) ==
  /\ asOf <= m
  /\ asOf = m => cost <= OverageCost(Use(p, m, VpsesOf(u)))

\* What the checks and the monitor have in hand between their two reads.
Evidence ==
  /\ \A c \in Conns :
       conn[c].pc = "budget" =>
         BackedBy(period, month, conn[c].cost, conn[c].asOf, Owner[conn[c].vps])
  /\ mon.pc = "budget" => BackedBy(period, month, mon.cost, mon.asOf, mon.user)

\* A cost that usage backed once is backed as long as the month lasts.
LEMMA StaysBacked ==
  ASSUME Types, Types', [Next]_vars, NEW cost \in Nat, NEW asOf \in Nat, NEW u,
         BackedBy(period, month, cost, asOf, u)
  PROVE  BackedBy(period', month', cost, asOf, u)
<1>1. /\ month \in Months /\ month' \in Months /\ Months \subseteq Nat
      /\ period \in [Vpses -> [Months -> Nat]] /\ period' \in [Vpses -> [Months -> Nat]]
      /\ VpsesOf(u) \in SUBSET Vpses
  <2>1. month \in Months /\ period \in [Vpses -> [Months -> Nat]]
    BY DEF Types, TypeOK
  <2>2. month' \in Months /\ period' \in [Vpses -> [Months -> Nat]]
    BY DEF Types, TypeOK
  <2>3. Months \subseteq Nat /\ VpsesOf(u) \in SUBSET Vpses
    BY DEF Months, VpsesOf
  <2> QED
    BY <2>1, <2>2, <2>3
<1>2. CASE month' = month
  <2>1. \A v \in VpsesOf(u) : period[v][month] <= period'[v][month]
    BY <1>1, PeriodGrows
  <2>2. /\ Use(period, month, VpsesOf(u)) \in Nat /\ Use(period', month, VpsesOf(u)) \in Nat
        /\ Use(period, month, VpsesOf(u)) <= Use(period', month, VpsesOf(u))
    BY <1>1, <2>1, UseMonotone
  <2>3. /\ OverageCost(Use(period, month, VpsesOf(u))) \in Nat
        /\ OverageCost(Use(period', month, VpsesOf(u))) \in Nat
        /\ OverageCost(Use(period, month, VpsesOf(u))) <= OverageCost(Use(period', month, VpsesOf(u)))
    BY <2>2, OverageCostMonotone, OverageCostNat
  <2> QED
    BY <1>1, <1>2, <2>3 DEF BackedBy
<1>3. CASE month' = month + 1
  BY <1>1, <1>3 DEF BackedBy
<1> QED
  BY <1>2, <1>3, WhoMovesMonth

\* What a query finds is at most what the user's VPSes used: it leaves out the destroyed.
LEMMA AggregateIsBacked ==
  ASSUME Types, NEW u
  PROVE  BackedBy(period, month, OverageCost(Aggregate(u)), month, u)
<1> DEFINE S == {v \in VpsesOf(u) : vps[v] # "destroyed"}
<1>1. /\ month \in Months /\ month \in Nat /\ period \in [Vpses -> [Months -> Nat]]
      /\ VpsesOf(u) \in SUBSET Vpses /\ S \in SUBSET Vpses /\ S \subseteq VpsesOf(u)
      /\ \A v \in S : period[v][month] <= period[v][month]
  <2>1. month \in Months /\ period \in [Vpses -> [Months -> Nat]]
    BY DEF Types, TypeOK
  <2>2. Months \subseteq Nat /\ VpsesOf(u) \in SUBSET Vpses
    BY DEF Months, VpsesOf
  <2> QED
    BY <2>1, <2>2
<1>2. Aggregate(u) = Use(period, month, S)
  BY DEF Aggregate, UsedIn, Use
<1> HIDE DEF S
<1>3. /\ Use(period, month, S) \in Nat /\ Use(period, month, VpsesOf(u)) \in Nat
      /\ Use(period, month, S) <= Use(period, month, VpsesOf(u))
  BY <1>1, UseMonotone
<1> QED
  BY <1>1, <1>2, <1>3, OverageCostMonotone DEF BackedBy

\* No decision is under way at first.
LEMMA InitEvidence == Init => Evidence
  BY DEF Init, Evidence, NoConn, NoRound

\* Every step keeps what is backed, and every sum that is read is backed.
LEMMA StepEvidence ==
  ASSUME Types, Types', Evidence, [Next]_vars
  PROVE  Evidence'
<1>0. /\ conn \in [Conns -> ConnRecords] /\ mon \in RoundRecords /\ Months \subseteq Nat
      /\ month \in Months
  <2>1. conn \in [Conns -> ConnRecords] /\ mon \in RoundRecords /\ month \in Months
    BY DEF Types, TypeOK, ConnRecords, RoundRecords
  <2>2. Months \subseteq Nat
    BY DEF Months
  <2> QED
    BY <2>1, <2>2
<1>1. ASSUME NEW c \in Conns, conn'[c].pc = "budget"
      PROVE  BackedBy(period', month', conn'[c].cost, conn'[c].asOf, Owner[conn'[c].vps])
  <2>1. CASE conn'[c] = conn[c]
    <3>1. conn[c].cost \in Nat /\ conn[c].asOf \in Nat
      BY <1>0 DEF ConnRecords
    <3>2. BackedBy(period, month, conn[c].cost, conn[c].asOf, Owner[conn[c].vps])
      BY <1>1, <2>1 DEF Evidence
    <3>3. BackedBy(period', month', conn[c].cost, conn[c].asOf, Owner[conn[c].vps])
      BY <3>1, <3>2, StaysBacked
    <3> QED
      BY <2>1, <3>3
  <2>2. CASE conn'[c] # conn[c]
    <3>1. PICK v \in Vpses : ProxyRequest(c, v)
      <4>1. ~CheckBudget(c) /\ ~Carry(c) /\ ~LoadCount(c) /\ ~Flush(c) /\ conn'[c] # NoConn
        <5>1. NoConn.pc # "budget"
          BY NoConnFacts
        <5>2. ~CheckBudget(c)
          BY <1>0, <1>1, <5>1 DEF CheckBudget, Open, NoConn
        <5>3. ~Carry(c) /\ ~LoadCount(c)
          BY <1>0, <1>1 DEF Carry, LoadCount, ConnRecords
        <5>4. ~Flush(c)
          BY <1>0, <1>1, <5>1 DEF Flush
        <5> QED
          BY <1>1, <5>1, <5>2, <5>3, <5>4
      <4>2. \A v \in Vpses : ~GatewayRequest(c, v)
        BY <1>0, <1>1 DEF GatewayRequest, Open, NoConn
      <4> QED
        BY <2>2, <4>1, <4>2, WhoMovesConn
    <3>2. /\ conn'[c].vps = v /\ conn'[c].asOf = month
          /\ conn'[c].cost = OverageCost(Aggregate(Owner[v]))
          /\ UNCHANGED <<period, month>>
      BY <1>0, <1>1, <3>1 DEF ProxyRequest, Open, NoConn
    <3>3. BackedBy(period, month, OverageCost(Aggregate(Owner[v])), month, Owner[v])
      BY AggregateIsBacked
    <3> QED
      BY <3>2, <3>3
  <2> QED
    BY <2>1, <2>2
<1>2. ASSUME mon'.pc = "budget"
      PROVE  BackedBy(period', month', mon'.cost, mon'.asOf, mon'.user)
  <2>1. CASE mon' = mon
    <3>1. mon.cost \in Nat /\ mon.asOf \in Nat
      BY <1>0 DEF RoundRecords
    <3>2. BackedBy(period, month, mon.cost, mon.asOf, mon.user)
      BY <1>2, <2>1 DEF Evidence
    <3>3. BackedBy(period', month', mon.cost, mon.asOf, mon.user)
      BY <3>1, <3>2, StaysBacked
    <3> QED
      BY <2>1, <3>3
  <2>2. CASE mon' # mon
    <3>1. PICK u \in Users : LoadUsage(u)
      BY <1>2, <2>2, WhoMovesRound
    <3>2. /\ mon'.user = u /\ mon'.asOf = month /\ mon'.cost = OverageCost(Aggregate(u))
          /\ UNCHANGED <<period, month>>
      BY <1>0, <1>2, <3>1, RoundFacts DEF LoadUsage, RoundRecords
    <3>3. BackedBy(period, month, OverageCost(Aggregate(u)), month, u)
      BY AggregateIsBacked
    <3> QED
      BY <3>2, <3>3
  <2> QED
    BY <2>1, <2>2
<1> QED
  BY <1>1, <1>2 DEF Evidence

\* So whoever decides has evidence.
LEMMA SpecEvidence == Spec => [](Types /\ Evidence)
<1>1. Types /\ Evidence /\ [Next]_vars => (Types /\ Evidence)'
  BY StepTypes, StepEvidence
<1> QED
  BY <1>1, InitTypes, InitEvidence, PTL DEF Spec

\* A cost that is backed and exceeds the budget is an excess there is.
LEMMA BackedExcess ==
  ASSUME Types, NEW cost \in Nat, NEW u \in Users, BackedBy(period, month, cost, month, u),
         cost > budget[u][month]
  PROVE  OverBudget(u, month)
<1>1. /\ month \in Months /\ budget[u][month] \in Nat /\ period \in [Vpses -> [Months -> Nat]]
      /\ VpsesOf(u) \in SUBSET Vpses
  BY DEF Types, TypeOK, VpsesOf
<1>2. \A v \in VpsesOf(u) : period[v][month] <= period[v][month]
  BY <1>1
<1>3. Use(period, month, VpsesOf(u)) \in Nat
  BY <1>1, <1>2, UseMonotone
<1>4. OverageCost(Use(period, month, VpsesOf(u))) \in Nat
  BY <1>3, OverageCostNat
<1>5. UsedIn(month, VpsesOf(u)) = Use(period, month, VpsesOf(u))
  BY DEF UsedIn, Use
<1>6. cost <= OverageCost(Use(period, month, VpsesOf(u)))
  BY DEF BackedBy
<1> QED
  BY <1>1, <1>4, <1>5, <1>6 DEF OverBudget

\* A request is refused, or a VPS stopped, only if what the user's VPSes used exceeds the
\* budget at the moment of the decision, out of date as the usage it rests on may be.
THEOREM DecidesOnEvidenceHolds == Spec => DecidesOnEvidence
<1>1. ASSUME Types, Evidence, [Next]_vars, NEW c \in Conns, Refused(c), conn[c].asOf = month
      PROVE  OverBudget(Owner[conn[c].vps], month)
  <2>0. conn \in [Conns -> ConnRecords]
    BY <1>1 DEF Types, TypeOK, ConnRecords
  <2>1. /\ conn[c].vps \in Vpses /\ conn[c].cost \in Nat /\ Owner[conn[c].vps] \in Users
        /\ conn'[c] # conn[c] /\ conn[c].pc = "budget"
    BY <1>1, <2>0, MeteringConstantsOK DEF Types, Shape, ConnRecords, Refused
  <2>2. CheckBudget(c)
    BY <1>1, <2>1, WhoMovesConn
       DEF Refused, ProxyRequest, GatewayRequest, Carry, LoadCount, Flush
  <2>3. conn[c].cost > budget[Owner[conn[c].vps]][month]
    BY <1>1, <2>0, <2>2 DEF CheckBudget, Open, Refused, NoConn
  <2>4. BackedBy(period, month, conn[c].cost, month, Owner[conn[c].vps])
    BY <1>1, <2>1 DEF Evidence
  <2> QED
    BY <1>1, <2>1, <2>3, <2>4, BackedExcess
<1>2. ASSUME Types, Evidence, [Next]_vars, mon.pc = "budget", mon'.pc = "stop", mon.asOf = month
      PROVE  OverBudget(mon.user, month)
  <2>1. mon.user \in Users /\ mon.cost \in Nat /\ budget[mon.user][month] \in Nat
    BY <1>2 DEF Types, TypeOK, Shape
  <2>2. LoadBudget
    BY <1>2, WhoMovesRound
  <2>3. mon.cost > budget[mon.user][month]
    BY <1>2, <2>1, <2>2, RoundFacts DEF LoadBudget
  <2>4. BackedBy(period, month, mon.cost, month, mon.user)
    BY <1>2 DEF Evidence
  <2> QED
    BY <1>2, <2>1, <2>3, <2>4, BackedExcess
<1>3. Types /\ Evidence /\ [Next]_vars =>
        [ /\ \A c \in Conns :
               Refused(c) /\ conn[c].asOf = month => OverBudget(Owner[conn[c].vps], month)
          /\ mon.pc = "budget" /\ mon'.pc = "stop" /\ mon.asOf = month
               => OverBudget(mon.user, month)
        ]_vars
  BY <1>1, <1>2
<1> QED
  BY <1>3, SpecEvidence, PTL DEF Spec, DecidesOnEvidence

\* While no VPS of the user is destroyed, what a query finds for the user only grows.
LEMMA AggregateGrows ==
  ASSUME Types, Types', [Next]_vars, month' = month, NEW u \in Users,
         \A v \in VpsesOf(u) : vps'[v] = "destroyed" => vps[v] = "destroyed"
  PROVE  /\ OverageCost(Aggregate(u)) \in Nat /\ OverageCost(Aggregate(u)') \in Nat
         /\ OverageCost(Aggregate(u)) <= OverageCost(Aggregate(u)')
<1> DEFINE S == {v \in VpsesOf(u) : vps[v] # "destroyed"}
           T == {v \in VpsesOf(u) : vps'[v] # "destroyed"}
<1>1. S \in SUBSET Vpses /\ T \in SUBSET Vpses /\ S \subseteq T
  BY DEF VpsesOf
<1>2. Aggregate(u) = Use(period, month, S) /\ Aggregate(u)' = Use(period', month, T)
  BY DEF Aggregate, UsedIn, Use, VpsesOf
<1>3. month \in Months /\ period \in [Vpses -> [Months -> Nat]]
  BY DEF Types, TypeOK
<1>4. period' \in [Vpses -> [Months -> Nat]]
  BY DEF Types, TypeOK
<1> HIDE DEF S, T
<1>5. \A v \in S : period[v][month] <= period'[v][month]
  BY <1>1, <1>3, PeriodGrows
<1>6. /\ Use(period, month, S) \in Nat /\ Use(period', month, T) \in Nat
      /\ Use(period, month, S) <= Use(period', month, T)
  BY <1>1, <1>3, <1>4, <1>5, UseMonotone
<1> QED
  BY <1>2, <1>6, OverageCostMonotone, OverageCostNat

\* A user whose budget is exhausted, once the checks that began before are over, opens no
\* more sessions through the forward proxy, until month, budget or VPSes change.
THEOREM ShutOutStaysHolds == Spec => ShutOutStays
<1>1. ASSUME Types, Types', [Next]_vars, NEW u \in Users, ShutOut(u), UNCHANGED <<month, budget>>,
             \A v \in VpsesOf(u) : vps'[v] = "destroyed" => vps[v] = "destroyed"
      PROVE  /\ ShutOut(u)'
             /\ \A c \in Conns : conn'[c].gated /\ Owner[conn'[c].vps] = u => conn[c].gated
  <2>0. /\ conn \in [Conns -> ConnRecords] /\ budget[u][month] \in Nat
        /\ OverageCost(Aggregate(u)) \in Nat /\ OverageCost(Aggregate(u)) > budget[u][month]
    BY <1>1, AggregateNat DEF Types, TypeOK, ConnRecords, ShutOut, Exhausted
  <2>1. Exhausted(u)'
    <3>1. OverageCost(Aggregate(u)') > budget[u][month]
      BY <1>1, <2>0, AggregateGrows
    <3>2. OverageCost(Aggregate(u))' = OverageCost(Aggregate(u)')
      BY DEF OverageCost, WithinPlan
    <3> QED
      BY <1>1, <3>1, <3>2 DEF Exhausted
  \* A check that fails is refused: it does not come to a session.
  <2>2. ASSUME NEW c \in Conns, CheckBudget(c), Owner[conn[c].vps] = u PROVE conn'[c] = NoConn
    <3>1. conn[c].cost > budget[Owner[conn[c].vps]][month]
      BY <1>1, <2>2 DEF CheckBudget, ShutOut
    <3> QED
      BY <2>0, <2>2, <3>1 DEF CheckBudget
  \* A new check reads that the plan is used up.
  <2>3. ASSUME NEW c \in Conns, NEW v \in Vpses, ProxyRequest(c, v), Owner[v] = u,
               conn'[c].pc = "budget" \/ conn'[c].gated
        PROVE  conn'[c].pc = "budget" /\ ~conn'[c].gated /\ conn'[c].cost = OverageCost(Aggregate(u))
    <3>1. ~WithinPlan(Aggregate(u))
      BY <2>0 DEF OverageCost
    <3>2. CASE v \in Hetzner
      <4>1. conn'[c] = Opened(FALSE, v)
        BY <2>0, <2>3, <3>2 DEF ProxyRequest, Open, Opened
      <4>2. Opened(FALSE, v).gated = FALSE /\ Opened(FALSE, v).pc = "open"
        BY OpenedFacts
      <4> QED
        BY <2>3, <4>1, <4>2
    <3>3. CASE v \notin Hetzner
      <4>1. conn'[c] = Checked(v, OverageCost(Aggregate(u)), month)
        BY <2>0, <2>3, <3>1, <3>3 DEF ProxyRequest, Checked
      <4>2. month \in Months
        BY <1>1 DEF Types, TypeOK
      <4> QED
        BY <2>0, <4>1, <4>2, CheckedFacts
    <3> QED
      BY <3>2, <3>3
  <2>4. ASSUME NEW c \in Conns, conn'[c].pc = "budget", Owner[conn'[c].vps] = u
        PROVE  conn'[c].cost > budget[u][month]
    <3>1. CASE conn'[c] = conn[c]
      BY <1>1, <2>4, <3>1 DEF ShutOut
    <3>2. CASE conn'[c] # conn[c]
      <4>1. NoConn.pc # "budget"
        BY NoConnFacts
      <4>2. ~CheckBudget(c)
        BY <2>0, <2>4, <4>1 DEF CheckBudget, Open, NoConn
      <4>3. ~Carry(c) /\ ~LoadCount(c) /\ ~Flush(c)
        BY <2>0, <2>4, <4>1 DEF Carry, LoadCount, Flush, ConnRecords
      <4>4. \A v \in Vpses : ~GatewayRequest(c, v)
        BY <2>0, <2>4 DEF GatewayRequest, Open, NoConn
      <4>5. PICK v \in Vpses : ProxyRequest(c, v)
        BY <1>1, <2>4, <3>2, <4>1, <4>2, <4>3, <4>4, WhoMovesConn
      <4>6. conn'[c].vps = v
        BY <2>0, <4>5 DEF ProxyRequest, Open, NoConn
      <4> QED
        BY <2>0, <2>3, <2>4, <4>5, <4>6
    <3> QED
      BY <3>1, <3>2
  <2>5. ASSUME NEW c \in Conns, conn'[c].gated, Owner[conn'[c].vps] = u, ~conn[c].gated
        PROVE  FALSE
    <3>1. ~NoConn.gated
      BY NoConnFacts
    <3>2. ~Carry(c) /\ ~LoadCount(c)
      BY <2>0, <2>5 DEF Carry, LoadCount, ConnRecords
    <3>3. ~Flush(c)
      BY <2>0, <2>5, <3>1 DEF Flush
    <3>4. ASSUME CheckBudget(c) PROVE FALSE
      <4>1. conn'[c] = Opened(TRUE, conn[c].vps)
        BY <2>0, <2>5, <3>1, <3>4 DEF CheckBudget, Open, Opened
      <4>2. conn[c].vps \in Vpses
        BY <1>1, <3>4 DEF CheckBudget, Types, Shape
      <4>3. conn'[c].vps = conn[c].vps
        BY <4>1, <4>2, OpenedFacts
      <4> QED
        BY <2>2, <2>5, <3>1, <3>4, <4>3
    <3>5. ASSUME NEW v \in Vpses, GatewayRequest(c, v) PROVE FALSE
      <4>1. conn'[c] = Opened(FALSE, v)
        BY <2>0, <3>5 DEF GatewayRequest, Open, Opened
      <4>2. Opened(FALSE, v).gated = FALSE
        BY OpenedFacts
      <4> QED
        BY <2>5, <4>1, <4>2
    <3>6. ASSUME NEW v \in Vpses, ProxyRequest(c, v) PROVE FALSE
      <4>1. conn'[c].vps = v
        BY <2>0, <3>6 DEF ProxyRequest, Open, NoConn
      <4> QED
        BY <2>3, <2>5, <3>6, <4>1
    <3> QED
      BY <1>1, <2>5, <3>1, <3>2, <3>3, <3>4, <3>5, <3>6, WhoMovesConn
  <2> QED
    BY <1>1, <2>1, <2>4, <2>5 DEF ShutOut
<1>2. Types /\ Types' /\ [Next]_vars =>
        [ \A u \in Users :
            /\ ShutOut(u)
            /\ UNCHANGED <<month, budget>>
            /\ \A v \in VpsesOf(u) : vps'[v] = "destroyed" => vps[v] = "destroyed"
            => /\ ShutOut(u)'
               /\ \A c \in Conns :
                    conn'[c].gated /\ Owner[conn'[c].vps] = u => conn[c].gated
        ]_vars
  BY <1>1
<1> QED
  BY <1>2, SpecTypes, PTL DEF Spec, ShutOutStays
===========================================================================
