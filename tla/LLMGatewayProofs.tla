-------------------------- MODULE LLMGatewayProofs --------------------------
(***************************************************************************)
(* Safety of LLMGateway, for any number of threads, tenants and providers, *)
(* any prices, budgets and circuit breaker settings.                       *)
(***************************************************************************)
EXTENDS LLMGateway, FiniteSetTheorems, TLAPS

------------------------------------------------------------------------------
(* Induction over finite sets: in a family of them one is minimal *)

LEMMA MinimalSet ==
    ASSUME NEW S, IsFiniteSet(S), NEW F \in SUBSET SUBSET S, F # {}
    PROVE  \E m \in F : \A s \in F : s \subseteq m => s = m
  <1>1. IsWellFoundedOn(StrictSubsetOrdering(S), SUBSET S)
    BY FS_StrictSubsetOrderingWellFounded, FS_FiniteSubsetsOfFinite
  <1>2. PICK m \in F : \A s \in F : ~(<<s, m>> \in StrictSubsetOrdering(S))
    BY <1>1, WFMin
  <1>3. ASSUME NEW s \in F, s \subseteq m, s # m
        PROVE  FALSE
    BY <1>2, <1>3 DEF StrictSubsetOrdering
  <1> QED
    BY <1>3

\* A set of natural numbers has a smallest element.
LEMMA Smallest ==
    ASSUME NEW T \in SUBSET Nat, T # {}
    PROVE  \E x \in T : \A y \in T : x <= y
  <1>1. PICK n \in T : TRUE
    OBVIOUS
  <1>2. PICK S, F : S = 0..n /\ F = {s \in SUBSET S : \E x \in T : s = 0..x}
    OBVIOUS
  <1>3. IsFiniteSet(S) /\ F \in SUBSET SUBSET S /\ F # {}
    <2>1. IsFiniteSet(S)
      BY <1>2, FS_Interval
    <2>2. S \in F
      BY <1>2
    <2> QED
      BY <1>2, <2>1, <2>2
  <1>4. PICK m \in F : \A s \in F : s \subseteq m => s = m
    BY <1>3, MinimalSet
  <1>5. PICK x \in T : m = 0..x /\ m \subseteq S
    BY <1>2
  <1>6. ASSUME NEW y \in T, y < x
        PROVE  FALSE
    <2>1. 0..y \subseteq m /\ x \in m /\ x \notin 0..y
      BY <1>5, <1>6
    <2>2. 0..y \in F
      BY <1>2, <1>5, <2>1
    <2> QED
      BY <1>4, <2>1, <2>2
  <1>7. \A y \in T : x <= y
    BY <1>6
  <1> QED
    BY <1>7

------------------------------------------------------------------------------
(* Sums over a finite set, as MapThenSumSet folds them *)

Pick(s) == CHOOSE x \in s : TRUE

\* g has the sum of f over every subset of S.
Sums(g, f, S) ==
    /\ g = [s \in SUBSET S |-> g[s]]
    /\ g[{}] = 0
    /\ \A s \in SUBSET S : s # {} => g[s] = f[Pick(s)] + g[s \ {Pick(s)}]

LEMMA PickIn == \A s : s # {} => Pick(s) \in s
  BY DEF Pick

\* Two that sum the same terms agree.
LEMMA SumsAgree ==
    \A S, T, g, h, f, k :
        /\ IsFiniteSet(T) /\ T \subseteq S
        /\ Sums(g, f, S) /\ Sums(h, k, T)
        /\ \A x \in T : f[x] = k[x]
        => \A s \in SUBSET T : g[s] = h[s]
  <1> TAKE S, T, g, h, f, k
  <1> HAVE /\ IsFiniteSet(T) /\ T \subseteq S
           /\ Sums(g, f, S) /\ Sums(h, k, T)
           /\ \A x \in T : f[x] = k[x]
  <1>1. PICK F : F = {s \in SUBSET T : g[s] # h[s]}
    OBVIOUS
  <1>2. SUFFICES ASSUME F # {} PROVE FALSE
    BY <1>1
  <1>3. F \in SUBSET SUBSET T
    BY <1>1
  <1>4. PICK m \in F : \A s \in F : s \subseteq m => s = m
    BY <1>2, <1>3, MinimalSet
  <1>5. m # {} /\ m \in SUBSET T /\ m \in SUBSET S
    BY <1>1 DEF Sums
  <1>6. PICK x, s : x = Pick(m) /\ s = m \ {x}
    OBVIOUS
  <1>7. x \in m /\ s \subseteq m /\ s # m /\ s \in SUBSET T
    BY <1>5, <1>6, PickIn
  <1>8. g[s] = h[s]
    BY <1>1, <1>4, <1>7
  <1>9. g[m] = f[x] + g[s] /\ h[m] = k[x] + h[s]
    BY <1>5, <1>6 DEF Sums
  <1> QED
    BY <1>1, <1>5, <1>7, <1>8, <1>9

LEMMA SumsNat ==
    \A S, g, f :
        /\ IsFiniteSet(S)
        /\ \A x \in S : f[x] \in Nat
        /\ Sums(g, f, S)
        => \A s \in SUBSET S : g[s] \in Nat
  <1> TAKE S, g, f
  <1> HAVE /\ IsFiniteSet(S)
           /\ \A x \in S : f[x] \in Nat
           /\ Sums(g, f, S)
  <1>1. PICK F : F = {s \in SUBSET S : g[s] \notin Nat}
    OBVIOUS
  <1>2. SUFFICES ASSUME F # {} PROVE FALSE
    BY <1>1
  <1>3. F \in SUBSET SUBSET S
    BY <1>1
  <1>4. PICK m \in F : \A s \in F : s \subseteq m => s = m
    BY <1>2, <1>3, MinimalSet
  <1>5. m # {} /\ m \in SUBSET S
    <2>1. g[{}] = 0
      BY DEF Sums
    <2>2. m \in SUBSET S /\ g[m] \notin Nat
      BY <1>1, <1>4
    <2> QED
      BY <2>1, <2>2
  <1>6. PICK x, s : x = Pick(m) /\ s = m \ {x}
    OBVIOUS
  <1>7. x \in m /\ s \subseteq m /\ s # m /\ s \in SUBSET S
    BY <1>5, <1>6, PickIn
  <1>8. g[s] \in Nat /\ f[x] \in Nat
    BY <1>1, <1>4, <1>5, <1>7
  <1>9. g[m] = f[x] + g[s]
    BY <1>5, <1>6 DEF Sums
  <1> QED
    BY <1>1, <1>8, <1>9

LEMMA SumsExist ==
    ASSUME NEW S, IsFiniteSet(S), NEW f, \A x \in S : f[x] \in Nat
    PROVE  \E g : Sums(g, f, S)
  <1>1. PICK F : F = {s \in SUBSET S : ~\E g : Sums(g, f, s)}
    OBVIOUS
  <1>2. SUFFICES ASSUME F # {} PROVE FALSE
    BY <1>1
  <1>3. F \in SUBSET SUBSET S
    BY <1>1
  <1>4. PICK m \in F : \A s \in F : s \subseteq m => s = m
    BY <1>2, <1>3, MinimalSet
  <1>5. \A s \in SUBSET m : s # m => \E g : Sums(g, f, s)
    BY <1>1, <1>4
  <1>6. \A s \in SUBSET m : IsFiniteSet(s)
    BY <1>3, <1>4, FS_Subset
  <1>7. PICK G : G = [s \in SUBSET m |-> CHOOSE g : Sums(g, f, s)]
    OBVIOUS
  <1>8. \A s \in SUBSET m : s # m => Sums(G[s], f, s)
    BY <1>5, <1>7
  <1>9. \A s \in SUBSET m : s # m => \A t \in SUBSET s : G[s][t] = G[t][t]
    <2> SUFFICES ASSUME NEW s \in SUBSET m, s # m, NEW t \in SUBSET s
                 PROVE  G[s][t] = G[t][t]
      OBVIOUS
    <2>1. t \in SUBSET m /\ t # m
      OBVIOUS
    <2>2. PICK g, h : g = G[s] /\ h = G[t]
      OBVIOUS
    <2>3. IsFiniteSet(t) /\ t \subseteq s /\ Sums(g, f, s) /\ Sums(h, f, t)
      BY <1>6, <1>8, <2>1, <2>2
    <2>4. \A z \in t : f[z] = f[z]
      OBVIOUS
    <2>5. \A u \in SUBSET t : g[u] = h[u]
      <3> HIDE <2>2
      <3> QED
        BY <2>3, <2>4, SumsAgree
    <2> QED
      BY <2>2, <2>5
  <1>10. PICK x, rest : x = Pick(m) /\ rest = m \ {x}
    OBVIOUS
  <1>11. CASE m = {}
    <2>1. PICK g : g = [s \in SUBSET m |-> 0]
      OBVIOUS
    <2>2. Sums(g, f, m)
      BY <1>11, <2>1 DEF Sums
    <2> QED
      BY <1>1, <1>4, <2>2
  <1>12. CASE m # {}
    <2>1. PICK g : g = [s \in SUBSET m |-> IF s = m THEN f[x] + G[rest][rest]
                                                    ELSE G[s][s]]
      OBVIOUS
    <2>2. x \in m /\ rest \in SUBSET m /\ rest # m /\ f[x] \in Nat
      BY <1>1, <1>4, <1>10, <1>12, PickIn
    <2>3. G[{}][{}] = 0
      BY <1>8, <1>12 DEF Sums
    <2>4. g = [s \in SUBSET m |-> g[s]] /\ g[{}] = 0
      BY <1>12, <2>1, <2>3
    <2>5. ASSUME NEW s \in SUBSET m, s # {}
          PROVE  g[s] = f[Pick(s)] + g[s \ {Pick(s)}]
      <3>1. PICK y, t : y = Pick(s) /\ t = s \ {y}
        OBVIOUS
      <3>2. y \in s /\ t \in SUBSET m /\ t # m /\ t \in SUBSET s
        BY <2>5, <3>1, PickIn
      <3>3. g[t] = G[t][t]
        BY <2>1, <3>2
      <3>4. CASE s = m
        BY <1>10, <2>1, <3>1, <3>3, <3>4
      <3>5. CASE s # m
        <4>1. g[s] = G[s][s] /\ G[s][t] = G[t][t]
          BY <1>9, <2>1, <3>2, <3>5
        <4>2. G[s][s] = f[y] + G[s][t]
          BY <1>8, <2>5, <3>1, <3>5 DEF Sums
        <4> QED
          BY <3>1, <3>3, <4>1, <4>2
      <3> QED
        BY <3>4, <3>5
    <2>6. Sums(g, f, m)
      BY <2>4, <2>5 DEF Sums
    <2> QED
      BY <1>1, <1>4, <2>6
  <1> QED
    BY <1>11, <1>12

\* A sum does not depend on the order of its terms: any of them can be taken
\* out first.
LEMMA SumsTakeOut ==
    ASSUME NEW S, IsFiniteSet(S), NEW f, \A x \in S : f[x] \in Nat,
           NEW g, Sums(g, f, S)
    PROVE  \A s \in SUBSET S : \A y \in s : g[s] = f[y] + g[s \ {y}]
  <1>1. PICK F : F = {s \in SUBSET S : \E y \in s : g[s] # f[y] + g[s \ {y}]}
    OBVIOUS
  <1>2. SUFFICES ASSUME F # {} PROVE FALSE
    BY <1>1
  <1>3. F \in SUBSET SUBSET S
    BY <1>1
  <1>4. PICK m \in F : \A s \in F : s \subseteq m => s = m
    BY <1>2, <1>3, MinimalSet
  <1>5. PICK y \in m : g[m] # f[y] + g[m \ {y}]
    BY <1>1, <1>4
  <1>6. PICK x : x = Pick(m)
    OBVIOUS
  <1>7. x \in m /\ m \in SUBSET S
    BY <1>1, <1>5, <1>6, PickIn
  <1>8. g[m] = f[x] + g[m \ {x}]
    BY <1>6, <1>7 DEF Sums
  <1>9. x # y
    BY <1>5, <1>8
  <1>10. \A s \in SUBSET m : s # m => \A z \in s : g[s] = f[z] + g[s \ {z}]
    BY <1>1, <1>4, <1>7
  <1>11. PICK mx, my, rest : mx = m \ {x} /\ my = m \ {y} /\ rest = (m \ {x}) \ {y}
    OBVIOUS
  <1>12. /\ mx \in SUBSET m /\ mx # m /\ y \in mx /\ mx \ {y} = rest
         /\ my \in SUBSET m /\ my # m /\ x \in my /\ my \ {x} = rest
    BY <1>7, <1>9, <1>11
  <1>13. g[mx] = f[y] + g[rest] /\ g[my] = f[x] + g[rest]
    BY <1>10, <1>12
  <1>14. f[x] \in Nat /\ f[y] \in Nat /\ g[rest] \in Nat
    BY <1>7, <1>12, SumsNat
  <1>15. g[m] = f[x] + (f[y] + g[rest]) /\ g[m] # f[y] + (f[x] + g[rest])
    BY <1>5, <1>8, <1>11, <1>13
  <1> QED
    BY <1>14, <1>15

\* The cost of the calls in S.
Bill(th, S) == MapThenSumSet(LAMBDA r : th[r].cost, S)

LEMMA BillUnfolds ==
    ASSUME NEW th, NEW S
    PROVE  Bill(th, S) =
             (CHOOSE g : g = [s \in SUBSET S |->
                IF s = {} THEN 0
                ELSE th[CHOOSE x \in s : TRUE].cost + g[s \ {CHOOSE x \in s : TRUE}]])[S]
  BY DEF Bill, MapThenSumSet, MapThenFoldSet

\* The fold that MapThenSumSet defines is the sum.
LEMMA BillSums ==
    ASSUME NEW th, NEW S, IsFiniteSet(S), \A r \in S : th[r].cost \in Nat
    PROVE  \E g : Sums(g, [r \in S |-> th[r].cost], S) /\ Bill(th, S) = g[S]
  <1>1. PICK f : f = [r \in S |-> th[r].cost]
    OBVIOUS
  <1>2. \A r \in S : f[r] \in Nat
    BY <1>1
  <1>3. PICK e : Sums(e, f, S)
    BY <1>2, SumsExist
  <1> DEFINE Folds(g) == g = [s \in SUBSET S |->
                 IF s = {} THEN 0
                 ELSE th[CHOOSE x \in s : TRUE].cost + g[s \ {CHOOSE x \in s : TRUE}]]
  <1>4. \A g : Folds(g) <=> Sums(g, f, S)
    <2> SUFFICES ASSUME NEW g PROVE Folds(g) <=> Sums(g, f, S)
      OBVIOUS
    <2>1. ASSUME Folds(g) PROVE Sums(g, f, S)
      <3>1. g = [s \in SUBSET S |-> g[s]]
        BY <2>1
      <3>2. g[{}] = 0
        BY <2>1
      <3>3. ASSUME NEW s \in SUBSET S, s # {}
            PROVE  g[s] = f[Pick(s)] + g[s \ {Pick(s)}]
        <4>1. Pick(s) \in S
          BY <3>3, PickIn
        <4>2. g[s] = th[Pick(s)].cost + g[s \ {Pick(s)}]
          BY <2>1, <3>3 DEF Pick
        <4> QED
          BY <1>1, <4>1, <4>2
      <3> QED
        BY <3>1, <3>2, <3>3 DEF Sums
    <2>2. ASSUME Sums(g, f, S) PROVE Folds(g)
      <3>1. ASSUME NEW s \in SUBSET S, s # {}
            PROVE  g[s] = th[Pick(s)].cost + g[s \ {Pick(s)}]
        <4>1. Pick(s) \in S
          BY <3>1, PickIn
        <4> QED
          BY <1>1, <2>2, <3>1, <4>1 DEF Sums
      <3>2. g = [s \in SUBSET S |-> g[s]] /\ g[{}] = 0
        BY <2>2 DEF Sums
      <3> QED
        BY <3>1, <3>2 DEF Pick
    <2> QED
      BY <2>1, <2>2
  <1>5. Bill(th, S) = (CHOOSE g : Folds(g))[S]
    BY BillUnfolds
  <1> HIDE DEF Folds
  <1>6. Folds(CHOOSE g : Folds(g))
    BY <1>3, <1>4
  <1>7. PICK g : g = CHOOSE u : Folds(u)
    OBVIOUS
  <1>8. Sums(g, f, S) /\ Bill(th, S) = g[S]
    BY <1>4, <1>5, <1>6, <1>7
  <1> QED
    BY <1>1, <1>8

LEMMA BillNat ==
    ASSUME NEW th, NEW S, IsFiniteSet(S), \A r \in S : th[r].cost \in Nat
    PROVE  Bill(th, S) \in Nat
  <1>1. PICK f : f = [r \in S |-> th[r].cost]
    OBVIOUS
  <1>2. PICK g : Sums(g, f, S) /\ Bill(th, S) = g[S]
    BY <1>1, BillSums
  <1>3. \A r \in S : f[r] \in Nat
    BY <1>1
  <1>4. \A s \in SUBSET S : g[s] \in Nat
    BY <1>2, <1>3, SumsNat
  <1> QED
    BY <1>2, <1>4

\* The sum depends on the costs of the calls in S alone.
LEMMA BillSame ==
    ASSUME NEW th, NEW th2, NEW S, IsFiniteSet(S),
           \A r \in S : th[r].cost \in Nat /\ th2[r].cost = th[r].cost
    PROVE  Bill(th2, S) = Bill(th, S)
  <1>1. PICK f, k : f = [r \in S |-> th[r].cost] /\ k = [r \in S |-> th2[r].cost]
    OBVIOUS
  <1>2. PICK g : Sums(g, f, S) /\ Bill(th, S) = g[S]
    BY <1>1, BillSums
  <1>3. PICK h : Sums(h, k, S) /\ Bill(th2, S) = h[S]
    BY <1>1, BillSums
  <1>4. \A r \in S : f[r] = k[r]
    BY <1>1
  <1>5. S \subseteq S /\ S \in SUBSET S
    OBVIOUS
  <1>6. \A s \in SUBSET S : g[s] = h[s]
    BY <1>2, <1>3, <1>4, <1>5, SumsAgree
  <1> QED
    BY <1>2, <1>3, <1>5, <1>6

LEMMA BillTakeOut ==
    ASSUME NEW th, NEW S, IsFiniteSet(S), \A r \in S : th[r].cost \in Nat, NEW o \in S
    PROVE  Bill(th, S) = th[o].cost + Bill(th, S \ {o})
  <1>1. PICK T, f, k : /\ T = S \ {o}
                       /\ f = [r \in S |-> th[r].cost] /\ k = [r \in T |-> th[r].cost]
    OBVIOUS
  <1>2. IsFiniteSet(T) /\ T \subseteq S /\ \A r \in T : th[r].cost \in Nat
    BY <1>1, FS_Subset
  <1>3. PICK g : Sums(g, f, S) /\ Bill(th, S) = g[S]
    BY <1>1, BillSums
  <1>4. PICK h : Sums(h, k, T) /\ Bill(th, T) = h[T]
    BY <1>1, <1>2, BillSums
  <1>5. \A r \in T : f[r] = k[r]
    BY <1>1
  <1>6. \A s \in SUBSET T : g[s] = h[s]
    BY <1>2, <1>3, <1>4, <1>5, SumsAgree
  <1>7. \A r \in S : f[r] \in Nat
    BY <1>1
  <1>8. g[S] = f[o] + g[T]
    BY <1>1, <1>3, <1>7, SumsTakeOut
  <1> QED
    BY <1>1, <1>3, <1>4, <1>6, <1>8

------------------------------------------------------------------------------
(* Circuit breakers *)

Healths == [Providers -> [failures : Nat, open_until : Nat]]

Asking(q) == q.at \in {"calling", "backoff"}

\* The providers a request still has in its list: a circuit among them that is
\* open now was opened after the list was made.
Fresh(q, hl, now) ==
    /\ q.left \subseteq Providers /\ q.left # {}
    /\ q.selected \in Nat /\ q.selected <= now
    /\ \A p \in q.left :
          now < hl[p].open_until => q.selected + Cooldown <= hl[p].open_until

CircuitInv ==
    /\ DOMAIN thread = Threads
    /\ clock \in Nat
    /\ health \in Healths
    /\ \A r \in Threads : Asking(thread[r]) => Fresh(thread[r], health, clock)

\* What a step may do to the health of a provider: nothing, an opened circuit,
\* or a new ProviderHealth.
Kept(hl, hl2, now) ==
    \A p \in Providers :
        \/ hl2[p].open_until = hl[p].open_until
        \/ hl2[p].open_until = now + Cooldown
        \/ hl2[p].open_until = 0

LEMMA FreshKept ==
    ASSUME NEW q, NEW hl \in Healths, NEW hl2 \in Healths, NEW now \in Nat,
           NEW now2 \in Nat, now <= now2, Kept(hl, hl2, now), Fresh(q, hl, now)
    PROVE  Fresh(q, hl2, now2)
  <1>1. q.left \subseteq Providers /\ q.left # {} /\ q.selected \in Nat /\ q.selected <= now
    BY DEF Fresh
  <1>2. Cooldown \in Nat
    BY PolicyAssumption
  <1>3. ASSUME NEW p \in q.left, now2 < hl2[p].open_until
        PROVE  q.selected + Cooldown <= hl2[p].open_until
    <2>1. p \in Providers /\ hl[p].open_until \in Nat /\ hl2[p].open_until \in Nat
      BY <1>1 DEF Healths
    <2>2. now < hl[p].open_until => q.selected + Cooldown <= hl[p].open_until
      BY DEF Fresh
    <2>3. \/ hl2[p].open_until = hl[p].open_until
          \/ hl2[p].open_until = now + Cooldown
          \/ hl2[p].open_until = 0
      BY <2>1 DEF Kept
    <2> QED
      BY <1>1, <1>2, <1>3, <2>1, <2>2, <2>3
  <1> QED
    BY <1>1, <1>3 DEF Fresh

LEMMA CurrentIn ==
    ASSUME NEW r, thread[r].left \subseteq Providers, thread[r].left # {}
    PROVE  Current(r) \in thread[r].left
  <1>1. \E p \in thread[r].left : \A o \in thread[r].left : p <= o
    BY Smallest, ProviderAssumption
  <1> QED
    BY <1>1 DEF Current

\* A request moves on with a list it may have, whatever its step does to the
\* health of the providers.
LEMMA CircuitStep ==
    ASSUME CircuitInv, NEW r \in Threads, NEW q, Goto(r, q), UNCHANGED clock,
           health' \in Healths, Kept(health, health', clock),
           Asking(q) => Fresh(q, health, clock)
    PROVE  CircuitInv'
  <1>1. DOMAIN thread' = Threads /\ clock' \in Nat
    BY DEF CircuitInv, Goto
  <1>2. ASSUME NEW o \in Threads, Asking(thread'[o])
        PROVE  Fresh(thread'[o], health', clock')
    <2>1. PICK u : u = thread'[o]
      OBVIOUS
    <2>2. Fresh(u, health, clock)
      BY <1>2, <2>1 DEF CircuitInv, Goto
    <2>3. health \in Healths /\ clock \in Nat /\ clock <= clock
      BY DEF CircuitInv
    <2>4. Fresh(u, health', clock)
      BY <2>2, <2>3, FreshKept
    <2> QED
      BY <2>1, <2>4
  <1> QED
    BY <1>1, <1>2 DEF CircuitInv

LEMMA FreshPart ==
    ASSUME NEW u, NEW q, NEW hl, NEW now, Fresh(u, hl, now),
           q.left \subseteq u.left, q.left # {}, q.selected = u.selected
    PROVE  Fresh(q, hl, now)
  BY DEF Fresh

LEMMA RecordKept ==
    ASSUME CircuitInv, NEW p \in Providers, RecordFailure(p)
    PROVE  health' \in Healths /\ Kept(health, health', clock)
  <1>1. PICK n : /\ n = health[p].failures + 1
                 /\ n \in Nat
    BY DEF CircuitInv, Healths
  <1>2. PICK until : /\ until = IF n >= Threshold THEN clock + Cooldown
                                                  ELSE health[p].open_until
                     /\ until \in Nat
    BY PolicyAssumption DEF CircuitInv, Healths
  <1>3. health' = [health EXCEPT ![p] = [failures |-> n, open_until |-> until]]
    BY <1>1, <1>2 DEF RecordFailure
  <1>4. health' \in Healths
    BY <1>1, <1>2, <1>3 DEF CircuitInv, Healths
  <1>5. \A o \in Providers : o # p => health'[o] = health[o]
    BY <1>3 DEF CircuitInv, Healths
  <1>6. health'[p].open_until = until
    BY <1>3 DEF CircuitInv, Healths
  <1> QED
    BY <1>2, <1>4, <1>5, <1>6 DEF Kept

LEMMA HealthKept ==
    ASSUME CircuitInv, UNCHANGED health
    PROVE  health' \in Healths /\ Kept(health, health', clock)
  BY DEF CircuitInv, Kept

\* The request of thread r goes on with a list it may have.
MovesOn(r) == \E q : Goto(r, q) /\ (Asking(q) => Fresh(q, health, clock))

LEMMA ReturnMoves ==
    ASSUME NEW r, Return(r)
    PROVE  MovesOn(r)
  <1>1. ~Asking(Idle)
    BY DEF Asking, Idle
  <1> QED
    BY <1>1 DEF Return, MovesOn

LEMMA CallMoves ==
    ASSUME CircuitInv, NEW r \in Threads, Asking(thread[r]),
           NEW left, NEW attempt, left \subseteq thread[r].left, left # {},
           Call(r, left, attempt)
    PROVE  MovesOn(r)
  <1>1. PICK q : q = [at |-> "calling", tenant |-> thread[r].tenant, left |-> left,
                      attempt |-> attempt, selected |-> thread[r].selected]
    OBVIOUS
  <1>2. q.left = left /\ q.selected = thread[r].selected
    BY <1>1
  <1>3. Fresh(thread[r], health, clock)
    BY DEF CircuitInv
  <1>4. PICK u : u = thread[r]
    OBVIOUS
  <1>5. Fresh(q, health, clock)
    BY <1>2, <1>3, <1>4, FreshPart
  <1> QED
    BY <1>1, <1>5 DEF Call, MovesOn

LEMMA NextProviderMoves ==
    ASSUME CircuitInv, NEW r \in Threads, Asking(thread[r]), NextProvider(r)
    PROVE  MovesOn(r)
  <1>1. CASE Remaining(r) = {}
    BY <1>1, ReturnMoves DEF NextProvider
  <1>2. CASE Remaining(r) # {}
    <2>1. Call(r, Remaining(r), 0)
      BY <1>2 DEF NextProvider
    <2>2. Remaining(r) \subseteq thread[r].left
      BY DEF Remaining
    <2> QED
      BY <1>2, <2>1, <2>2, CallMoves
  <1> QED
    BY <1>1, <1>2

LEMMA NextAttemptMoves ==
    ASSUME CircuitInv, NEW r \in Threads, Asking(thread[r]), NextAttempt(r)
    PROVE  MovesOn(r)
  <1>1. CASE thread[r].attempt = MaxRetries
    BY <1>1, NextProviderMoves DEF NextAttempt
  <1>2. CASE thread[r].attempt # MaxRetries
    <2>1. Call(r, thread[r].left, thread[r].attempt + 1)
      BY <1>2 DEF NextAttempt
    <2>2. thread[r].left # {} /\ thread[r].left \subseteq thread[r].left
      BY DEF CircuitInv, Fresh
    <2> QED
      BY <2>1, <2>2, CallMoves
  <1> QED
    BY <1>1, <1>2

LEMMA FailMoves ==
    ASSUME CircuitInv, NEW r \in Threads, Asking(thread[r]), NEW reason, Fail(r, reason)
    PROVE  MovesOn(r)
  <1>1. PICK q : q = [at |-> "backoff", tenant |-> thread[r].tenant,
                      attempt |-> thread[r].attempt, left |-> thread[r].left,
                      selected |-> thread[r].selected, reason |-> reason]
    OBVIOUS
  <1>2. q.left = thread[r].left /\ q.selected = thread[r].selected
    BY <1>1
  <1>3. Fresh(thread[r], health, clock)
    BY DEF CircuitInv
  <1>4. q.left # {} /\ q.left \subseteq thread[r].left
    BY <1>2, <1>3 DEF Fresh
  <1>5. PICK u : u = thread[r]
    OBVIOUS
  <1>6. Fresh(q, health, clock)
    BY <1>2, <1>3, <1>4, <1>5, FreshPart
  <1> QED
    BY <1>1, <1>6 DEF Fail, MovesOn

LEMMA CurrentProvider ==
    ASSUME CircuitInv, NEW r \in Threads, Asking(thread[r])
    PROVE  Current(r) \in thread[r].left /\ Current(r) \in Providers
  <1>1. thread[r].left \subseteq Providers /\ thread[r].left # {}
    BY DEF CircuitInv, Fresh
  <1> QED
    BY <1>1, CurrentIn

LEMMA CircuitInit == Init => CircuitInv
  <1> SUFFICES ASSUME Init PROVE CircuitInv
    OBVIOUS
  <1>1. health \in Healths
    BY DEF Init, Healthy, Healths
  <1>2. \A r \in Threads : ~Asking(thread[r])
    BY DEF Init, Idle, Asking
  <1>3. DOMAIN thread = Threads /\ clock \in Nat
    BY DEF Init
  <1> QED
    BY <1>1, <1>2, <1>3 DEF CircuitInv

LEMMA CircuitNext == CircuitInv /\ [Next]_vars => CircuitInv'
  <1> SUFFICES ASSUME CircuitInv, [Next]_vars PROVE CircuitInv'
    OBVIOUS
  <1> USE DEF Asking
  <1>1. ASSUME NEW r \in Threads, MovesOn(r), UNCHANGED clock,
               health' \in Healths, Kept(health, health', clock)
        PROVE  CircuitInv'
    <2>1. PICK q : Goto(r, q) /\ (Asking(q) => Fresh(q, health, clock))
      BY <1>1 DEF MovesOn
    <2> QED
      BY <1>1, <2>1, CircuitStep
  <1>2. ASSUME NEW r \in Threads, MovesOn(r), UNCHANGED <<health, clock>>
        PROVE  CircuitInv'
    BY <1>1, <1>2, HealthKept
  <1>3. ASSUME NEW r \in Threads, Start(r)
        PROVE  CircuitInv'
    <2>1. PICK q : Goto(r, q) /\ q.at = "admitted"
      BY <1>3 DEF Start, Admit
    <2>2. MovesOn(r)
      BY <2>1 DEF MovesOn
    <2> QED
      BY <1>2, <1>3, <2>2 DEF Start, Admit
  <1>4. ASSUME NEW r \in Threads, Select(r)
        PROVE  CircuitInv'
    <2>1. PICK q : /\ Goto(r, q) /\ q.left = Candidates(thread[r].model)
                   /\ q.selected = clock
      BY <1>4 DEF Select
    <2>2. q.left \subseteq Providers /\ q.left # {} /\ \A p \in q.left : Available(p)
      BY <1>4, <2>1 DEF Select, Candidates
    <2>3. \A p \in q.left : ~(clock < health[p].open_until)
      BY <2>2 DEF Available, CircuitInv, Healths
    <2>4. Fresh(q, health, clock)
      BY <2>1, <2>2, <2>3 DEF Fresh, CircuitInv
    <2>5. MovesOn(r)
      BY <2>1, <2>4 DEF MovesOn
    <2> QED
      BY <1>2, <1>4, <2>5 DEF Select
  <1>5. ASSUME NEW r \in Threads, NoProvider(r) \/ CallRaises(r)
        PROVE  CircuitInv'
    BY <1>2, <1>5, ReturnMoves DEF NoProvider, CallRaises
  <1>6. ASSUME NEW r \in Threads, ClientError(r)
        PROVE  CircuitInv'
    <2>1. Asking(thread[r]) /\ NextProvider(r) /\ RecordFailure(Current(r)) /\ UNCHANGED clock
      BY <1>6 DEF ClientError
    <2> QED
      BY <1>1, <2>1, NextProviderMoves, CurrentProvider, RecordKept
  <1>7. ASSUME NEW r \in Threads, ServerError(r)
        PROVE  CircuitInv'
    <2>1. Asking(thread[r]) /\ NextAttempt(r) /\ UNCHANGED <<health, clock>>
      BY <1>7 DEF ServerError
    <2> QED
      BY <1>2, <2>1, NextAttemptMoves
  <1>8. ASSUME NEW r \in Threads, NEW reason, Asking(thread[r]), Fail(r, reason)
        PROVE  CircuitInv'
    <2>1. RecordFailure(Current(r)) /\ UNCHANGED clock
      BY <1>8 DEF Fail
    <2> QED
      BY <1>1, <1>8, <2>1, FailMoves, CurrentProvider, RecordKept
  <1>9. ASSUME NEW r \in Threads, CallError(r)
        PROVE  CircuitInv'
    <2>1. Asking(thread[r]) /\ Fail(r, "error")
      BY <1>9 DEF CallError
    <2> QED
      BY <1>8, <2>1
  <1>10. ASSUME NEW r \in Threads, EndBackoff(r)
         PROVE  CircuitInv'
    <2>1. /\ Asking(thread[r])
          /\ NextAttempt(r) \/ NextProvider(r)
          /\ UNCHANGED <<health, clock>>
      BY <1>10 DEF EndBackoff
    <2> QED
      BY <1>2, <2>1, NextAttemptMoves, NextProviderMoves
  <1>11. ASSUME NEW r \in Threads, NEW c \in Costs, Answer(r, c)
         PROVE  CircuitInv'
    <2>1. PICK q : Goto(r, q) /\ q.at = "paying"
      BY <1>11 DEF Answer
    <2>2. MovesOn(r)
      BY <2>1 DEF MovesOn
    <2> QED
      BY <1>2, <1>11, <2>2 DEF Answer
  <1>12. ASSUME NEW r \in Threads, NEW c \in Costs, AnswerOverBudget(r, c)
         PROVE  CircuitInv'
    <2>1. Asking(thread[r]) /\ Fail(r, "budget")
      BY <1>12 DEF AnswerOverBudget
    <2> QED
      BY <1>8, <2>1
  <1>13. ASSUME NEW r \in Threads, CommitRead(r) \/ CommitStore(r) \/ Succeed(r)
         PROVE  CircuitInv'
    <2>1. PICK q : Goto(r, q) /\ q.at \in {"storing", "paid", "idle"}
      BY <1>13 DEF CommitRead, CommitStore, Succeed, Return, Idle
    <2>2. MovesOn(r)
      BY <2>1 DEF MovesOn
    <2> QED
      BY <1>2, <1>13, <2>2 DEF CommitRead, CommitStore, Succeed
  <1>14. ASSUME NEW r \in Threads, Recovered(r)
         PROVE  CircuitInv'
    <2>1. PICK q : Goto(r, q) /\ q.at = "logging"
      BY <1>14 DEF Recovered
    <2>2. MovesOn(r)
      BY <2>1 DEF MovesOn
    <2>3. health' \in Healths /\ Kept(health, health', clock)
      <3>1. PICK p : health' = [health EXCEPT ![p] = [failures |-> 0, open_until |-> 0]]
        BY <1>14 DEF Recovered, Healthy
      <3> QED
        BY <3>1 DEF CircuitInv, Healths, Kept
    <2> QED
      BY <1>1, <1>14, <2>2, <2>3 DEF Recovered
  <1>15. CASE Tick
    <2>1. clock \in Nat /\ clock' = clock + 1 /\ UNCHANGED <<health, thread>>
      BY <1>15 DEF Tick, CircuitInv
    <2>2. clock' \in Nat /\ clock <= clock'
      BY <2>1
    <2>3. health \in Healths /\ Kept(health, health, clock)
      BY DEF CircuitInv, Kept
    <2>4. PICK now : now = clock'
      OBVIOUS
    <2>5. ASSUME NEW r \in Threads, Asking(thread[r])
          PROVE  Fresh(thread[r], health, now)
      <3>1. PICK q : q = thread[r] /\ Fresh(q, health, clock)
        BY <2>5 DEF CircuitInv
      <3>2. Fresh(q, health, now)
        BY <2>1, <2>2, <2>3, <2>4, <3>1, FreshKept
      <3> QED
        BY <3>1, <3>2
    <2> QED
      BY <2>1, <2>2, <2>4, <2>5 DEF CircuitInv
  <1>16. CASE UNCHANGED vars
    BY <1>16 DEF CircuitInv, vars
  <1> QED
    BY <1>3, <1>4, <1>5, <1>6, <1>7, <1>9, <1>10, <1>11, <1>12, <1>13, <1>14,
       <1>15, <1>16 DEF Next, Work

\* An open circuit keeps every request away that listed its providers later.
THEOREM OpenCircuitAlwaysOnlyStale == Spec => []OpenCircuitOnlyStale
  <1>1. CircuitInv => OpenCircuitOnlyStale
    <2> SUFFICES ASSUME CircuitInv, NEW r \in Threads, thread[r].at = "calling",
                        ~Available(Current(r))
                 PROVE  thread[r].selected + Cooldown <= health[Current(r)].open_until
      BY DEF OpenCircuitOnlyStale
    <2>1. Asking(thread[r])
      BY DEF Asking
    <2>2. PICK p : p = Current(r) /\ p \in thread[r].left /\ p \in Providers
      BY <2>1, CurrentProvider
    <2>3. clock < health[p].open_until
      BY <2>2 DEF Available, CircuitInv, Healths
    <2> QED
      BY <2>1, <2>2, <2>3 DEF CircuitInv, Fresh
  <1> QED
    BY <1>1, CircuitInit, CircuitNext, PTL DEF Spec

------------------------------------------------------------------------------
(* Cost accounting: what a step may do to the money *)

Early == {"idle", "admitted", "calling", "backoff"}
Open == {"storing", "paid", "logging"}

MoneyType ==
    /\ DOMAIN thread = Threads
    /\ spent \in [Tenants -> Nat] /\ usage \in [Tenants -> Nat]
    /\ \A r \in Threads :
          /\ thread[r].at \in Early \cup {"paying"} \cup Open
          /\ thread[r].at # "idle" => thread[r].tenant \in Tenants
          /\ thread[r].at \in {"paying"} \cup Open => thread[r].cost \in Costs
          /\ thread[r].at = "storing" => thread[r].sum \in Nat

\* A request that has no answer to pay for goes on to state q.
Goes(r, q) == thread[r].at \in Early /\ Goto(r, q) /\ UNCHANGED <<spent, usage>>

Quiet(r, q) ==
    /\ Goes(r, q)
    /\ q.at \in Early
    /\ q.at # "idle" => q.tenant \in Tenants

Reserves(r, q) ==
    /\ Goes(r, q)
    /\ q.at = "paying" /\ q.tenant \in Tenants /\ q.cost \in Costs
    /\ spent[q.tenant] + q.cost <= Budget

MoneyStep ==
    \/ UNCHANGED <<spent, usage, thread>>
    \/ \E r \in Threads : \/ \E q : Quiet(r, q) \/ Reserves(r, q)
                          \/ CommitRead(r) \/ CommitStore(r)
                          \/ Recovered(r) \/ Succeed(r)

\* The request of thread r goes on, or ends, without an answer.
GoesOn(r) == \E q : Goto(r, q) /\ q.at \in Early /\ (q.at # "idle" => q.tenant \in Tenants)

LEMMA ReturnGoesOn ==
    ASSUME NEW r, Return(r)
    PROVE  GoesOn(r)
  <1>1. Idle.at = "idle"
    BY DEF Idle
  <1> QED
    BY <1>1 DEF Return, GoesOn, Early

LEMMA CallGoesOn ==
    ASSUME NEW r, thread[r].tenant \in Tenants, NEW left, NEW attempt, Call(r, left, attempt)
    PROVE  GoesOn(r)
  <1>1. PICK q : Goto(r, q) /\ q.at = "calling" /\ q.tenant = thread[r].tenant
    BY DEF Call
  <1> QED
    BY <1>1 DEF GoesOn, Early

LEMMA NextProviderGoesOn ==
    ASSUME NEW r, thread[r].tenant \in Tenants, NextProvider(r)
    PROVE  GoesOn(r)
  BY ReturnGoesOn, CallGoesOn DEF NextProvider

LEMMA NextAttemptGoesOn ==
    ASSUME NEW r, thread[r].tenant \in Tenants, NextAttempt(r)
    PROVE  GoesOn(r)
  BY NextProviderGoesOn, CallGoesOn DEF NextAttempt

LEMMA FailGoesOn ==
    ASSUME NEW r, thread[r].tenant \in Tenants, NEW reason, Fail(r, reason)
    PROVE  GoesOn(r)
  <1>1. PICK q : Goto(r, q) /\ q.at = "backoff" /\ q.tenant = thread[r].tenant
    BY DEF Fail
  <1> QED
    BY <1>1 DEF GoesOn, Early

LEMMA MoneySteps == MoneyType /\ [Next]_vars => MoneyStep
  <1> SUFFICES ASSUME MoneyType, [Next]_vars PROVE MoneyStep
    OBVIOUS
  <1>1. ASSUME NEW r \in Threads, thread[r].at \in Early, GoesOn(r),
               UNCHANGED <<spent, usage>>
        PROVE  MoneyStep
    <2>1. PICK q : Goto(r, q) /\ q.at \in Early /\ (q.at # "idle" => q.tenant \in Tenants)
      BY <1>1 DEF GoesOn
    <2>2. Quiet(r, q)
      BY <1>1, <2>1 DEF Quiet, Goes
    <2> QED
      BY <2>2 DEF MoneyStep
  <1>2. ASSUME NEW r \in Threads, Start(r)
        PROVE  MoneyStep
    <2>1. PICK q : Goto(r, q) /\ q.at = "admitted" /\ q.tenant \in Tenants
      BY <1>2 DEF Start, Admit
    <2>2. GoesOn(r)
      BY <2>1 DEF GoesOn, Early
    <2> QED
      BY <1>1, <1>2, <2>2 DEF Start, Admit, Early
  <1>3. ASSUME NEW r \in Threads, Select(r)
        PROVE  MoneyStep
    <2>1. thread[r].tenant \in Tenants /\ thread[r].at \in Early
      BY <1>3 DEF Select, MoneyType, Early
    <2>2. PICK q : Goto(r, q) /\ q.at = "calling" /\ q.tenant = thread[r].tenant
      BY <1>3 DEF Select
    <2>3. GoesOn(r)
      BY <2>1, <2>2 DEF GoesOn, Early
    <2> QED
      BY <1>1, <1>3, <2>1, <2>3 DEF Select
  <1>4. ASSUME NEW r \in Threads, NoProvider(r) \/ CallRaises(r)
        PROVE  MoneyStep
    BY <1>1, <1>4, ReturnGoesOn DEF NoProvider, CallRaises, Early
  <1>5. ASSUME NEW r \in Threads, ClientError(r) \/ ServerError(r) \/ CallError(r)
        PROVE  MoneyStep
    <2>1. thread[r].tenant \in Tenants /\ thread[r].at \in Early
      BY <1>5 DEF ClientError, ServerError, CallError, MoneyType, Early
    <2>2. GoesOn(r)
      BY <1>5, <2>1, NextProviderGoesOn, NextAttemptGoesOn, FailGoesOn
         DEF ClientError, ServerError, CallError
    <2>3. UNCHANGED <<spent, usage>>
      BY <1>5 DEF ClientError, ServerError, CallError, Fail
    <2> QED
      BY <1>1, <2>1, <2>2, <2>3
  <1>6. ASSUME NEW r \in Threads, EndBackoff(r)
        PROVE  MoneyStep
    <2>1. thread[r].tenant \in Tenants /\ thread[r].at \in Early
      BY <1>6 DEF EndBackoff, MoneyType, Early
    <2>2. GoesOn(r)
      BY <1>6, <2>1, NextProviderGoesOn, NextAttemptGoesOn DEF EndBackoff
    <2> QED
      BY <1>1, <1>6, <2>1, <2>2 DEF EndBackoff
  <1>7. ASSUME NEW r \in Threads, NEW c \in Costs, Answer(r, c)
        PROVE  MoneyStep
    <2>1. thread[r].tenant \in Tenants /\ thread[r].at \in Early
      BY <1>7 DEF Answer, MoneyType, Early
    <2>2. PICK q : /\ Goto(r, q) /\ q.at = "paying" /\ q.tenant = thread[r].tenant
                   /\ q.cost = c
      BY <1>7 DEF Answer
    <2>3. Reserves(r, q)
      BY <1>7, <2>1, <2>2 DEF Reserves, Goes, Answer, Reservable
    <2> QED
      BY <2>3 DEF MoneyStep
  <1>8. ASSUME NEW r \in Threads, NEW c \in Costs, AnswerOverBudget(r, c)
        PROVE  MoneyStep
    <2>1. thread[r].tenant \in Tenants /\ thread[r].at \in Early
      BY <1>8 DEF AnswerOverBudget, MoneyType, Early
    <2>2. GoesOn(r)
      BY <1>8, <2>1, FailGoesOn DEF AnswerOverBudget
    <2> QED
      BY <1>1, <1>8, <2>1, <2>2 DEF AnswerOverBudget, Fail
  <1>9. ASSUME NEW r \in Threads,
               CommitRead(r) \/ CommitStore(r) \/ Recovered(r) \/ Succeed(r)
        PROVE  MoneyStep
    BY <1>9 DEF MoneyStep
  <1>10. CASE Tick \/ UNCHANGED vars
    BY <1>10 DEF Tick, vars, MoneyStep
  <1> QED
    BY <1>2, <1>3, <1>4, <1>5, <1>6, <1>7, <1>8, <1>9, <1>10 DEF Next, Work

LEMMA MoneyInit == Init => MoneyType
  BY DEF Init, Idle, MoneyType, Early, Open

LEMMA MoneyNext == MoneyType /\ MoneyStep => MoneyType'
  <1> SUFFICES ASSUME MoneyType, MoneyStep PROVE MoneyType'
    OBVIOUS
  <1> USE DEF Early, Open
  <1>1. CASE UNCHANGED <<spent, usage, thread>>
    BY <1>1 DEF MoneyType
  <1>2. ASSUME NEW r \in Threads, NEW q, Goto(r, q),
               /\ q.at \in Early \cup {"paying"} \cup Open
               /\ q.at # "idle" => q.tenant \in Tenants
               /\ q.at \in {"paying"} \cup Open => q.cost \in Costs
               /\ q.at = "storing" => q.sum \in Nat,
               spent' \in [Tenants -> Nat], usage' \in [Tenants -> Nat]
        PROVE  MoneyType'
    <2>1. DOMAIN thread' = Threads
      BY <1>2 DEF Goto, MoneyType
    <2>2. ASSUME NEW o \in Threads
          PROVE  thread'[o] = q \/ thread'[o] = thread[o]
      BY <1>2 DEF Goto, MoneyType
    <2>3. ASSUME NEW o \in Threads, NEW u, u = thread'[o]
          PROVE  /\ u.at \in Early \cup {"paying"} \cup Open
                 /\ u.at # "idle" => u.tenant \in Tenants
                 /\ u.at \in {"paying"} \cup Open => u.cost \in Costs
                 /\ u.at = "storing" => u.sum \in Nat
      <3>1. CASE u = q
        BY <1>2, <3>1
      <3>2. CASE u = thread[o]
        BY <3>2 DEF MoneyType
      <3> QED
        BY <2>2, <2>3, <3>1, <3>2
    <2> QED
      BY <1>2, <2>1, <2>3 DEF MoneyType
  <1>3. spent \in [Tenants -> Nat] /\ usage \in [Tenants -> Nat]
    BY DEF MoneyType
  <1>4. ASSUME NEW r \in Threads, NEW q, Quiet(r, q) \/ Reserves(r, q)
        PROVE  MoneyType'
    BY <1>2, <1>3, <1>4 DEF Quiet, Reserves, Goes
  <1>5. ASSUME NEW r \in Threads, CommitRead(r)
        PROVE  MoneyType'
    <2>1. thread[r].tenant \in Tenants /\ thread[r].cost \in Costs /\ thread[r].cost \in Nat
      BY <1>5, TokenAssumption DEF CommitRead, MoneyType
    <2>2. CommittedSum(thread[r]) \in Nat
      BY <1>3, <2>1 DEF CommittedSum
    <2>3. PICK q : /\ Goto(r, q) /\ q.at = "storing" /\ q.tenant = thread[r].tenant
                   /\ q.cost = thread[r].cost /\ q.sum = CommittedSum(thread[r])
      BY <1>5 DEF CommitRead
    <2> QED
      BY <1>2, <1>3, <1>5, <2>1, <2>2, <2>3 DEF CommitRead
  <1>6. ASSUME NEW r \in Threads, CommitStore(r)
        PROVE  MoneyType'
    <2>1. thread[r].tenant \in Tenants /\ thread[r].cost \in Costs /\ thread[r].sum \in Nat
      BY <1>6 DEF CommitStore, MoneyType
    <2>2. PICK q : /\ Goto(r, q) /\ q.at = "paid" /\ q.tenant = thread[r].tenant
                   /\ q.cost = thread[r].cost
      BY <1>6 DEF CommitStore
    <2>3. spent' \in [Tenants -> Nat] /\ usage' = usage
      BY <1>3, <1>6, <2>1 DEF CommitStore
    <2> QED
      BY <1>2, <1>3, <2>1, <2>2, <2>3
  <1>7. ASSUME NEW r \in Threads, Recovered(r)
        PROVE  MoneyType'
    <2>1. thread[r].tenant \in Tenants /\ thread[r].cost \in Costs
      BY <1>7 DEF Recovered, MoneyType
    <2>2. PICK q : /\ Goto(r, q) /\ q.at = "logging" /\ q.tenant = thread[r].tenant
                   /\ q.cost = thread[r].cost
      BY <1>7 DEF Recovered
    <2> QED
      BY <1>2, <1>3, <1>7, <2>1, <2>2 DEF Recovered
  <1>8. ASSUME NEW r \in Threads, Succeed(r)
        PROVE  MoneyType'
    <2>1. thread[r].tenant \in Tenants /\ thread[r].cost \in Nat
      BY <1>8, TokenAssumption DEF Succeed, MoneyType
    <2>2. Goto(r, Idle) /\ Idle.at = "idle" /\ spent' = spent
      BY <1>8 DEF Succeed, Return, Idle
    <2>3. usage' \in [Tenants -> Nat]
      BY <1>3, <1>8, <2>1 DEF Succeed
    <2> QED
      BY <1>2, <1>3, <2>2, <2>3
  <1> QED
    BY <1>1, <1>4, <1>5, <1>6, <1>7, <1>8 DEF MoneyStep

------------------------------------------------------------------------------
(* What a tenant is charged is covered by its usage log and open answers *)

OpenOf(th, t) == {r \in Threads : th[r].at \in Open /\ th[r].tenant = t}

Total(us, th, t) == us[t] + Bill(th, OpenOf(th, t))

\* A sum that commit has read and not yet stored is covered too.
ChargedInv ==
    /\ MoneyType
    /\ \A t \in Tenants : spent[t] <= Total(usage, thread, t)
    /\ \A r \in Threads : thread[r].at = "storing" =>
                             thread[r].sum <= Total(usage, thread, thread[r].tenant)

Costed(th) == \A r \in Threads : th[r].at \in Open => th[r].cost \in Nat

LEMMA MoneyCosted == MoneyType => Costed(thread)
  BY TokenAssumption DEF MoneyType, Costed

LEMMA MoneyCostedNext == MoneyType' => Costed(thread')
  BY TokenAssumption DEF MoneyType, Costed

LEMMA OpenFinite ==
    ASSUME NEW th, NEW t, Costed(th)
    PROVE  IsFiniteSet(OpenOf(th, t)) /\ \A r \in OpenOf(th, t) : th[r].cost \in Nat
  <1>1. OpenOf(th, t) \subseteq Threads
    BY DEF OpenOf
  <1>2. IsFiniteSet(OpenOf(th, t))
    BY <1>1, ThreadAssumption, FS_Subset
  <1> QED
    BY <1>2 DEF OpenOf, Costed

LEMMA TotalNat ==
    ASSUME NEW th, NEW us, NEW t, Costed(th), us[t] \in Nat
    PROVE  Total(us, th, t) \in Nat
  <1>1. Bill(th, OpenOf(th, t)) \in Nat
    BY OpenFinite, BillNat
  <1> QED
    BY <1>1 DEF Total

LEMMA BillKept ==
    ASSUME NEW th, NEW th2, NEW t, Costed(th), OpenOf(th2, t) = OpenOf(th, t),
           \A o \in OpenOf(th, t) : th2[o].cost = th[o].cost
    PROVE  Bill(th2, OpenOf(th2, t)) = Bill(th, OpenOf(th, t))
  <1>1. PICK S : S = OpenOf(th, t)
    OBVIOUS
  <1>2. IsFiniteSet(S) /\ \A o \in S : th[o].cost \in Nat /\ th2[o].cost = th[o].cost
    BY <1>1, OpenFinite
  <1>3. Bill(th2, S) = Bill(th, S)
    BY <1>2, BillSame
  <1> QED
    BY <1>1, <1>3

\* th2 has one open answer more than th, the one of thread r.
LEMMA BillGrows ==
    ASSUME NEW th, NEW th2, NEW t, NEW r, Costed(th), Costed(th2),
           r \notin OpenOf(th, t), OpenOf(th2, t) = OpenOf(th, t) \cup {r},
           \A o \in OpenOf(th, t) : th2[o].cost = th[o].cost
    PROVE  Bill(th2, OpenOf(th2, t)) = th2[r].cost + Bill(th, OpenOf(th, t))
  <1>1. PICK S, S2 : S = OpenOf(th, t) /\ S2 = OpenOf(th2, t)
    OBVIOUS
  <1>2. IsFiniteSet(S2) /\ \A o \in S2 : th2[o].cost \in Nat
    BY <1>1, OpenFinite
  <1>3. IsFiniteSet(S) /\ \A o \in S : th[o].cost \in Nat /\ th2[o].cost = th[o].cost
    BY <1>1, OpenFinite
  <1>4. r \in S2 /\ S2 \ {r} = S
    BY <1>1
  <1>5. Bill(th2, S2) = th2[r].cost + Bill(th2, S2 \ {r})
    BY <1>2, <1>4, BillTakeOut
  <1>6. Bill(th2, S) = Bill(th, S)
    BY <1>3, BillSame
  <1> QED
    BY <1>1, <1>4, <1>5, <1>6

\* A step that moves thread r changes nothing for the others.
LEMMA OthersKept ==
    ASSUME MoneyType, NEW r \in Threads, NEW q, Goto(r, q)
    PROVE  thread'[r] = q /\ \A o \in Threads : o # r => thread'[o] = thread[o]
  BY DEF MoneyType, Goto

LEMMA ChargedNext == ChargedInv /\ [Next]_vars => ChargedInv'
  <1> SUFFICES ASSUME ChargedInv, [Next]_vars PROVE ChargedInv'
    OBVIOUS
  <1>1. MoneyType /\ MoneyStep /\ MoneyType'
    BY MoneySteps, MoneyNext DEF ChargedInv
  <1>2. Costed(thread) /\ Costed(thread')
    BY <1>1, MoneyCosted, MoneyCostedNext
  <1>3. \A t \in Tenants : /\ spent[t] \in Nat /\ usage[t] \in Nat
                           /\ spent'[t] \in Nat /\ usage'[t] \in Nat
    BY <1>1 DEF MoneyType
  <1>4. \A t \in Tenants : Total(usage, thread, t) \in Nat /\ Total(usage', thread', t) \in Nat
    BY <1>2, <1>3, TotalNat
  <1>5. ASSUME \A t \in Tenants : /\ Total(usage, thread, t) <= Total(usage', thread', t)
                                  /\ spent'[t] = spent[t]
                                     \/ spent'[t] <= Total(usage', thread', t),
               \A o \in Threads : thread'[o].at = "storing" =>
                  thread'[o] = thread[o]
                  \/ thread'[o].sum <= Total(usage', thread', thread'[o].tenant)
        PROVE  ChargedInv'
    <2>1. ASSUME NEW t \in Tenants
          PROVE  spent'[t] <= Total(usage', thread', t)
      <3>1. spent[t] <= Total(usage, thread, t)
        BY DEF ChargedInv
      <3>2. CASE spent'[t] = spent[t]
        BY <1>3, <1>4, <1>5, <3>1, <3>2
      <3> QED
        BY <1>5, <3>2
    <2>2. ASSUME NEW o \in Threads, thread'[o].at = "storing"
          PROVE  thread'[o].sum <= Total(usage', thread', thread'[o].tenant)
      <3>1. CASE thread'[o] = thread[o]
        <4>1. PICK t : /\ t = thread[o].tenant /\ t \in Tenants
                       /\ thread[o].sum <= Total(usage, thread, t) /\ thread[o].sum \in Nat
          BY <1>1, <2>2, <3>1 DEF ChargedInv, MoneyType
        <4> QED
          BY <1>4, <1>5, <3>1, <4>1
      <3> QED
        BY <1>5, <2>2, <3>1
    <2> QED
      BY <1>1, <2>1, <2>2 DEF ChargedInv
  <1>6. CASE UNCHANGED <<spent, usage, thread>>
    BY <1>6 DEF ChargedInv, MoneyType
  <1>7. ASSUME NEW r \in Threads, NEW q, Quiet(r, q) \/ Reserves(r, q)
        PROVE  ChargedInv'
    <2>1. /\ Goto(r, q) /\ UNCHANGED <<spent, usage>>
          /\ thread[r].at \in Early /\ q.at \in Early \cup {"paying"}
      BY <1>7 DEF Quiet, Reserves, Goes
    <2>2. thread'[r] = q /\ \A o \in Threads : o # r => thread'[o] = thread[o]
      BY <1>1, <2>1, OthersKept
    <2>3. ASSUME NEW t \in Tenants
          PROVE  Total(usage', thread', t) = Total(usage, thread, t)
      <3>1. OpenOf(thread', t) = OpenOf(thread, t) /\ r \notin OpenOf(thread, t)
        BY <2>1, <2>2 DEF OpenOf, Early, Open
      <3>2. \A o \in OpenOf(thread, t) : thread'[o].cost = thread[o].cost
        BY <2>2, <3>1 DEF OpenOf
      <3> QED
        BY <1>2, <2>1, <3>1, <3>2, BillKept DEF Total
    <2>4. \A o \in Threads : thread'[o].at = "storing" => thread'[o] = thread[o]
      BY <2>1, <2>2 DEF Early
    <2> QED
      BY <1>4, <1>5, <2>1, <2>3, <2>4
  <1>8. ASSUME NEW r \in Threads, CommitRead(r)
        PROVE  ChargedInv'
    <2>1. PICK q, t0, c : /\ Goto(r, q) /\ q.at = "storing" /\ q.tenant = t0
                          /\ t0 = thread[r].tenant /\ c = thread[r].cost
                          /\ q.cost = c /\ q.sum = spent[t0] + c
      BY <1>8 DEF CommitRead, CommittedSum
    <2>2. thread[r].at = "paying" /\ UNCHANGED <<spent, usage>> /\ t0 \in Tenants /\ c \in Nat
      BY <1>1, <1>8, <2>1, TokenAssumption DEF CommitRead, MoneyType
    <2>3. thread'[r] = q /\ \A o \in Threads : o # r => thread'[o] = thread[o]
      BY <1>1, <2>1, OthersKept
    <2>4. ASSUME NEW t \in Tenants, t # t0
          PROVE  Total(usage', thread', t) = Total(usage, thread, t)
      <3>1. OpenOf(thread', t) = OpenOf(thread, t) /\ r \notin OpenOf(thread, t)
        BY <2>1, <2>2, <2>3, <2>4 DEF OpenOf, Open
      <3>2. \A o \in OpenOf(thread, t) : thread'[o].cost = thread[o].cost
        BY <2>3, <3>1 DEF OpenOf
      <3> QED
        BY <1>2, <2>2, <3>1, <3>2, BillKept DEF Total
    <2>5. Total(usage', thread', t0) = Total(usage, thread, t0) + c
      <3>1. r \notin OpenOf(thread, t0) /\ OpenOf(thread', t0) = OpenOf(thread, t0) \cup {r}
        BY <2>1, <2>2, <2>3 DEF OpenOf, Open
      <3>2. \A o \in OpenOf(thread, t0) : thread'[o].cost = thread[o].cost
        BY <2>3, <3>1 DEF OpenOf
      <3>3. PICK th2 : th2 = thread'
        OBVIOUS
      <3>4. Bill(th2, OpenOf(th2, t0)) = th2[r].cost + Bill(thread, OpenOf(thread, t0))
        BY <1>2, <3>1, <3>2, <3>3, BillGrows
      <3>5. Bill(thread, OpenOf(thread, t0)) \in Nat
        BY <1>2, OpenFinite, BillNat
      <3> QED
        BY <1>3, <2>1, <2>2, <2>3, <3>3, <3>4, <3>5 DEF Total
    <2>6. q.sum <= Total(usage', thread', t0)
      <3>1. spent[t0] <= Total(usage, thread, t0)
        BY <2>2 DEF ChargedInv
      <3> QED
        BY <1>3, <1>4, <2>1, <2>2, <2>5, <3>1
    <2>7. \A t \in Tenants : Total(usage, thread, t) <= Total(usage', thread', t)
      BY <1>4, <2>2, <2>4, <2>5
    <2>8. \A o \in Threads : thread'[o].at = "storing" =>
             thread'[o] = thread[o]
             \/ thread'[o].sum <= Total(usage', thread', thread'[o].tenant)
      BY <2>1, <2>3, <2>6
    <2> QED
      BY <1>5, <2>2, <2>7, <2>8
  <1>9. ASSUME NEW r \in Threads, NEW q, Goto(r, q),
               q.at \in Open \ {"storing"}, thread[r].at \in Open,
               q.tenant = thread[r].tenant, q.cost = thread[r].cost,
               UNCHANGED usage,
               \A t \in Tenants : spent'[t] = spent[t] \/ spent'[t] <= Total(usage, thread, t)
        PROVE  ChargedInv'
    <2>1. thread'[r] = q /\ \A o \in Threads : o # r => thread'[o] = thread[o]
      BY <1>1, <1>9, OthersKept
    <2>2. ASSUME NEW t \in Tenants
          PROVE  Total(usage', thread', t) = Total(usage, thread, t)
      <3>1. OpenOf(thread', t) = OpenOf(thread, t)
        BY <1>9, <2>1 DEF OpenOf, Open
      <3>2. \A o \in OpenOf(thread, t) : thread'[o].cost = thread[o].cost
        BY <1>9, <2>1 DEF OpenOf
      <3> QED
        BY <1>2, <1>9, <3>1, <3>2, BillKept DEF Total
    <2>3. \A o \in Threads : thread'[o].at = "storing" => thread'[o] = thread[o]
      BY <1>9, <2>1
    <2> QED
      BY <1>4, <1>5, <1>9, <2>2, <2>3
  <1>10. ASSUME NEW r \in Threads, CommitStore(r)
         PROVE  ChargedInv'
    <2>1. PICK q : /\ Goto(r, q) /\ q.at = "paid" /\ q.tenant = thread[r].tenant
                   /\ q.cost = thread[r].cost
      BY <1>10 DEF CommitStore
    <2>2. thread[r].sum <= Total(usage, thread, thread[r].tenant)
      BY <1>10 DEF CommitStore, ChargedInv
    <2>3. \A t \in Tenants : spent'[t] = spent[t] \/ spent'[t] <= Total(usage, thread, t)
      BY <1>1, <1>10, <2>2 DEF CommitStore, MoneyType
    <2> QED
      BY <1>9, <1>10, <2>1, <2>3 DEF CommitStore, Open
  <1>11. ASSUME NEW r \in Threads, Recovered(r)
         PROVE  ChargedInv'
    <2>1. PICK q : /\ Goto(r, q) /\ q.at = "logging" /\ q.tenant = thread[r].tenant
                   /\ q.cost = thread[r].cost
      BY <1>11 DEF Recovered
    <2> QED
      BY <1>9, <1>11, <2>1 DEF Recovered, Open
  <1>12. ASSUME NEW r \in Threads, Succeed(r)
         PROVE  ChargedInv'
    <2>1. PICK t0, c : t0 = thread[r].tenant /\ c = thread[r].cost
      OBVIOUS
    <2>2. /\ thread[r].at = "logging" /\ UNCHANGED spent /\ t0 \in Tenants /\ c \in Nat
          /\ usage' = [usage EXCEPT ![t0] = @ + c]
      BY <1>1, <1>12, <2>1, TokenAssumption DEF Succeed, MoneyType, Open
    <2>3. Goto(r, Idle) /\ Idle.at = "idle"
      BY <1>12 DEF Succeed, Return, Idle
    <2>4. thread'[r] = Idle /\ \A o \in Threads : o # r => thread'[o] = thread[o]
      BY <1>1, <2>3, OthersKept
    <2>5. ASSUME NEW t \in Tenants, t # t0
          PROVE  Total(usage', thread', t) = Total(usage, thread, t)
      <3>1. OpenOf(thread', t) = OpenOf(thread, t) /\ r \notin OpenOf(thread, t)
        BY <2>1, <2>3, <2>4, <2>5 DEF OpenOf, Open
      <3>2. \A o \in OpenOf(thread, t) : thread'[o].cost = thread[o].cost
        BY <2>4, <3>1 DEF OpenOf
      <3>3. usage'[t] = usage[t]
        BY <1>1, <2>2, <2>5 DEF MoneyType
      <3> QED
        BY <1>2, <3>1, <3>2, <3>3, BillKept DEF Total
    <2>6. Total(usage', thread', t0) = Total(usage, thread, t0)
      <3>1. r \notin OpenOf(thread', t0) /\ OpenOf(thread, t0) = OpenOf(thread', t0) \cup {r}
        BY <2>1, <2>2, <2>3, <2>4 DEF OpenOf, Open
      <3>2. \A o \in OpenOf(thread', t0) : thread[o].cost = thread'[o].cost
        BY <2>4, <3>1 DEF OpenOf
      <3>3. PICK th2 : th2 = thread'
        OBVIOUS
      <3>4. Bill(thread, OpenOf(thread, t0)) = thread[r].cost + Bill(th2, OpenOf(th2, t0))
        <4>1. PICK th : th = thread
          OBVIOUS
        <4>2. /\ Costed(th) /\ Costed(th2) /\ r \notin OpenOf(th2, t0)
              /\ OpenOf(th, t0) = OpenOf(th2, t0) \cup {r}
              /\ \A o \in OpenOf(th2, t0) : th[o].cost = th2[o].cost
          BY <1>2, <3>1, <3>2, <3>3, <4>1
        <4>3. Bill(th, OpenOf(th, t0)) = th[r].cost + Bill(th2, OpenOf(th2, t0))
          BY <4>2, BillGrows
        <4> QED
          BY <4>1, <4>3
      <3>5. Bill(th2, OpenOf(th2, t0)) \in Nat
        BY <1>2, <3>3, OpenFinite, BillNat
      <3>6. usage'[t0] = usage[t0] + c
        BY <1>1, <2>2 DEF MoneyType
      <3> QED
        BY <1>3, <2>1, <2>2, <3>3, <3>4, <3>5, <3>6 DEF Total
    <2>7. \A t \in Tenants : Total(usage, thread, t) <= Total(usage', thread', t)
      BY <1>4, <2>5, <2>6
    <2>8. \A o \in Threads : thread'[o].at = "storing" => thread'[o] = thread[o]
      BY <2>3, <2>4
    <2> QED
      BY <1>5, <2>2, <2>7, <2>8
  <1> QED
    BY <1>1, <1>6, <1>7, <1>8, <1>10, <1>11, <1>12 DEF MoneyStep

LEMMA ChargedInit == Init => ChargedInv
  <1> SUFFICES ASSUME Init PROVE ChargedInv
    OBVIOUS
  <1>1. MoneyType /\ Costed(thread)
    BY MoneyInit, MoneyCosted
  <1>2. ASSUME NEW t \in Tenants
        PROVE  spent[t] <= Total(usage, thread, t)
    <2>1. Total(usage, thread, t) \in Nat
      BY <1>1, TotalNat DEF MoneyType
    <2> QED
      BY <2>1 DEF Init
  <1>3. \A r \in Threads : thread[r].at # "storing"
    BY DEF Init, Idle
  <1> QED
    BY <1>1, <1>2, <1>3 DEF ChargedInv

\* What a tenant is charged never exceeds what its usage log and the answers
\* being accounted for show, however the commits of any number of threads
\* overlap.
THEOREM AlwaysChargedForUsage == Spec => []ChargedForUsage
  <1>1. ChargedInv => ChargedForUsage
    <2> SUFFICES ASSUME ChargedInv PROVE ChargedForUsage
      OBVIOUS
    <2>1. \A t \in Tenants : spent[t] <= Total(usage, thread, t)
      BY DEF ChargedInv
    <2> QED
      BY <2>1 DEF ChargedForUsage, Total, Bill, OpenOf, Open
  <1> QED
    BY <1>1, ChargedInit, ChargedNext, PTL DEF Spec

------------------------------------------------------------------------------
(* Two requests exceed a budget by one answer at most *)

Two == Cardinality(Threads) = 2

\* What a tenant may be charged.
Over(x) == x <= Budget \/ (Two /\ \E c \in Costs : x <= Budget + c)

\* What commit of state q is about to store is within the bound, and either
\* within the budget or no more than it would be if commit started now.
Single(sp, q) ==
    /\ q.at = "paying" => Over(sp[q.tenant] + q.cost)
    /\ q.at = "storing" =>
          /\ Over(q.sum)
          /\ q.sum <= Budget \/ q.sum <= sp[q.tenant] + q.cost

\* Two requests of a tenant: one of the two answers being paid is within the
\* budget, and a sum that was read late takes the other one into account.
Pair(sp, q, u) ==
    /\ q.at = "paying" /\ u.at = "paying" /\ q.tenant = u.tenant =>
          sp[q.tenant] + q.cost <= Budget \/ sp[q.tenant] + u.cost <= Budget
    /\ q.at = "storing" /\ u.at = "paying" /\ q.tenant = u.tenant =>
          /\ sp[q.tenant] + u.cost <= Budget \/ sp[q.tenant] <= q.sum
          /\ Over(q.sum + u.cost)
    /\ q.at = "storing" /\ u.at = "storing" /\ q.tenant = u.tenant =>
          q.sum <= Budget \/ q.sum <= u.sum + q.cost

OverInv ==
    /\ MoneyType
    /\ Cardinality(Threads) <= 2 =>
          /\ \A t \in Tenants : Over(spent[t])
          /\ \A r \in Threads : Single(spent, thread[r])
          /\ \A r, o \in Threads : r # o => Pair(spent, thread[r], thread[o])

LEMMA OverBy ==
    ASSUME NEW x, Two, NEW c \in Costs, x <= Budget + c
    PROVE  Over(x)
  BY DEF Over

LEMMA TwoThreads ==
    ASSUME Cardinality(Threads) <= 2, NEW r \in Threads, NEW o \in Threads, r # o
    PROVE  Two /\ \A x \in Threads : x = r \/ x = o
  <1>1. Cardinality({r, o}) = 2 /\ IsFiniteSet({r, o})
    <2>1. IsFiniteSet({r}) /\ Cardinality({r}) = 1
      BY FS_Singleton
    <2>2. IsFiniteSet({r} \cup {o}) /\ Cardinality({r} \cup {o}) = Cardinality({r}) + 1
      BY <2>1, FS_AddElement
    <2>3. {r} \cup {o} = {r, o}
      OBVIOUS
    <2> QED
      BY <2>1, <2>2, <2>3
  <1>2. {r, o} \subseteq Threads
    OBVIOUS
  <1>3. Cardinality(Threads) \in Nat /\ Cardinality({r, o}) <= Cardinality(Threads)
    BY <1>2, ThreadAssumption, FS_CardinalityType, FS_Subset
  <1>4. Two
    BY <1>1, <1>3 DEF Two
  <1>5. {r, o} = Threads
    BY <1>1, <1>2, <1>4, ThreadAssumption, FS_Subset DEF Two
  <1> QED
    BY <1>4, <1>5

LEMMA OverStep ==
    ASSUME OverInv, MoneyType', Cardinality(Threads) <= 2,
           NEW r \in Threads, NEW q, Goto(r, q),
           \A t \in Tenants : Over(spent'[t]), Single(spent', q),
           \A o \in Threads : o # r => /\ Single(spent', thread[o])
                                       /\ Pair(spent', q, thread[o])
                                       /\ Pair(spent', thread[o], q)
    PROVE  OverInv'
  <1>1. thread'[r] = q /\ \A o \in Threads : o # r => thread'[o] = thread[o]
    BY OthersKept DEF OverInv
  <1>2. \A o \in Threads : Single(spent', thread'[o])
    BY <1>1
  <1>3. ASSUME NEW o \in Threads, NEW x \in Threads, o # x
        PROVE  Pair(spent', thread'[o], thread'[x])
    <2>1. r = o \/ r = x
      BY <1>3, TwoThreads
    <2> QED
      BY <1>1, <1>3, <2>1
  <1> QED
    BY <1>2, <1>3 DEF OverInv

LEMMA OverInit == Init => OverInv
  <1> SUFFICES ASSUME Init PROVE OverInv
    OBVIOUS
  <1>1. \A t \in Tenants : Over(spent[t])
    <2>1. 0 <= Budget
      BY PolicyAssumption
    <2> QED
      BY <2>1 DEF Init, Over
  <1>2. \A r \in Threads : thread[r].at = "idle"
    BY DEF Init, Idle
  <1> QED
    BY <1>1, <1>2, MoneyInit DEF OverInv, Single, Pair

LEMMA OverNext == OverInv /\ [Next]_vars => OverInv'
  <1> SUFFICES ASSUME OverInv, [Next]_vars PROVE OverInv'
    OBVIOUS
  <1>1. MoneyType /\ MoneyStep /\ MoneyType'
    BY MoneySteps, MoneyNext DEF OverInv
  <1>2. SUFFICES ASSUME Cardinality(Threads) <= 2 PROVE OverInv'
    BY <1>1 DEF OverInv
  <1>3. /\ \A t \in Tenants : Over(spent[t])
        /\ \A r \in Threads : Single(spent, thread[r])
        /\ \A r, o \in Threads : r # o => Pair(spent, thread[r], thread[o])
    BY <1>2 DEF OverInv
  <1>4. /\ Budget \in Nat /\ Costs \subseteq Nat
        /\ \A t \in Tenants : spent[t] \in Nat
    BY <1>1, PolicyAssumption, TokenAssumption DEF MoneyType
  <1>5. \A o \in Threads :
           /\ thread[o].at # "idle" => thread[o].tenant \in Tenants
           /\ thread[o].at \in {"paying", "storing"} => thread[o].cost \in Costs
           /\ thread[o].at = "storing" => thread[o].sum \in Nat
    BY <1>1 DEF MoneyType, Open
  <1>6. CASE UNCHANGED <<spent, usage, thread>>
    BY <1>1, <1>3, <1>6 DEF OverInv
  \* A state that pays for nothing concerns nobody.
  <1>7. ASSUME NEW r \in Threads, NEW q, Goto(r, q), UNCHANGED spent,
               q.at \notin {"paying", "storing"}
        PROVE  OverInv'
    <2>1. Single(spent, q) /\ \A o \in Threads : Pair(spent, q, thread[o])
                                                 /\ Pair(spent, thread[o], q)
      BY <1>7 DEF Single, Pair
    <2> QED
      BY <1>1, <1>2, <1>3, <1>7, <2>1, OverStep
  <1>8. ASSUME NEW r \in Threads, NEW q, Quiet(r, q)
        PROVE  OverInv'
    BY <1>7, <1>8 DEF Quiet, Goes, Early
  <1>9. ASSUME NEW r \in Threads, NEW q, Reserves(r, q)
        PROVE  OverInv'
    <2>1. PICK t, c : /\ t = q.tenant /\ c = q.cost /\ q.at = "paying"
                      /\ t \in Tenants /\ c \in Costs /\ spent[t] + c <= Budget
      BY <1>9 DEF Reserves
    <2>2. Goto(r, q) /\ UNCHANGED spent
      BY <1>9 DEF Reserves, Goes
    <2>3. Single(spent, q)
      BY <2>1 DEF Single, Over
    <2>4. ASSUME NEW o \in Threads, o # r
          PROVE  Pair(spent, q, thread[o]) /\ Pair(spent, thread[o], q)
      <3>1. Pair(spent, q, thread[o])
        BY <2>1 DEF Pair
      <3>2. ASSUME thread[o].at = "storing", thread[o].tenant = t
            PROVE  Over(thread[o].sum + c)
        <4>1. Two
          BY <1>2, <2>4, TwoThreads
        <4>2. PICK x, d : /\ x = thread[o].sum /\ d = thread[o].cost
                          /\ x \in Nat /\ d \in Costs
                          /\ x <= Budget \/ x <= spent[t] + d
          BY <1>3, <1>5, <3>2 DEF Single
        <4>3. x + c <= Budget + c \/ x + c <= Budget + d
          <5>1. x \in Nat /\ c \in Nat /\ d \in Nat /\ spent[t] \in Nat /\ Budget \in Nat
            BY <1>4, <2>1, <4>2
          <5> QED
            BY <2>1, <4>2, <5>1
        <4> QED
          BY <2>1, <4>1, <4>2, <4>3, OverBy
      <3>3. Pair(spent, thread[o], q)
        BY <2>1, <3>2 DEF Pair
      <3> QED
        BY <3>1, <3>3
    <2> QED
      BY <1>1, <1>2, <1>3, <2>2, <2>3, <2>4, OverStep
  <1>10. ASSUME NEW r \in Threads, CommitRead(r)
         PROVE  OverInv'
    <2>1. PICK q, t, c : /\ Goto(r, q) /\ q.at = "storing" /\ q.tenant = t
                         /\ t = thread[r].tenant /\ c = thread[r].cost
                         /\ q.cost = c /\ q.sum = spent[t] + c
      BY <1>10 DEF CommitRead, CommittedSum
    <2>2. thread[r].at = "paying" /\ UNCHANGED spent /\ t \in Tenants /\ c \in Costs
      BY <1>5, <1>10, <2>1 DEF CommitRead
    <2>3. c \in Nat /\ spent[t] \in Nat /\ q.sum \in Nat
      BY <1>4, <2>1, <2>2
    <2>4. Single(spent, q)
      <3>1. Over(spent[t] + c)
        BY <1>3, <2>1, <2>2 DEF Single
      <3>2. q.sum <= spent[q.tenant] + q.cost
        BY <2>1, <2>3
      <3> QED
        BY <2>1, <3>1, <3>2 DEF Single
    <2>5. ASSUME NEW o \in Threads, o # r
          PROVE  Pair(spent, q, thread[o]) /\ Pair(spent, thread[o], q)
      <3>1. Pair(spent, thread[r], thread[o]) /\ Pair(spent, thread[o], thread[r])
        BY <1>3, <2>5
      <3>2. ASSUME thread[o].at = "paying", thread[o].tenant = t
            PROVE  spent[t] <= q.sum /\ Over(q.sum + thread[o].cost)
        <4>1. PICK d : d = thread[o].cost /\ d \in Costs /\ d \in Nat
          BY <1>4, <1>5, <3>2
        <4>2. spent[t] + c <= Budget \/ spent[t] + d <= Budget
          BY <2>1, <2>2, <3>1, <3>2, <4>1 DEF Pair
        <4>3. q.sum + d <= Budget + d \/ q.sum + d <= Budget + c
          BY <1>4, <2>1, <2>3, <4>1, <4>2
        <4>4. Two
          BY <1>2, <2>5, TwoThreads
        <4>5. Over(q.sum + d)
          BY <2>2, <4>1, <4>3, <4>4, OverBy
        <4> QED
          BY <2>1, <2>3, <4>1, <4>5
      <3>3. ASSUME thread[o].at = "storing", thread[o].tenant = t
            PROVE  /\ q.sum <= Budget \/ q.sum <= thread[o].sum + c
                   /\ \/ thread[o].sum <= Budget
                      \/ thread[o].sum <= q.sum + thread[o].cost
        <4>1. PICK d, x : /\ d = thread[o].cost /\ d \in Nat
                          /\ x = thread[o].sum /\ x \in Nat
          BY <1>4, <1>5, <3>3
        <4>2. spent[t] + c <= Budget \/ spent[t] <= x
          BY <2>1, <2>2, <3>1, <3>3, <4>1 DEF Pair
        <4>3. x <= Budget \/ x <= spent[t] + d
          BY <1>3, <3>3, <4>1 DEF Single
        <4> QED
          BY <1>4, <2>1, <2>3, <4>1, <4>2, <4>3
      <3> QED
        BY <2>1, <3>2, <3>3 DEF Pair
    <2> QED
      BY <1>1, <1>2, <1>3, <2>1, <2>2, <2>4, <2>5, OverStep
  <1>11. ASSUME NEW r \in Threads, CommitStore(r)
         PROVE  OverInv'
    <2>1. PICK q, t, x : /\ Goto(r, q) /\ q.at = "paid" /\ thread[r].at = "storing"
                         /\ t = thread[r].tenant /\ x = thread[r].sum
                         /\ spent' = [spent EXCEPT ![t] = x]
      BY <1>11 DEF CommitStore
    <2>2. t \in Tenants /\ x \in Nat /\ Over(x)
      BY <1>3, <1>5, <2>1 DEF Single
    <2>3. spent'[t] = x /\ \A s \in Tenants : s # t => spent'[s] = spent[s]
      BY <1>1, <2>1, <2>2 DEF MoneyType
    <2>4. \A s \in Tenants : Over(spent'[s])
      BY <1>3, <2>2, <2>3
    <2>5. Single(spent', q) /\ \A o \in Threads : Pair(spent', q, thread[o])
                                                  /\ Pair(spent', thread[o], q)
      BY <2>1 DEF Single, Pair
    <2>6. ASSUME NEW o \in Threads, o # r
          PROVE  Single(spent', thread[o])
      <3>1. Pair(spent, thread[r], thread[o]) /\ Pair(spent, thread[o], thread[r])
        BY <1>3, <2>6
      <3>2. CASE thread[o].at = "paying"
        <4>1. CASE thread[o].tenant = t
          BY <2>1, <2>3, <3>1, <3>2, <4>1 DEF Single, Pair
        <4>2. CASE thread[o].tenant # t
          BY <1>3, <1>5, <2>3, <3>2, <4>2 DEF Single
        <4> QED
          BY <4>1, <4>2
      <3>3. CASE thread[o].at = "storing"
        <4>1. CASE thread[o].tenant = t
          BY <1>3, <2>1, <2>3, <3>1, <3>3, <4>1 DEF Single, Pair
        <4>2. CASE thread[o].tenant # t
          BY <1>3, <1>5, <2>3, <3>3, <4>2 DEF Single
        <4> QED
          BY <4>1, <4>2
      <3> QED
        BY <3>2, <3>3 DEF Single
    <2> QED
      BY <1>1, <1>2, <2>1, <2>4, <2>5, <2>6, OverStep
  <1>12. ASSUME NEW r \in Threads, Recovered(r)
         PROVE  OverInv'
    <2>1. PICK q : Goto(r, q) /\ q.at = "logging"
      BY <1>12 DEF Recovered
    <2> QED
      BY <1>7, <1>12, <2>1 DEF Recovered
  <1>13. ASSUME NEW r \in Threads, Succeed(r)
         PROVE  OverInv'
    <2>1. PICK q : Goto(r, q) /\ q.at = "idle"
      BY <1>13 DEF Succeed, Return, Idle
    <2> QED
      BY <1>7, <1>13, <2>1 DEF Succeed
  <1> QED
    BY <1>1, <1>6, <1>8, <1>9, <1>10, <1>11, <1>12, <1>13 DEF MoneyStep

\* One request at a time stays within the budget of its tenant; two exceed it
\* by one answer at most, whatever the prices and however their checks and
\* commits interleave.
THEOREM OverspendAlwaysBounded == Spec => []OverspendBounded
  <1>1. OverInv => OverspendBounded
    BY DEF OverInv, OverspendBounded, Over, Two
  <1> QED
    BY <1>1, OverInit, OverNext, PTL DEF Spec
=============================================================================
