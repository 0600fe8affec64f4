----------------------------- MODULE RedisProofs -----------------------------
(***************************************************************************)
(* What the replicas share through one Redis server: theorems about        *)
(* RateLimit, for any number of replicas, any rules, windows and limits,   *)
(* as long as the clocks of the replicas differ by no more than the grace  *)
(* period of the keys (SkewAssumption), and about RedisLock, for any       *)
(* number of clients, any ttl and any timeout.                             *)
(***************************************************************************)
EXTENDS RateLimit, RedisLock, TLAPS

------------------------------------------------------------------------------
(* RateLimit *)

\* A key that was counted outlives its window, by the clock of every replica.
KeysOutliveWindow ==
    \A k \in Keys, r \in Replicas, t \in Nat :
        counters[k].count # 0 /\ (t + Ahead[r]) \div Window = k[2]
        => t < counters[k].expires

\* Every request that was let through has been counted.
AdmittedCounted == \A k \in GuardedKeys : admitted[k] <= counters[k].count

RateInv ==
    /\ RateTypeOK
    /\ KeysOutliveWindow
    /\ AdmittedCounted
    /\ LimitPerWindow

\* Two clocks that show the same window while they differ by at most the
\* grace period: the later moment is before the expiry set at the other one.
LEMMA SameWindow ==
    ASSUME NEW t0 \in Nat, NEW t1 \in Nat, NEW r0 \in Replicas, NEW r1 \in Replicas,
           (t0 + Ahead[r0]) \div Window = (t1 + Ahead[r1]) \div Window
    PROVE  t1 < t0 + Window + Grace
  <1> DEFINE x == t0 + Ahead[r0]
             y == t1 + Ahead[r1]
  <1>1. /\ x \in Nat /\ y \in Nat /\ Window \in Nat \ {0}
        /\ Ahead[r0] \in Nat /\ Ahead[r1] \in Nat /\ Grace \in Nat
        /\ Ahead[r0] <= Ahead[r1] + Grace
    BY ClockAssumption, SkewAssumption
  <1>2. \A a, b \in Nat, w \in Nat \ {0} : a \div w = b \div w => b < a + w
    <2> SUFFICES ASSUME NEW a \in Nat, NEW b \in Nat, NEW w \in Nat \ {0},
                        a \div w = b \div w
                 PROVE  b < a + w
      OBVIOUS
    <2>1. a = w * (a \div w) + (a % w) /\ a % w \in 0..(w - 1)
      OBVIOUS
    <2>2. b = w * (b \div w) + (b % w) /\ b % w \in 0..(w - 1)
      OBVIOUS
    <2> DEFINE p == w * (a \div w)
    <2>3. p \in Int /\ a = p + (a % w) /\ b = p + (b % w)
      BY <2>1, <2>2
    <2> HIDE DEF p
    <2> QED BY <2>1, <2>2, <2>3
  <1>3. y < x + Window
    BY <1>1, <1>2
  <1> QED BY <1>1, <1>3

LEMMA RateInitInv == RateInit => RateInv
  <1> SUFFICES ASSUME RateInit PROVE RateInv
    OBVIOUS
  <1>1. \A k \in GuardedKeys : k \in Keys /\ k[1] \in Scopes
    BY LimitAssumption DEF GuardedKeys, Keys
  <1>2. RateTypeOK
    BY DEF RateInit, RateTypeOK
  <1>3. KeysOutliveWindow
    BY DEF RateInit, KeysOutliveWindow
  <1>4. AdmittedCounted
    BY <1>1 DEF RateInit, AdmittedCounted
  <1>5. LimitPerWindow
    BY <1>1, LimitAssumption DEF RateInit, LimitPerWindow
  <1> QED BY <1>2, <1>3, <1>4, <1>5 DEF RateInv

\* The key a replica uses now, if it was counted before, has not expired.
LEMMA CountIsCurrent ==
    ASSUME RateInv, NEW r \in Replicas, NEW k \in Keys, k[2] = Bucket(r)
    PROVE  Count(k) = counters[k].count
  <1>1. time \in Nat /\ counters[k].count \in Nat /\ counters[k].expires \in Nat
    BY DEF RateInv, RateTypeOK
  <1>2. counters[k].count # 0 => time < counters[k].expires
    BY <1>1 DEF RateInv, KeysOutliveWindow, Bucket
  <1> QED BY <1>1, <1>2 DEF Count

\* The pipeline counts every rule of the request and renews the expiry.
LEMMA IncrCounts ==
    ASSUME RateInv, NEW r \in Replicas, NEW rules \in RuleSets, Incr(r, rules),
           UNCHANGED time
    PROVE  /\ counters' \in [Keys -> [count: Nat, expires: Nat]]
           /\ KeysOutliveWindow'
           /\ \A k \in Keys : counters'[k].count =
                 IF k \in KeysOf(r, rules) THEN counters[k].count + 1
                                           ELSE counters[k].count
  <1> DEFINE mine == KeysOf(r, rules)
  <1>1. /\ time \in Nat /\ Window \in Nat /\ Grace \in Nat
        /\ counters \in [Keys -> [count: Nat, expires: Nat]]
    BY ClockAssumption DEF RateInv, RateTypeOK
  <1>2. \A k \in mine : k[2] = Bucket(r)
    BY DEF KeysOf
  <1>3. ASSUME NEW k \in Keys, k \in mine
        PROVE  /\ counters'[k].count = counters[k].count + 1
               /\ counters'[k].expires = time + Window + Grace
               /\ counters'[k] \in [count: Nat, expires: Nat]
    <2>1. Count(k) = counters[k].count /\ counters[k].count \in Nat
      BY <1>1, <1>2, <1>3, CountIsCurrent
    <2>2. counters'[k] = [count |-> Count(k) + 1, expires |-> time + Window + Grace]
      BY <1>3 DEF Incr
    <2> QED BY <1>1, <2>1, <2>2
  <1>4. ASSUME NEW k \in Keys, k \notin mine PROVE counters'[k] = counters[k]
    BY <1>4 DEF Incr
  <1>5. DOMAIN counters' = Keys /\ counters' = [k \in Keys |-> counters'[k]]
    BY DEF Incr
  <1> HIDE DEF mine
  <1>6. counters' \in [Keys -> [count: Nat, expires: Nat]]
    BY <1>1, <1>3, <1>4, <1>5
  <1>7. KeysOutliveWindow'
    <2> SUFFICES ASSUME NEW k \in Keys, NEW s \in Replicas, NEW t \in Nat,
                        counters'[k].count # 0, (t + Ahead[s]) \div Window = k[2]
                 PROVE  t < counters'[k].expires
      BY DEF KeysOutliveWindow, Keys, Buckets
    <2>1. CASE k \in mine
      <3>1. (time + Ahead[r]) \div Window = (t + Ahead[s]) \div Window
        BY <1>2, <2>1 DEF Bucket
      <3>2. t < time + Window + Grace
        BY <1>1, <3>1, SameWindow
      <3> QED BY <1>3, <2>1, <3>2
    <2>2. CASE k \notin mine
      BY <1>4, <2>2 DEF RateInv, KeysOutliveWindow
    <2> QED BY <2>1, <2>2
  <1>8. \A k \in Keys : counters'[k].count =
           IF k \in mine THEN counters[k].count + 1 ELSE counters[k].count
    BY <1>3, <1>4
  <1> QED BY <1>6, <1>7, <1>8 DEF mine

LEMMA AllowsInv ==
    ASSUME RateInv, NEW r \in Replicas, NEW rules \in RuleSets,
           CheckAllows(r, rules)
    PROVE  RateInv'
  <1>1. /\ \A k \in KeysOf(r, rules) : Within(k)
        /\ Incr(r, rules) /\ LetThrough(r, rules) /\ UNCHANGED time
    BY DEF CheckAllows
  <1>2. /\ counters' \in [Keys -> [count: Nat, expires: Nat]]
        /\ KeysOutliveWindow'
        /\ \A k \in Keys : counters'[k].count =
              IF k \in KeysOf(r, rules) THEN counters[k].count + 1
                                        ELSE counters[k].count
    BY <1>1, IncrCounts
  <1>3. ASSUME NEW k \in GuardedKeys
        PROVE  /\ k \in Keys /\ k[1] \in Scopes /\ Limit[k[1]] \in Nat
               /\ admitted[k] \in Nat /\ counters[k].count \in Nat
               /\ admitted[k] <= counters[k].count
               /\ admitted[k] <= Limit[k[1]]
    BY LimitAssumption
    DEF GuardedKeys, Keys, RateInv, RateTypeOK, AdmittedCounted, LimitPerWindow
  <1>4. ASSUME NEW k \in GuardedKeys
        PROVE  /\ admitted'[k] = IF k \in KeysOf(r, rules) THEN admitted[k] + 1
                                                           ELSE admitted[k]
               /\ k \in KeysOf(r, rules) => counters[k].count + 1 <= Limit[k[1]]
    <2>1. k \in KeysOf(r, rules) => k[2] = Bucket(r)
      BY DEF KeysOf
    <2> QED BY <1>1, <1>3, <2>1, CountIsCurrent DEF LetThrough, Within
  <1>5. admitted' \in [GuardedKeys -> Nat]
    BY <1>1, <1>3 DEF LetThrough
  <1>6. RateTypeOK'
    BY <1>1, <1>2, <1>5 DEF RateInv, RateTypeOK, Keys, GuardedKeys, Buckets
  <1>7. AdmittedCounted'
    <2>1. \A k \in GuardedKeys : admitted'[k] <= counters'[k].count
      BY <1>2, <1>3, <1>4
    <2> QED BY <2>1 DEF AdmittedCounted, GuardedKeys, Buckets
  <1>8. LimitPerWindow'
    <2>1. \A k \in GuardedKeys : admitted'[k] <= Limit[k[1]]
      BY <1>3, <1>4
    <2> QED BY <2>1 DEF LimitPerWindow, GuardedKeys, Buckets
  <1> QED BY <1>2, <1>6, <1>7, <1>8 DEF RateInv

\* Counting without letting through keeps the rest.
LEMMA CountedOnlyInv ==
    ASSUME RateInv, NEW r \in Replicas, NEW rules \in RuleSets,
           Incr(r, rules), UNCHANGED <<admitted, time>>
    PROVE  RateInv'
  <1>1. /\ counters' \in [Keys -> [count: Nat, expires: Nat]]
        /\ KeysOutliveWindow'
        /\ \A k \in Keys : counters'[k].count =
              IF k \in KeysOf(r, rules) THEN counters[k].count + 1
                                        ELSE counters[k].count
    BY IncrCounts
  <1>2. ASSUME NEW k \in GuardedKeys
        PROVE  /\ k \in Keys /\ admitted[k] \in Nat /\ counters[k].count \in Nat
               /\ admitted[k] <= counters[k].count
    BY LimitAssumption
    DEF GuardedKeys, Keys, RateInv, RateTypeOK, AdmittedCounted
  <1>3. RateTypeOK' /\ LimitPerWindow'
    BY <1>1 DEF RateInv, RateTypeOK, LimitPerWindow, Keys, GuardedKeys, Buckets
  <1>4. AdmittedCounted'
    <2>1. \A k \in GuardedKeys : admitted[k] <= counters'[k].count
      BY <1>1, <1>2
    <2> QED BY <2>1 DEF AdmittedCounted, GuardedKeys, Buckets
  <1> QED BY <1>1, <1>3, <1>4 DEF RateInv

\* A request under no rule that fails closed touches no guarded key.
LEMMA UnguardedAdmission ==
    ASSUME RateInv, NEW r \in Replicas, NEW rules \in RuleSets,
           rules \cap FailClosed = {}, LetThrough(r, rules)
    PROVE  UNCHANGED admitted
  <1>1. \A k \in GuardedKeys : k \notin KeysOf(r, rules)
    BY DEF GuardedKeys, KeysOf
  <1>2. /\ admitted \in [GuardedKeys -> Nat]
        /\ admitted' = [k \in GuardedKeys |-> admitted[k]]
    BY <1>1 DEF LetThrough, RateInv, RateTypeOK
  <1> QED BY <1>2

LEMMA StutterInv == RateInv /\ UNCHANGED rateVars => RateInv'
  <1> SUFFICES ASSUME RateInv, UNCHANGED rateVars PROVE RateInv'
    OBVIOUS
  <1> USE DEF rateVars, RateInv
  <1>1. RateTypeOK'
    BY DEF RateTypeOK, Keys, GuardedKeys, Buckets
  <1>2. KeysOutliveWindow'
    BY DEF KeysOutliveWindow, Keys, Buckets
  <1>3. AdmittedCounted' /\ LimitPerWindow'
    BY DEF AdmittedCounted, LimitPerWindow, GuardedKeys, Buckets
  <1> QED BY <1>1, <1>2, <1>3

LEMMA DownInv ==
    ASSUME RateInv, NEW r \in Replicas, NEW rules \in RuleSets,
           RedisDown(r, rules)
    PROVE  RateInv'
  <1>1. UNCHANGED <<admitted, time>>
    BY UnguardedAdmission DEF RedisDown
  <1>2. CASE Incr(r, rules)
    BY <1>1, <1>2, CountedOnlyInv
  <1>3. CASE UNCHANGED counters
    BY <1>1, <1>3, StutterInv DEF rateVars
  <1> QED BY <1>2, <1>3 DEF RedisDown

LEMMA RateTickInv == RateInv /\ RateTick => RateInv'
  BY DEF RateTick, RateInv, RateTypeOK, KeysOutliveWindow, AdmittedCounted,
         LimitPerWindow, Keys, GuardedKeys, Buckets

LEMMA RateInductive == RateSpec => []RateInv
  <1>1. RateInv /\ RateNext => RateInv'
    <2>1. ASSUME RateInv, NEW r \in Replicas, NEW rules \in RuleSets,
                 Check(r, rules)
          PROVE  RateInv'
      BY <2>1, AllowsInv, CountedOnlyInv, DownInv DEF Check, CheckRefuses
    <2> QED BY <2>1, RateTickInv DEF RateNext
  <1> QED BY RateInitInv, <1>1, StutterInv, PTL DEF RateSpec

\* Type correctness of the counters.
THEOREM RateTypeCorrect == RateSpec => []RateTypeOK
  <1>1. RateInv => RateTypeOK
    BY DEF RateInv
  <1> QED BY <1>1, RateInductive, PTL

\* All replicas together let no more requests of a scope that fails closed
\* through in one window than its limit: the key of a window cannot expire
\* while some replica still uses it, so no count is lost.
THEOREM LimitHoldsPerWindow == RateSpec => []LimitPerWindow
  <1>1. RateInv => LimitPerWindow
    BY DEF RateInv
  <1> QED BY <1>1, RateInductive, PTL

------------------------------------------------------------------------------
(* RedisLock *)

\* Every open call has drawn its owner value.
OwnersDrawn == \A c \in Clients : client[c].at # "idle" => runs[c] # 0

\* A command that its client gave up on belongs to a call that is over.
LateIsOver ==
    \A m \in late :
        /\ m.owner[2] <= runs[m.owner[1]]
        /\ client[m.owner[1]].at # "idle" => m.owner[2] < runs[m.owner[1]]

\* A holder whose ttl has not passed is the one the key names, with the
\* expiry it counts on.
KeyNamesHolder ==
    \A c \in Clients :
        client[c].at \in {"running", "releasing"} /\ clock < client[c].expires
        => lock.value = Owner(c) /\ lock.expires = client[c].expires

LockInv ==
    /\ LockTypeOK
    /\ OwnersDrawn
    /\ LateIsOver
    /\ KeyNamesHolder

LEMMA InitInv == Init => LockInv
  <1> SUFFICES ASSUME Init PROVE LockInv
    OBVIOUS
  <1>1. LockTypeOK
    BY TimeAssumption DEF Init, LockTypeOK, ClientStates
  <1>2. OwnersDrawn /\ LateIsOver /\ KeyNamesHolder
    BY DEF Init, OwnersDrawn, LateIsOver, KeyNamesHolder
  <1> QED BY <1>1, <1>2 DEF LockInv

\* An open call has an owner value of its own.
LEMMA OwnerOf ==
    ASSUME LockInv, NEW c \in Clients, client[c].at # "idle"
    PROVE  /\ Owner(c) \in Owners
           /\ Owner(c) # Free
           /\ \A d \in Clients : Owner(d) = Owner(c) => d = c
           /\ \A m \in late : m.owner # Owner(c)
  <1>1. runs[c] \in 1..MaxRuns
    BY TimeAssumption DEF LockInv, LockTypeOK, OwnersDrawn
  <1>2. Owner(c) \in Owners
    BY <1>1 DEF Owner, Owners
  <1>3. \A d \in Clients : Owner(d) = Owner(c) => d = c
    BY DEF Owner
  <1>4. ASSUME NEW m \in late, m.owner = Owner(c) PROVE FALSE
    <2>1. m.owner[1] = c /\ m.owner[2] = runs[c]
      BY <1>4 DEF Owner
    <2> QED BY <1>1, <2>1 DEF LockInv, LateIsOver
  <1> QED BY <1>2, <1>3, <1>4, FreeAssumption

\* A holder that moves on without a word to the server.
LEMMA ClientLeaves ==
    ASSUME LockInv, NEW c \in Clients, client[c].at # "idle", Done(c),
           NEW op \in {"set", "del"},
           late' \in {late, late \cup {[op |-> op, owner |-> Owner(c)]}},
           UNCHANGED <<lock, runs, clock>>
    PROVE  LockInv'
  <1> DEFINE m == [op |-> op, owner |-> Owner(c)]
  <1>1. /\ client' \in [Clients -> ClientStates]
        /\ client'[c].at = "idle"
        /\ \A d \in Clients : d # c => client'[d] = client[d]
    BY DEF Done, Goto, ClientStates, LockInv, LockTypeOK
  <1>2. m \in Commands /\ m.owner[1] = c /\ m.owner[2] = runs[c]
    BY OwnerOf DEF Commands, Owner
  <1> HIDE DEF m
  <1>3. late' \subseteq late \cup {m}
    BY DEF m
  <1>4. LockTypeOK'
    BY <1>1, <1>2, <1>3 DEF LockInv, LockTypeOK
  <1>5. OwnersDrawn'
    BY <1>1 DEF LockInv, OwnersDrawn
  <1>6. LateIsOver'
    <2>1. ASSUME NEW k \in late'
          PROVE  /\ k.owner[2] <= runs[k.owner[1]]
                 /\ client'[k.owner[1]].at # "idle" => k.owner[2] < runs[k.owner[1]]
      <3>1. CASE k = m
        BY <1>1, <1>2, <3>1, TimeAssumption DEF LockInv, LockTypeOK
      <3>2. CASE k \in late
        <4>1. k.owner[1] \in Clients
          BY <3>2 DEF LockInv, LockTypeOK, Commands, Owners
        <4> QED BY <1>1, <3>2, <4>1 DEF LockInv, LateIsOver
      <3> QED BY <1>3, <2>1, <3>1, <3>2
    <2> QED BY <2>1 DEF LateIsOver
  <1>7. KeyNamesHolder'
    BY <1>1 DEF LockInv, KeyNamesHolder, Owner
  <1> QED BY <1>4, <1>5, <1>6, <1>7 DEF LockInv

LEMMA AcquireInv ==
    ASSUME LockInv, NEW c \in Clients, Acquire(c)
    PROVE  LockInv'
  <1>1. /\ client[c].at = "idle" /\ runs[c] < MaxRuns
        /\ runs \in [Clients -> 0..MaxRuns] /\ clock + Timeout \in Nat
        /\ UNCHANGED <<lock, late, clock>>
    BY TimeAssumption DEF Acquire, LockInv, LockTypeOK
  <1>2. /\ client' \in [Clients -> ClientStates]
        /\ client'[c].at = "trying"
        /\ \A d \in Clients : d # c => client'[d] = client[d]
    BY <1>1 DEF Acquire, Goto, ClientStates, LockInv, LockTypeOK
  <1>3. /\ runs' \in [Clients -> 0..MaxRuns]
        /\ runs'[c] = runs[c] + 1
        /\ \A d \in Clients : d # c => runs'[d] = runs[d]
    BY <1>1, TimeAssumption DEF Acquire
  <1>4. LockTypeOK'
    BY <1>1, <1>2, <1>3 DEF LockInv, LockTypeOK
  <1>5. OwnersDrawn'
    BY <1>1, <1>2, <1>3 DEF LockInv, OwnersDrawn
  <1>6. LateIsOver'
    <2>1. ASSUME NEW k \in late
          PROVE  /\ k.owner[2] <= runs'[k.owner[1]]
                 /\ client'[k.owner[1]].at # "idle" => k.owner[2] < runs'[k.owner[1]]
      <3>1. k.owner[1] \in Clients /\ k.owner[2] \in Nat
        BY DEF LockInv, LockTypeOK, Commands, Owners
      <3>2. /\ k.owner[2] <= runs[k.owner[1]]
            /\ client[k.owner[1]].at # "idle" => k.owner[2] < runs[k.owner[1]]
        BY DEF LockInv, LateIsOver
      <3> QED BY <1>1, <1>2, <1>3, <3>1, <3>2
    <2> QED BY <1>1, <2>1 DEF LateIsOver
  <1>7. KeyNamesHolder'
    BY <1>1, <1>2, <1>3 DEF LockInv, KeyNamesHolder, Owner
  <1> QED BY <1>4, <1>5, <1>6, <1>7 DEF LockInv

\* An open client goes on to a state in which it does not begin to hold.
LEMMA ClientGoesOn ==
    ASSUME LockInv, NEW c \in Clients, client[c].at # "idle",
           NEW state \in ClientStates, Goto(c, state),
           state.at \in {"running", "releasing"} =>
              /\ client[c].at \in {"running", "releasing"}
              /\ state.expires = client[c].expires,
           UNCHANGED <<lock, late, runs, clock>>
    PROVE  LockInv'
  <1>1. /\ client' \in [Clients -> ClientStates]
        /\ client'[c] = state
        /\ \A d \in Clients : d # c => client'[d] = client[d]
    BY DEF Goto, LockInv, LockTypeOK
  <1>2. LockTypeOK'
    BY <1>1 DEF LockInv, LockTypeOK
  <1>3. OwnersDrawn'
    BY <1>1 DEF LockInv, OwnersDrawn
  <1>4. LateIsOver'
    <2>1. \A k \in late : k.owner[1] \in Clients
      BY DEF LockInv, LockTypeOK, Commands, Owners
    <2> QED BY <1>1, <2>1 DEF LockInv, LateIsOver
  <1>5. KeyNamesHolder'
    BY <1>1 DEF LockInv, KeyNamesHolder, Owner
  <1> QED BY <1>2, <1>3, <1>4, <1>5 DEF LockInv

\* While some call holds the lock, GET does not return Free.
LEMMA FreeHasNoHolder ==
    ASSUME LockInv, NEW c \in Clients,
           client[c].at \in {"running", "releasing"}, clock < client[c].expires
    PROVE  Value = Owner(c) /\ Value # Free
  <1>1. lock.value = Owner(c) /\ lock.expires = client[c].expires
    BY DEF LockInv, KeyNamesHolder
  <1>2. Owner(c) # Free
    BY OwnerOf
  <1> QED BY <1>1, <1>2 DEF Value

LEMMA TrySetInv ==
    ASSUME LockInv, NEW c \in Clients, TrySet(c)
    PROVE  LockInv'
  <1> DEFINE state == [at |-> "running", expires |-> clock + Ttl]
  <1>1. /\ client[c].at = "trying" /\ Value = Free
        /\ lock' = [value |-> Owner(c), expires |-> clock + Ttl]
        /\ client' = [client EXCEPT ![c] = state]
        /\ UNCHANGED <<late, runs, clock>>
    BY DEF TrySet, SetNx, Goto
  <1>2. Owner(c) \in Owners /\ clock + Ttl \in Nat
    BY <1>1, OwnerOf, TimeAssumption DEF LockInv, LockTypeOK
  <1>3. state \in ClientStates /\ state.at = "running"
        /\ state.expires = clock + Ttl
    BY <1>2 DEF ClientStates
  <1> HIDE DEF state
  <1>4. /\ client' \in [Clients -> ClientStates]
        /\ client'[c] = state
        /\ \A d \in Clients : d # c => client'[d] = client[d]
    BY <1>1, <1>3 DEF LockInv, LockTypeOK
  <1>5. LockTypeOK'
    BY <1>1, <1>2, <1>4 DEF LockInv, LockTypeOK
  <1>6. OwnersDrawn'
    BY <1>1, <1>4 DEF LockInv, OwnersDrawn
  <1>7. LateIsOver'
    <2>1. \A k \in late : k.owner[1] \in Clients
      BY DEF LockInv, LockTypeOK, Commands, Owners
    <2> QED BY <1>1, <1>4, <2>1 DEF LockInv, LateIsOver
  <1>8. KeyNamesHolder'
    <2>1. lock'.value = Owner(c) /\ lock'.expires = clock + Ttl
      BY <1>1
    <2>2. \A d \in Clients :
             ~(client[d].at \in {"running", "releasing"} /\ clock < client[d].expires)
      BY <1>1, FreeHasNoHolder
    <2> QED BY <1>1, <1>3, <1>4, <2>1, <2>2 DEF KeyNamesHolder, Owner
  <1> QED BY <1>5, <1>6, <1>7, <1>8 DEF LockInv

LEMMA ReleaseInv ==
    ASSUME LockInv, NEW c \in Clients, Release(c)
    PROVE  LockInv'
  <1>1. /\ client[c].at = "releasing" /\ DelIfOwner(Owner(c))
        /\ UNCHANGED <<late, runs, clock>>
    BY DEF Release
  <1>2. /\ client' \in [Clients -> ClientStates]
        /\ client'[c].at = "idle"
        /\ \A d \in Clients : d # c => client'[d] = client[d]
    BY DEF Release, Done, Goto, ClientStates, LockInv, LockTypeOK
  <1>3. LockTypeOK'
    BY <1>1, <1>2 DEF DelIfOwner, LockInv, LockTypeOK
  <1>4. OwnersDrawn'
    BY <1>1, <1>2 DEF LockInv, OwnersDrawn
  <1>5. LateIsOver'
    <2>1. \A k \in late : k.owner[1] \in Clients
      BY DEF LockInv, LockTypeOK, Commands, Owners
    <2> QED BY <1>1, <1>2, <2>1 DEF LockInv, LateIsOver
  <1>6. KeyNamesHolder'
    <2> SUFFICES ASSUME NEW d \in Clients,
                        client'[d].at \in {"running", "releasing"},
                        clock' < client'[d].expires
                 PROVE  /\ lock'.value = Owner(d)'
                        /\ lock'.expires = client'[d].expires
      BY DEF KeyNamesHolder
    <2>1. d # c /\ client'[d] = client[d]
      BY <1>2
    <2>2. Value = Owner(d) /\ Owner(c) # Owner(d)
      BY <1>1, <2>1, FreeHasNoHolder, OwnerOf
    <2>3. lock' = lock
      BY <1>1, <2>2 DEF DelIfOwner
    <2> QED BY <1>1, <2>1, <2>3 DEF LockInv, KeyNamesHolder, Owner
  <1> QED BY <1>3, <1>4, <1>5, <1>6 DEF LockInv

\* A late SET finds the key taken while a call holds the lock, a late release
\* finds another owner.
LEMMA ArriveInv ==
    ASSUME LockInv, NEW m \in Commands, Arrive(m)
    PROVE  LockInv'
  <1>1. /\ m \in late /\ late' = late \ {m} /\ UNCHANGED <<client, runs, clock>>
        /\ \/ SetNx(m.owner) \/ DelIfOwner(m.owner)
    BY DEF Arrive
  <1>2. m.owner \in Owners /\ clock + Ttl \in Nat
    BY TimeAssumption DEF Commands, LockInv, LockTypeOK
  <1>3. lock' \in [value: Owners \cup {Free}, expires: Nat]
    BY <1>1, <1>2 DEF SetNx, DelIfOwner, LockInv, LockTypeOK
  <1>4. LockTypeOK'
    BY <1>1, <1>3 DEF LockInv, LockTypeOK
  <1>5. OwnersDrawn'
    BY <1>1 DEF LockInv, OwnersDrawn
  <1>6. LateIsOver'
    BY <1>1 DEF LockInv, LateIsOver
  <1>7. KeyNamesHolder'
    <2> SUFFICES ASSUME NEW d \in Clients,
                        client[d].at \in {"running", "releasing"},
                        clock < client[d].expires
                 PROVE  /\ lock'.value = Owner(d)
                        /\ lock'.expires = client[d].expires
      BY <1>1 DEF KeyNamesHolder, Owner
    <2>1. Value = Owner(d) /\ Value # Free
      BY FreeHasNoHolder
    <2>2. m.owner # Owner(d)
      BY <1>1, OwnerOf
    <2>3. lock' = lock
      BY <1>1, <2>1, <2>2 DEF SetNx, DelIfOwner
    <2> QED BY <2>3 DEF LockInv, KeyNamesHolder
  <1> QED BY <1>4, <1>5, <1>6, <1>7 DEF LockInv

LEMMA TickInv ==
    ASSUME LockInv, Tick
    PROVE  LockInv'
  <1>1. clock \in Nat /\ clock' = clock + 1 /\ UNCHANGED <<lock, late, client, runs>>
    BY DEF Tick, LockInv, LockTypeOK
  <1>2. LockTypeOK' /\ OwnersDrawn' /\ LateIsOver'
    BY <1>1 DEF LockInv, LockTypeOK, OwnersDrawn, LateIsOver
  <1>3. KeyNamesHolder'
    <2>1. \A c \in Clients : client[c].at \in {"running", "releasing"} =>
             client[c].expires \in Nat
      BY DEF LockInv, LockTypeOK, ClientStates
    <2> QED BY <1>1, <2>1 DEF LockInv, KeyNamesHolder, Owner
  <1> QED BY <1>2, <1>3 DEF LockInv

LEMMA WorkInv ==
    ASSUME LockInv, NEW c \in Clients, Work(c)
    PROVE  LockInv'
  <1>1. CASE TrySet(c)
    BY <1>1, TrySetInv
  <1>2. CASE TryBusy(c) \/ Retry(c)
    <2> DEFINE at == IF client[c].at = "trying" THEN "waiting" ELSE "trying"
               state == [at |-> at, deadline |-> client[c].deadline]
    <2>1. /\ client[c].at \in {"trying", "waiting"} /\ Goto(c, state)
          /\ UNCHANGED <<lock, late, runs, clock>>
      BY <1>2 DEF TryBusy, Retry
    <2>2. client[c].deadline \in Nat
      BY <2>1 DEF LockInv, LockTypeOK, ClientStates
    <2>3. state \in ClientStates /\ state.at \in {"trying", "waiting"}
      BY <2>2 DEF ClientStates
    <2> HIDE DEF state
    <2> QED BY <2>1, <2>3, ClientGoesOn
  <1>3. CASE FnEnds(c)
    <2> DEFINE state == [client[c] EXCEPT !.at = "releasing"]
    <2>1. /\ client[c].at = "running" /\ Goto(c, state)
          /\ UNCHANGED <<lock, late, runs, clock>>
      BY <1>3 DEF FnEnds
    <2>2. /\ state \in ClientStates /\ state.at = "releasing"
          /\ state.expires = client[c].expires
      BY <2>1 DEF LockInv, LockTypeOK, ClientStates
    <2> HIDE DEF state
    <2> QED BY <2>1, <2>2, ClientGoesOn
  <1>4. CASE Release(c)
    BY <1>4, ReleaseInv
  <1>5. CASE TimedOut(c) \/ AcquireError(c) \/ ReleaseError(c) \/ Crash(c)
    BY <1>5, ClientLeaves DEF TimedOut, AcquireError, ReleaseError, Crash
  <1> QED BY <1>1, <1>2, <1>3, <1>4, <1>5 DEF Work, Try

LEMMA LockInductive == Spec => []LockInv
  <1>1. LockInv /\ Next => LockInv'
    BY AcquireInv, WorkInv, ArriveInv, TickInv DEF Next
  <1>2. LockInv /\ UNCHANGED vars => LockInv'
    BY DEF vars, LockInv, LockTypeOK, OwnersDrawn, LateIsOver, KeyNamesHolder,
           Owner
  <1> QED BY InitInv, <1>1, <1>2, PTL DEF Spec

\* Type correctness of the lock.
THEOREM LockTypeCorrect == Spec => []LockTypeOK
  <1>1. LockInv => LockTypeOK
    BY DEF LockInv
  <1> QED BY <1>1, LockInductive, PTL

\* Mutual exclusion up to the ttl: whatever commands arrive late, a client
\* inside fn owns the key until its ttl has passed.
THEOREM HolderAlwaysKeepsLock == Spec => []HolderKeepsLock
  <1>1. LockInv => HolderKeepsLock
    BY FreeHasNoHolder DEF HolderKeepsLock
  <1> QED BY <1>1, LockInductive, PTL
=============================================================================
