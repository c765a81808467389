----------------------------- MODULE SolverProofs -----------------------------
(***************************************************************************)
(* Proofs about the worklist solver of the optimizer, for a function with  *)
(* any graph and any statements and for each of the four analyses: that it *)
(* has a solution when it stops (SolvedAtEnd), that facts move one way     *)
(* only (FactsFall), and that for available expressions and live variables *)
(* the solution is the best one (Necessary); and that the rewriting done   *)
(* with the solution preserves what the function does (PassesPreserve).    *)
(***************************************************************************)
EXTENDS Passes, FiniteSetTheorems, SharedFacts

-----------------------------------------------------------------------------
(* The facts. *)

LEMMA LowerOrder ==
  ASSUME NEW a \in Analyses
  PROVE  /\ \A x : Lower(a, x, x)
         /\ \A x, y, z : Lower(a, x, y) /\ Lower(a, y, z) => Lower(a, x, z)
<1>1. UNDEF # NAC
  BY DEF UNDEF, NAC
<1>2. \A x : Lower(a, x, x)
  BY DEF Lower
<1>3. ASSUME NEW x, NEW y, NEW z, Lower(a, x, y), Lower(a, y, z)
      PROVE  Lower(a, x, z)
  <2>1. CASE a = "constant"
    BY <1>1, <1>3, <2>1 DEF Lower
  <2>2. CASE a = "available"
    BY <1>3, <2>2 DEF Lower
  <2>3. CASE a = "copy"
    BY <1>3, <2>3 DEF Lower
  <2>4. CASE a = "live"
    BY <1>3, <2>4 DEF Lower
  <2>5. QED
    BY <2>1, <2>2, <2>3, <2>4 DEF Analyses
<1>4. QED
  BY <1>2, <1>3

LEMMA MeetValueIs ==
  /\ \A v, w : meetValue(v, w) = IF NAC \in {v, w} THEN NAC ELSE IF v = UNDEF THEN w
                                 ELSE IF w \in {UNDEF, v} THEN v ELSE NAC
  /\ \A v, w : meetValue(meetValue(v, w), w) = meetValue(v, w)
  /\ \A v, w, u : meetValue(v, u) = v => meetValue(meetValue(v, w), u) = meetValue(v, w)
  /\ \A v, w : v # UNDEF => meetValue(v, w) \in {v, NAC}
<1>1. UNDEF # NAC
  BY DEF UNDEF, NAC
<1>2. \A v, w : meetValue(v, w) = IF NAC \in {v, w} THEN NAC ELSE IF v = UNDEF THEN w
                                 ELSE IF w \in {UNDEF, v} THEN v ELSE NAC
  BY DEF meetValue
<1>3. QED
  BY <1>1, <1>2

LEMMA ConstantMeet ==
  ASSUME NEW fact, NEW target, IsMap(target)
  PROVE  LET new == meetInto("constant", fact, target)
         IN  /\ IsMap(new)
             /\ Absorbed("constant", fact, new)
             /\ \A other : Absorbed("constant", other, target) => Absorbed("constant", other, new)
             /\ Lower("constant", new, target)
<1> DEFINE Get(f, v) == IF v \in DOMAIN f THEN f[v] ELSE UNDEF
           Meet(f, t) == [v \in DOMAIN f \cup DOMAIN t |-> meetValue(Get(t, v), Get(f, v))]
           new == Meet(fact, target)
<1>1. \A f, t : meetInto("constant", f, t) = Meet(f, t)
  <2>1. \A f, v : Fact_get_value(f, Val(v)) = Get(f, v)
    BY DEF Fact_get_value, Val, IsVar
  <2> HIDE DEF Get
  <2>2. QED
    BY <2>1 DEF meetInto
<1>2. /\ IsMap(new) /\ DOMAIN new = DOMAIN fact \cup DOMAIN target
      /\ \A v \in DOMAIN new : new[v] = meetValue(Get(target, v), Get(fact, v))
      /\ \A v : v \notin DOMAIN fact => Get(fact, v) = UNDEF
      /\ \A v : v \notin DOMAIN target => Get(target, v) = UNDEF
  BY DEF IsMap
<1>3. Meet(fact, new) = new
  <2>1. DOMAIN fact \cup DOMAIN new = DOMAIN new
    BY <1>2
  <2>2. \A v \in DOMAIN new : Get(new, v) = new[v]
    OBVIOUS
  <2>3. \A v \in DOMAIN new : meetValue(Get(new, v), Get(fact, v)) = new[v]
    <3> HIDE DEF Get, new
    <3>1. QED
      BY <1>2, <2>2, MeetValueIs
  <2> HIDE DEF Get, new
  <2>4. QED
    BY <1>2, <2>1, <2>3 DEF IsMap
<1>4. ASSUME NEW other, Meet(other, target) = target
      PROVE  Meet(other, new) = new
  <2>1. /\ DOMAIN other \subseteq DOMAIN target
        /\ \A v \in DOMAIN target : meetValue(Get(target, v), Get(other, v)) = Get(target, v)
    <3>1. DOMAIN Meet(other, target) = DOMAIN other \cup DOMAIN target
      OBVIOUS
    <3>2. \A v \in DOMAIN target :
            Meet(other, target)[v] = meetValue(Get(target, v), Get(other, v))
      OBVIOUS
    <3>3. \A v \in DOMAIN target : target[v] = Get(target, v)
      OBVIOUS
    <3>4. QED
      BY <1>4, <3>1, <3>2, <3>3
  <2>2. \A v : v \notin DOMAIN other => Get(other, v) = UNDEF
    OBVIOUS
  <2>3. DOMAIN other \cup DOMAIN new = DOMAIN new
    BY <1>2, <2>1
  <2>4. \A v \in DOMAIN new : Get(new, v) = new[v]
    OBVIOUS
  <2> HIDE DEF Get, new
  <2>5. \A v \in DOMAIN new : meetValue(Get(new, v), Get(other, v)) = new[v]
    <3>1. \A w : meetValue(w, UNDEF) = w
      BY MeetValueIs DEF UNDEF, NAC
    <3>2. QED
      BY <1>2, <2>1, <2>2, <2>4, <3>1, MeetValueIs
  <2>6. QED
    BY <1>2, <2>3, <2>5 DEF IsMap
<1>5. Lower("constant", new, target)
  <2>1. \A v \in DOMAIN target : Get(target, v) = target[v]
    OBVIOUS
  <2> HIDE DEF Get, new
  <2>2. QED
    BY <1>2, <2>1, MeetValueIs DEF Lower
<1> HIDE DEF Meet
<1>6. QED
  BY <1>1, <1>2, <1>3, <1>4, <1>5 DEF Absorbed

LEMMA AvailableMeet ==
  ASSUME NEW fact, Fact("available", fact), NEW target, Stored("available", target)
  PROVE  LET new == meetInto("available", fact, target)
         IN  /\ Stored("available", new)
             /\ Absorbed("available", fact, new)
             /\ \A other : Absorbed("available", other, target) =>
                             Absorbed("available", other, new)
             /\ Lower("available", new, target)
<1> DEFINE Both(f, t) == IF t.top THEN t.set \cup f.set ELSE t.set \cap f.set
           Meet(f, t) == IF f.top THEN t ELSE [top |-> FALSE, set |-> Both(f, t)]
           new == Meet(fact, target)
<1>1. \A f, t : meetInto("available", f, t) = Meet(f, t)
  BY DEF meetInto
<1>2. /\ target \in [top : BOOLEAN, set : {target.set}]
      /\ target.top => target.set = {}
  BY DEF Stored, Fact
<1>3. Stored("available", new)
  BY <1>2 DEF Stored, Fact
<1>4. Meet(fact, new) = new
  BY <1>2
<1>5. ASSUME NEW other, Meet(other, target) = target
      PROVE  Meet(other, new) = new
  <2>1. CASE other.top \/ fact.top
    BY <1>5, <2>1
  <2>2. CASE ~other.top /\ ~fact.top
    <3>1. ~target.top /\ target.set = target.set \cap other.set
      BY <1>5, <2>2
    <3>2. QED
      BY <2>2, <3>1
  <2>3. QED
    BY <2>1, <2>2
<1>6. Lower("available", new, target)
  BY <1>2 DEF Lower
<1> HIDE DEF Meet
<1>7. QED
  BY <1>1, <1>3, <1>4, <1>5, <1>6 DEF Absorbed

LEMMA CopyMeetFacts ==
  ASSUME NEW fact, Fact("copy", fact), NEW target, Fact("copy", target)
  PROVE  LET new == meetInto("copy", fact, target)
         IN  /\ Fact("copy", new)
             /\ Absorbed("copy", fact, new)
             /\ \A other : Absorbed("copy", other, target) => Absorbed("copy", other, new)
             /\ Lower("copy", new, target)
<1> DEFINE Gone(f, t) == {d \in DOMAIN t.use : d \notin DOMAIN f.use \/ f.use[d] # t.use[d]}
           Less(f, t) == [top |-> t.top,
                          use |-> [d \in DOMAIN t.use \ Gone(f, t) |-> t.use[d]],
                          def |-> [u \in DOMAIN t.def \ {t.use[d] : d \in Gone(f, t)} |-> t.def[u]]]
           new == CopyMeet(fact, target)
<1>1. \A f, t : meetInto("copy", f, t) = CopyMeet(f, t)
  BY DEF meetInto
<1>2. ASSUME NEW t, Fact("copy", t)
      PROVE  /\ \A f : f.top => CopyMeet(f, t) = t
             /\ \A f : ~f.top /\ ~t.top => CopyMeet(f, t) = Less(f, t)
             /\ \A f : ~f.top /\ Gone(f, t) = {} => Less(f, t) = t
  <2>1. /\ t \in [top : BOOLEAN, use : {t.use}, def : {t.def}]
        /\ t.use = [d \in DOMAIN t.use |-> t.use[d]] /\ t.def = [d \in DOMAIN t.def |-> t.def[d]]
    BY <1>2 DEF Fact, IsMap
  <2>2. \A f : f.top => CopyMeet(f, t) = t
    BY DEF CopyMeet
  <2>3. ASSUME NEW f, ~f.top, ~t.top
        PROVE  CopyMeet(f, t) = Less(f, t)
    <3>1. CopyMeet(f, t) = [t EXCEPT !.use = [d \in DOMAIN t.use \ Gone(f, t) |-> t.use[d]],
                                     !.def = [u \in DOMAIN t.def \ {t.use[d] : d \in Gone(f, t)} |-> t.def[u]]]
      BY <2>3 DEF CopyMeet
    <3> HIDE DEF Gone
    <3>2. QED
      BY <2>1, <3>1
  <2>4. ASSUME NEW f, Gone(f, t) = {}
        PROVE  Less(f, t) = t
    <3> HIDE DEF Gone
    <3>1. /\ DOMAIN t.use \ Gone(f, t) = DOMAIN t.use
          /\ DOMAIN t.def \ {t.use[d] : d \in Gone(f, t)} = DOMAIN t.def
      BY <2>4
    <3>2. QED
      BY <2>1, <3>1
  <2> HIDE DEF Gone, Less
  <2>5. QED
    BY <2>2, <2>3, <2>4
<1>3. CASE fact.top
  BY <1>1, <1>2, <1>3 DEF Absorbed, Lower
<1>4. CASE ~fact.top
  <2>1. /\ Fact("copy", new) /\ ~new.top
        /\ \A d \in DOMAIN new.use : d \in DOMAIN fact.use /\ new.use[d] = fact.use[d]
        /\ ~target.top =>
             \A d \in DOMAIN new.use : d \in DOMAIN target.use /\ new.use[d] = target.use[d]
    <3>1. CASE target.top
      <4> DEFINE first == [u \in {fact.use[d] : d \in DOMAIN fact.use} |->
                             Min({d \in DOMAIN fact.use : fact.use[d] = u})]
      <4>1. new = [top |-> FALSE, use |-> fact.use, def |-> first]
        BY <1>4, <3>1 DEF CopyMeet
      <4>2. IsMap(first)
        BY DEF IsMap
      <4>3. new.top = FALSE /\ new.use = fact.use /\ new.def = first
        BY <4>1
      <4> HIDE DEF new, first
      <4>4. new \in [top : BOOLEAN, use : {new.use}, def : {new.def}]
        BY <4>1, <4>3
      <4>5. Fact("copy", new)
        BY <4>2, <4>3, <4>4 DEF Fact
      <4>6. QED
        BY <3>1, <4>3, <4>5
    <3>2. CASE ~target.top
      <4>1. new = Less(fact, target)
        <5> HIDE DEF Less
        <5>1. QED
          BY <1>2, <1>4, <3>2
      <4>2. IsMap(new.use) /\ IsMap(new.def)
        <5> HIDE DEF new, Gone
        <5>1. QED
          BY <4>1 DEF IsMap
      <4>3. Fact("copy", new) /\ ~new.top
        <5> HIDE DEF new, Gone
        <5>1. QED
          BY <3>2, <4>1, <4>2 DEF Fact
      <4>4. new.use = [d \in DOMAIN target.use \ Gone(fact, target) |-> target.use[d]]
        <5> HIDE DEF new, Gone
        <5>1. QED
          BY <4>1
      <4>5. /\ DOMAIN new.use = DOMAIN target.use \ Gone(fact, target)
            /\ \A d \in DOMAIN new.use : new.use[d] = target.use[d]
        <5> HIDE DEF new, Gone
        <5>1. QED
          BY <4>4
      <4> HIDE DEF new
      <4>6. QED
        BY <4>3, <4>5
    <3>3. QED
      BY <3>1, <3>2
  <2> HIDE DEF new
  <2>2. CopyMeet(fact, new) = new
    <3>1. Gone(fact, new) = {}
      BY <2>1
    <3> HIDE DEF Gone, Less
    <3>2. QED
      BY <1>2, <1>4, <2>1, <3>1
  <2>3. ASSUME NEW other, CopyMeet(other, target) = target
        PROVE  CopyMeet(other, new) = new
    <3>1. CASE other.top
      BY <1>2, <2>1, <3>1
    <3>2. CASE ~other.top
      <4>1. ~target.top
        <5>1. SUFFICES ASSUME target.top PROVE FALSE
          OBVIOUS
        <5>2. CopyMeet(other, target).top = FALSE
          BY <3>2, <5>1 DEF CopyMeet
        <5>3. QED
          BY <2>3, <5>1, <5>2
      <4>2. Less(other, target) = target
        <5> HIDE DEF Gone, Less
        <5>1. QED
          BY <1>2, <2>3, <3>2, <4>1
      <4>3. Gone(other, target) = {}
        <5>1. DOMAIN Less(other, target).use = DOMAIN target.use \ Gone(other, target)
          <6> HIDE DEF Gone
          <6>1. QED
            OBVIOUS
        <5>2. Gone(other, target) \subseteq DOMAIN target.use
          OBVIOUS
        <5> HIDE DEF Gone, Less
        <5>3. QED
          BY <4>2, <5>1, <5>2
      <4>4. Gone(other, new) = {}
        BY <2>1, <4>1, <4>3
      <4> HIDE DEF Gone, Less
      <4>5. QED
        BY <1>2, <2>1, <3>2, <4>4
    <3>3. QED
      BY <3>1, <3>2
  <2>4. Lower("copy", new, target)
    BY <2>1 DEF Lower
  <2>5. new = CopyMeet(fact, target)
    BY DEF new
  <2>6. QED
    BY <1>1, <2>1, <2>2, <2>3, <2>4, <2>5 DEF Absorbed
<1>5. QED
  BY <1>3, <1>4

\* A fact flows in once: another time changes nothing, and what had flowed in before stays in.
LEMMA MeetFacts ==
  ASSUME NEW a \in Analyses, NEW fact, Fact(a, fact), NEW target, Stored(a, target)
  PROVE  LET new == meetInto(a, fact, target)
         IN  /\ Stored(a, new)
             /\ Absorbed(a, fact, new)
             /\ \A other : Absorbed(a, other, target) => Absorbed(a, other, new)
             /\ Lower(a, new, target)
<1>1. CASE a = "constant"
  <2>1. IsMap(target)
    BY <1>1 DEF Stored, Fact
  <2>2. \A x : IsMap(x) => Stored("constant", x)
    BY DEF Stored, Fact
  <2>3. QED
    BY <1>1, <2>1, <2>2, ConstantMeet
<1>2. CASE a = "available"
  BY <1>2, AvailableMeet
<1>3. CASE a = "copy"
  <2>1. \A x : Stored("copy", x) <=> Fact("copy", x)
    BY DEF Stored
  <2>2. QED
    BY <1>3, <2>1, CopyMeetFacts
<1>4. CASE a = "live"
  <2>1. \A f, t : meetInto(a, f, t) = t \cup f
    BY <1>4 DEF meetInto
  <2>2. QED
    BY <1>4, <2>1 DEF Stored, Fact, Absorbed, Lower
<1>5. QED
  BY <1>1, <1>2, <1>3, <1>4 DEF Analyses

-----------------------------------------------------------------------------
(* The facts of several blocks, and the statements of one, in turn. *)

TransferAll(a, kills, fact, ss) == Through(LAMBDA x, s : transferStmt(a, kills, s, x), fact, ss)


TransferRun(a, kills, s, first, g, n) ==
  g = [i \in 0 .. n |-> IF i = 0 THEN {first} ELSE {transferStmt(a, kills, s[i], r) : r \in g[i - 1]}]

LEMMA TransferRunExists ==
  ASSUME NEW a, NEW kills, NEW S, NEW s \in Seq(S), NEW first, NEW n \in Nat, n <= Len(s)
  PROVE  \E g : TransferRun(a, kills, s, first, g, n)
<1> DEFINE D == {m \in Nat : m <= Len(s) /\ ~\E g : TransferRun(a, kills, s, first, g, m)}
<1>1. SUFFICES ASSUME D # {} PROVE FALSE
  OBVIOUS
<1>2. PICK m \in D : \A k \in D : m <= k
  <2> HIDE DEF D
  <2>1. D \in SUBSET Nat
    BY DEF D
  <2>2. QED
    BY <1>1, <2>1, LeastNat
<1>3. m \in Nat /\ m <= Len(s) /\ Len(s) \in Nat
  OBVIOUS
<1>4. CASE m = 0
  <2> DEFINE g == [i \in 0 .. 0 |-> {first}]
  <2>1. \A i \in 0 .. 0 : i = 0
    OBVIOUS
  <2>2. TransferRun(a, kills, s, first, g, 0)
    BY <2>1 DEF TransferRun
  <2>3. QED
    BY <1>2, <1>4, <2>2
<1>5. CASE m # 0
  <2>1. m - 1 \in Nat /\ m - 1 <= Len(s) /\ ~(m <= m - 1)
    BY <1>3, <1>5
  <2>2. PICK g : TransferRun(a, kills, s, first, g, m - 1)
    BY <1>2, <2>1
  <2> DEFINE h == [i \in 0 .. m |-> IF i = m THEN {transferStmt(a, kills, s[m], r) : r \in g[m - 1]} ELSE g[i]]
  <2>3. ASSUME NEW i \in 0 .. m
        PROVE  h[i] = IF i = 0 THEN {first} ELSE {transferStmt(a, kills, s[i], r) : r \in h[i - 1]}
    <3>1. CASE i = m
      <4>1. h[m - 1] = g[m - 1] /\ h[m] = {transferStmt(a, kills, s[m], r) : r \in g[m - 1]}
        BY <1>3, <1>5
      <4>2. QED
        BY <1>5, <3>1, <4>1
    <3>2. CASE i # m
      <4>1. i \in 0 .. m - 1 /\ i \in 0 .. m
        BY <1>3, <3>2
      <4>2. h[i] = g[i]
        BY <3>2, <4>1
      <4>3. g[i] = IF i = 0 THEN {first} ELSE {transferStmt(a, kills, s[i], r) : r \in g[i - 1]}
        BY <2>2, <4>1 DEF TransferRun
      <4>4. i # 0 => h[i - 1] = g[i - 1]
        <5>1. i # 0 => i - 1 \in 0 .. m /\ i - 1 # m
          BY <1>3, <4>1
        <5>2. QED
          BY <5>1
      <4>5. QED
        BY <4>2, <4>3, <4>4
    <3>3. QED
      BY <3>1, <3>2
  <2>4. TransferRun(a, kills, s, first, h, m)
    <3>1. h = [i \in 0 .. m |-> h[i]]
      OBVIOUS
    <3> HIDE DEF h
    <3>2. QED
      BY <2>3, <3>1 DEF TransferRun
  <2>5. QED
    BY <1>2, <2>4
<1>6. QED
  BY <1>4, <1>5

LEMMA TransferRuns ==
  ASSUME NEW a, NEW kills, NEW S, NEW s \in Seq(S), NEW first
  PROVE  \E h : /\ h[0] = first /\ TransferAll(a, kills, first, s) = h[Len(s)]
                /\ \A i \in 1 .. Len(s) : h[i] = transferStmt(a, kills, s[i], h[i - 1])
<1> DEFINE n == Len(s)
           g == CHOOSE after : TransferRun(a, kills, s, first, after, n)
<1>1. n \in Nat
  OBVIOUS
<1>2. \E after : TransferRun(a, kills, s, first, after, n)
  <2>1. n <= n
    BY <1>1
  <2>2. QED
    BY <1>1, <2>1, TransferRunExists
<1>3. TransferAll(a, kills, first, s) = CHOOSE r \in g[n] : TRUE
  BY Zenon DEF TransferAll, Through, TransferRun
<1> HIDE DEF n
<1>4. TransferRun(a, kills, s, first, g, n)
  BY <1>2
<1> HIDE DEF g
<1> DEFINE h == [i \in 0 .. n |-> CHOOSE r \in g[i] : TRUE]
           D == {i \in Nat : i <= n /\ g[i] # {h[i]}}
<1>5. \A i \in 0 .. n : g[i] = IF i = 0 THEN {first} ELSE {transferStmt(a, kills, s[i], r) : r \in g[i - 1]}
  BY <1>4 DEF TransferRun
<1>6. \A i \in 0 .. n : \A r : g[i] = {r} => h[i] = r
  OBVIOUS
<1> HIDE DEF h
<1>7. D = {}
  <2>1. SUFFICES ASSUME D # {} PROVE FALSE
    OBVIOUS
  <2>2. PICK m \in D : \A k \in D : m <= k
    <3> HIDE DEF D
    <3>1. D \in SUBSET Nat
      BY DEF D
    <3>2. QED
      BY <2>1, <3>1, LeastNat
  <2>3. m # 0 /\ m \in 0 .. n
    <3>1. 0 \in 0 .. n /\ m \in 0 .. n
      BY <1>1
    <3>2. g[0] = {first}
      BY <1>5, <3>1
    <3>3. QED
      BY <1>6, <3>1, <3>2
  <2>4. m - 1 \in Nat /\ m - 1 <= n /\ ~(m <= m - 1)
    BY <1>1, <2>3
  <2>5. g[m - 1] = {h[m - 1]}
    BY <2>2, <2>4
  <2>6. g[m] = {transferStmt(a, kills, s[m], h[m - 1])}
    <3>1. g[m] = {transferStmt(a, kills, s[m], r) : r \in g[m - 1]}
      BY <1>5, <2>3
    <3>2. QED
      BY <2>5, <3>1
  <2>7. QED
    BY <1>6, <2>3, <2>6
<1>8. \A i \in 0 .. n : g[i] = {h[i]}
  BY <1>1, <1>7
<1> HIDE DEF D
<1>9. h[0] = first
  <2>1. 0 \in 0 .. n
    BY <1>1
  <2>2. QED
    BY <1>5, <1>6, <2>1
<1>10. ASSUME NEW i \in 1 .. n
       PROVE  h[i] = transferStmt(a, kills, s[i], h[i - 1])
  <2>1. i \in 0 .. n /\ i # 0 /\ i - 1 \in 0 .. n
    BY <1>1
  <2>2. g[i] = {transferStmt(a, kills, s[i], h[i - 1])}
    <3>1. g[i] = {transferStmt(a, kills, s[i], r) : r \in g[i - 1]}
      BY <1>5, <2>1
    <3>2. g[i - 1] = {h[i - 1]}
      BY <1>8, <2>1
    <3>3. QED
      BY <3>1, <3>2
  <2>3. QED
    BY <1>6, <2>1, <2>2
<1>11. TransferAll(a, kills, first, s) = h[n]
  <2>1. n \in 0 .. n
    BY <1>1
  <2>2. g[n] = {h[n]}
    BY <1>8, <2>1
  <2>3. QED
    BY <1>3, <2>2
<1>12. QED
  BY <1>9, <1>10, <1>11 DEF n

MeetRun(a, facts, s, first, g, n) ==
  g = [i \in 0 .. n |-> IF i = 0 THEN {first} ELSE {meetInto(a, facts[s[i]], r) : r \in g[i - 1]}]

LEMMA MeetRunExists ==
  ASSUME NEW a, NEW facts, NEW S, NEW s \in Seq(S), NEW first, NEW n \in Nat, n <= Len(s)
  PROVE  \E g : MeetRun(a, facts, s, first, g, n)
<1> DEFINE D == {m \in Nat : m <= Len(s) /\ ~\E g : MeetRun(a, facts, s, first, g, m)}
<1>1. SUFFICES ASSUME D # {} PROVE FALSE
  OBVIOUS
<1>2. PICK m \in D : \A k \in D : m <= k
  <2> HIDE DEF D
  <2>1. D \in SUBSET Nat
    BY DEF D
  <2>2. QED
    BY <1>1, <2>1, LeastNat
<1>3. m \in Nat /\ m <= Len(s) /\ Len(s) \in Nat
  OBVIOUS
<1>4. CASE m = 0
  <2> DEFINE g == [i \in 0 .. 0 |-> {first}]
  <2>1. \A i \in 0 .. 0 : i = 0
    OBVIOUS
  <2>2. MeetRun(a, facts, s, first, g, 0)
    BY <2>1 DEF MeetRun
  <2>3. QED
    BY <1>2, <1>4, <2>2
<1>5. CASE m # 0
  <2>1. m - 1 \in Nat /\ m - 1 <= Len(s) /\ ~(m <= m - 1)
    BY <1>3, <1>5
  <2>2. PICK g : MeetRun(a, facts, s, first, g, m - 1)
    BY <1>2, <2>1
  <2> DEFINE h == [i \in 0 .. m |-> IF i = m THEN {meetInto(a, facts[s[m]], r) : r \in g[m - 1]} ELSE g[i]]
  <2>3. ASSUME NEW i \in 0 .. m
        PROVE  h[i] = IF i = 0 THEN {first} ELSE {meetInto(a, facts[s[i]], r) : r \in h[i - 1]}
    <3>1. CASE i = m
      <4>1. h[m - 1] = g[m - 1] /\ h[m] = {meetInto(a, facts[s[m]], r) : r \in g[m - 1]}
        BY <1>3, <1>5
      <4>2. QED
        BY <1>5, <3>1, <4>1
    <3>2. CASE i # m
      <4>1. i \in 0 .. m - 1 /\ i \in 0 .. m
        BY <1>3, <3>2
      <4>2. h[i] = g[i]
        BY <3>2, <4>1
      <4>3. g[i] = IF i = 0 THEN {first} ELSE {meetInto(a, facts[s[i]], r) : r \in g[i - 1]}
        BY <2>2, <4>1 DEF MeetRun
      <4>4. i # 0 => h[i - 1] = g[i - 1]
        <5>1. i # 0 => i - 1 \in 0 .. m /\ i - 1 # m
          BY <1>3, <4>1
        <5>2. QED
          BY <5>1
      <4>5. QED
        BY <4>2, <4>3, <4>4
    <3>3. QED
      BY <3>1, <3>2
  <2>4. MeetRun(a, facts, s, first, h, m)
    <3>1. h = [i \in 0 .. m |-> h[i]]
      OBVIOUS
    <3> HIDE DEF h
    <3>2. QED
      BY <2>3, <3>1 DEF MeetRun
  <2>5. QED
    BY <1>2, <2>4
<1>6. QED
  BY <1>4, <1>5

MeetsIn(a, facts, s, first, h) ==
  /\ h[0] = first /\ MeetAll(a, facts, s, first) = h[Len(s)]
  /\ \A i \in 1 .. Len(s) : h[i] = meetInto(a, facts[s[i]], h[i - 1])

LEMMA MeetRuns ==
  ASSUME NEW a, NEW facts, NEW S, NEW s \in Seq(S), NEW first
  PROVE  \E h : MeetsIn(a, facts, s, first, h)
<1> DEFINE n == Len(s)
           g == CHOOSE after : MeetRun(a, facts, s, first, after, n)
<1>1. n \in Nat
  OBVIOUS
<1>2. \E after : MeetRun(a, facts, s, first, after, n)
  <2>1. n <= n
    BY <1>1
  <2>2. QED
    BY <1>1, <2>1, MeetRunExists
<1>3. MeetAll(a, facts, s, first) = CHOOSE r \in g[n] : TRUE
  BY Zenon DEF MeetAll, Through, MeetRun
<1> HIDE DEF n
<1>4. MeetRun(a, facts, s, first, g, n)
  BY <1>2
<1> HIDE DEF g
<1> DEFINE h == [i \in 0 .. n |-> CHOOSE r \in g[i] : TRUE]
           D == {i \in Nat : i <= n /\ g[i] # {h[i]}}
<1>5. \A i \in 0 .. n : g[i] = IF i = 0 THEN {first} ELSE {meetInto(a, facts[s[i]], r) : r \in g[i - 1]}
  BY <1>4 DEF MeetRun
<1>6. \A i \in 0 .. n : \A r : g[i] = {r} => h[i] = r
  OBVIOUS
<1> HIDE DEF h
<1>7. D = {}
  <2>1. SUFFICES ASSUME D # {} PROVE FALSE
    OBVIOUS
  <2>2. PICK m \in D : \A k \in D : m <= k
    <3> HIDE DEF D
    <3>1. D \in SUBSET Nat
      BY DEF D
    <3>2. QED
      BY <2>1, <3>1, LeastNat
  <2>3. m # 0 /\ m \in 0 .. n
    <3>1. 0 \in 0 .. n /\ m \in 0 .. n
      BY <1>1
    <3>2. g[0] = {first}
      BY <1>5, <3>1
    <3>3. QED
      BY <1>6, <3>1, <3>2
  <2>4. m - 1 \in Nat /\ m - 1 <= n /\ ~(m <= m - 1)
    BY <1>1, <2>3
  <2>5. g[m - 1] = {h[m - 1]}
    BY <2>2, <2>4
  <2>6. g[m] = {meetInto(a, facts[s[m]], h[m - 1])}
    <3>1. g[m] = {meetInto(a, facts[s[m]], r) : r \in g[m - 1]}
      BY <1>5, <2>3
    <3>2. QED
      BY <2>5, <3>1
  <2>7. QED
    BY <1>6, <2>3, <2>6
<1>8. \A i \in 0 .. n : g[i] = {h[i]}
  BY <1>1, <1>7
<1> HIDE DEF D
<1>9. h[0] = first
  <2>1. 0 \in 0 .. n
    BY <1>1
  <2>2. QED
    BY <1>5, <1>6, <2>1
<1>10. ASSUME NEW i \in 1 .. n
       PROVE  h[i] = meetInto(a, facts[s[i]], h[i - 1])
  <2>1. i \in 0 .. n /\ i # 0 /\ i - 1 \in 0 .. n
    BY <1>1
  <2>2. g[i] = {meetInto(a, facts[s[i]], h[i - 1])}
    <3>1. g[i] = {meetInto(a, facts[s[i]], r) : r \in g[i - 1]}
      BY <1>5, <2>1
    <3>2. g[i - 1] = {h[i - 1]}
      BY <1>8, <2>1
    <3>3. QED
      BY <3>1, <3>2
  <2>3. QED
    BY <1>6, <2>1, <2>2
<1>11. MeetAll(a, facts, s, first) = h[n]
  <2>1. n \in 0 .. n
    BY <1>1
  <2>2. g[n] = {h[n]}
    BY <1>8, <2>1
  <2>3. QED
    BY <1>3, <2>2
<1>12. QED
  BY <1>9, <1>10, <1>11 DEF n, MeetsIn

\* All the facts have flowed in, in whatever order they came, and what had before has stayed.
LEMMA MeetAllFacts ==
  ASSUME NEW a \in Analyses, NEW facts, NEW S, NEW bs \in Seq(S),
         \A i \in 1 .. Len(bs) : Fact(a, facts[bs[i]]),
         NEW first, Stored(a, first)
  PROVE  LET new == MeetAll(a, facts, bs, first)
         IN  /\ Stored(a, new)
             /\ \A i \in 1 .. Len(bs) : Absorbed(a, facts[bs[i]], new)
             /\ \A other : Absorbed(a, other, first) => Absorbed(a, other, new)
             /\ Lower(a, new, first)
<1>0. PICK h : MeetsIn(a, facts, bs, first, h)
  BY MeetRuns
<1>1. /\ h[0] = first /\ MeetAll(a, facts, bs, first) = h[Len(bs)]
      /\ \A i \in 1 .. Len(bs) : h[i] = meetInto(a, facts[bs[i]], h[i - 1])
  BY <1>0 DEF MeetsIn
<1>2. Len(bs) \in Nat
  OBVIOUS
<1> DEFINE Done(i) == /\ Stored(a, h[i])
                      /\ \A j \in 1 .. i : Absorbed(a, facts[bs[j]], h[i])
                      /\ \A other : Absorbed(a, other, first) => Absorbed(a, other, h[i])
                      /\ Lower(a, h[i], first)
           D == {i \in Nat : i <= Len(bs) /\ ~Done(i)}
<1>3. D = {}
  <2>1. SUFFICES ASSUME D # {} PROVE FALSE
    OBVIOUS
  <2>2. PICK m \in D : \A k \in D : m <= k
    <3> HIDE DEF D
    <3>1. D \in SUBSET Nat
      BY DEF D
    <3>2. QED
      BY <2>1, <3>1, LeastNat
  <2>3. m \in Nat /\ m <= Len(bs) /\ ~Done(m)
    OBVIOUS
  <2>4. m # 0
    <3>1. ASSUME m = 0 PROVE FALSE
      <4>1. h[m] = first /\ 1 .. m = {}
        BY <1>1, <3>1
      <4>2. Done(m)
        BY <4>1, LowerOrder
      <4>3. QED
        BY <2>3, <4>2
    <3>2. QED
      BY <3>1
  <2>5. m - 1 \in Nat /\ m - 1 <= Len(bs) /\ ~(m <= m - 1) /\ m \in 1 .. Len(bs)
    BY <1>2, <2>3, <2>4
  <2>6. Done(m - 1)
    <3>1. m - 1 \notin D
      <4> HIDE DEF D
      <4>1. QED
        BY <2>2, <2>5
    <3> HIDE DEF Done
    <3>2. QED
      BY <2>5, <3>1
  <2>7. h[m] = meetInto(a, facts[bs[m]], h[m - 1]) /\ Fact(a, facts[bs[m]])
    BY <1>1, <2>5
  <2>8. /\ Stored(a, h[m])
        /\ Absorbed(a, facts[bs[m]], h[m])
        /\ \A other : Absorbed(a, other, h[m - 1]) => Absorbed(a, other, h[m])
        /\ Lower(a, h[m], h[m - 1])
    BY <2>6, <2>7, MeetFacts
  <2>9. \A j \in 1 .. m : j = m \/ j \in 1 .. m - 1
    BY <2>3
  <2>10. Lower(a, h[m], first)
    BY <2>6, <2>8, LowerOrder
  <2>11. Done(m)
    BY <2>6, <2>8, <2>9, <2>10
  <2>12. QED
    BY <2>3, <2>11
<1>4. Done(Len(bs))
  <2> HIDE DEF Done
  <2>1. QED
    BY <1>2, <1>3
<1>5. QED
  BY <1>1, <1>4

-----------------------------------------------------------------------------
(* A block. *)

LEMMA TransferFact ==
  ASSUME NEW a \in Analyses, NEW kills, NEW s, NEW x, Fact(a, x)
  PROVE  Fact(a, transferStmt(a, kills, s, x))
<1>1. CASE a = "constant"
  <2>1. \A f, v, y : IsMap(With(f, v, y)) /\ IsMap(Without(f, v))
    BY DEF IsMap, With, Without
  <2>2. \A v, y : IsMap(Fact_update_value(x, v, y))
    BY <2>1 DEF Fact_update_value
  <2>3. IsMap(x)
    BY <1>1 DEF Fact
  <2>4. IsMap(ConstantTransfer(s, x))
    BY <2>2, <2>3 DEF ConstantTransfer
  <2>5. QED
    BY <1>1, <2>4 DEF Fact, transferStmt
<1>2. CASE a = "available"
  <2>1. x \in [top : BOOLEAN, set : {x.set}]
    BY <1>2 DEF Fact
  <2>2. PICK set : AvailableTransfer(kills, s, x) = [x EXCEPT !.set = set]
    BY DEF AvailableTransfer
  <2>3. [x EXCEPT !.set = set] \in [top : BOOLEAN, set : {[x EXCEPT !.set = set].set}]
    BY <2>1
  <2>4. QED
    BY <1>2, <2>2, <2>3 DEF Fact, transferStmt
<1>3. CASE a = "copy"
  <2>1. \A y : Fact("copy", y) <=> /\ y \in [top : BOOLEAN, use : {y.use}, def : {y.def}]
                                   /\ IsMap(y.use) /\ IsMap(y.def)
    BY DEF Fact
  <2>2. \A f, v, y : IsMap(With(f, v, y)) /\ IsMap(Without(f, v))
    BY DEF IsMap, With, Without
  <2>3. ASSUME NEW y, Fact("copy", y), NEW use, IsMap(use), NEW def, IsMap(def)
        PROVE  Fact("copy", [y EXCEPT !.use = use, !.def = def])
    <3>1. y \in [top : BOOLEAN, use : {y.use}, def : {y.def}]
      BY <2>1, <2>3
    <3> DEFINE z == [y EXCEPT !.use = use, !.def = def]
    <3>2. z.use = use /\ z.def = def /\ z \in [top : BOOLEAN, use : {use}, def : {def}]
      BY <3>1
    <3> HIDE DEF z
    <3>3. QED
      BY <2>1, <2>3, <3>2 DEF z
  <2> DEFINE v == s.rd
             f1 == IF v \notin DOMAIN x.use THEN x
                   ELSE [x EXCEPT !.use = Without(@, v), !.def = Without(@, x.use[v])]
             f2 == IF v \notin DOMAIN f1.def THEN f1
                   ELSE [f1 EXCEPT !.use = Without(@, f1.def[v]), !.def = Without(@, v)]
             f3 == IF s.kind = "assign" /\ IsVar(s.use[1])
                   THEN [f2 EXCEPT !.use = With(@, v, s.use[1][2]), !.def = With(@, s.use[1][2], v)]
                   ELSE f2
  <2>4. Fact("copy", f1)
    BY <1>3, <2>2, <2>3
  <2>5. Fact("copy", f2)
    <3> HIDE DEF f1
    <3>1. QED
      BY <2>2, <2>3, <2>4
  <2>6. Fact("copy", f3)
    <3> HIDE DEF f2
    <3>1. QED
      BY <2>2, <2>3, <2>5
  <2>7. transferStmt(a, kills, s, x) = f3
    BY <1>3, Zenon DEF transferStmt, CopyTransfer
  <2> HIDE DEF f3
  <2>8. QED
    BY <1>3, <2>6, <2>7
<1>4. CASE a = "live"
  BY <1>4 DEF Fact
<1>5. QED
  BY <1>1, <1>2, <1>3, <1>4 DEF Analyses

LEMMA InitialFacts ==
  ASSUME NEW a \in Analyses, NEW f
  PROVE  Stored(a, newInitialFact(a)) /\ Stored(a, newBoundaryFact(a, f))
<1>1. IsMap(Nothing)
  BY DEF IsMap, Nothing
<1>2. CASE a = "constant"
  BY <1>1, <1>2 DEF Stored, Fact, newInitialFact, newBoundaryFact, IsMap
<1>3. CASE a = "available"
  BY <1>3 DEF Stored, Fact, newInitialFact, newBoundaryFact
<1>4. CASE a = "copy"
  BY <1>1, <1>4 DEF Stored, Fact, newInitialFact, newBoundaryFact
<1>5. CASE a = "live"
  BY <1>5 DEF Stored, Fact
<1>6. QED
  BY <1>2, <1>3, <1>4, <1>5 DEF Analyses

LEMMA TransferAllFact ==
  ASSUME NEW a \in Analyses, NEW kills, NEW S, NEW s \in Seq(S), NEW first, Fact(a, first)
  PROVE  Fact(a, TransferAll(a, kills, first, s))
<1>1. PICK h : /\ h[0] = first /\ TransferAll(a, kills, first, s) = h[Len(s)]
               /\ \A i \in 1 .. Len(s) : h[i] = transferStmt(a, kills, s[i], h[i - 1])
  BY TransferRuns
<1>2. Len(s) \in Nat
  OBVIOUS
<1> DEFINE D == {i \in Nat : i <= Len(s) /\ ~Fact(a, h[i])}
<1>3. D = {}
  <2>1. SUFFICES ASSUME D # {} PROVE FALSE
    OBVIOUS
  <2>2. PICK m \in D : \A k \in D : m <= k
    <3> HIDE DEF D
    <3>1. D \in SUBSET Nat
      BY DEF D
    <3>2. QED
      BY <2>1, <3>1, LeastNat
  <2>3. m # 0
    BY <1>1
  <2>4. m - 1 \in Nat /\ m - 1 <= Len(s) /\ ~(m <= m - 1) /\ m \in 1 .. Len(s)
    BY <1>2, <2>3
  <2>5. Fact(a, h[m - 1])
    BY <2>2, <2>4
  <2>6. QED
    BY <1>1, <2>4, <2>5, TransferFact
<1>4. QED
  BY <1>1, <1>2, <1>3

LEMMA ReverseIs ==
  ASSUME NEW S, NEW s \in Seq(S)
  PROVE  Reverse(s) \in Seq(S)
<1>1. \A i \in 1 .. Len(s) : (Len(s) - i) + 1 \in 1 .. Len(s)
  OBVIOUS
<1>2. QED
  BY <1>1 DEF Reverse

\* A block makes a fact of a fact.
LEMMA BlockFact ==
  ASSUME NEW p, Analysis(p) \in Analyses, NEW b, IsList(Func(p).blocks[b].stmts),
         NEW fact, Fact(Analysis(p), fact)
  PROVE  Fact(Analysis(p), transferBlock(p, b, fact))
<1> DEFINE a == Analysis(p)
           ss == Func(p).blocks[b].stmts
           S == {ss[i] : i \in DOMAIN ss}
           start == meetInto(a, fact, newInitialFact(a))
           order == IF isForward(a) THEN ss ELSE Reverse(ss)
<1>1. transferBlock(p, b, fact) = TransferAll(a, p.kills, start, order)
  BY Zenon DEF transferBlock, TransferAll
<1>2. order \in Seq(S)
  <2>1. ss \in Seq(S)
    BY DEF IsList
  <2> HIDE DEF ss, S
  <2>2. QED
    BY <2>1, ReverseIs
<1>3. Fact(a, start)
  BY InitialFacts, MeetFacts DEF Stored
<1> HIDE DEF order, start, S, ss
<1>4. QED
  BY <1>1, <1>2, <1>3, TransferAllFact

-----------------------------------------------------------------------------
(* The inductive invariant: a block is settled or waits for a visit. *)

Waiting(p, b) == \E k \in 1 .. Len(p.queue) : p.queue[k] = b

IInv(p) ==
  /\ Ready(p)
  /\ p.in = [b \in Blocks(p) |-> p.in[b]] /\ p.out = [b \in Blocks(p) |-> p.out[b]]
  /\ \A b \in Blocks(p) : Stored(Analysis(p), p.in[b]) /\ Stored(Analysis(p), p.out[b])
  /\ p.queue \in Seq(Blocks(p))
  /\ \A b \in Blocks(p) : Settled(p, b) \/ Waiting(p, b)

LEMMA BlocksAre ==
  ASSUME NEW p, Ready(p)
  PROVE  Blocks(p) = 1 .. Len(Func(p).blocks) /\ Len(Func(p).blocks) \in Nat
<1>1. Func(p).blocks \in Seq({Func(p).blocks[i] : i \in DOMAIN Func(p).blocks})
  BY DEF Ready, Linked, IsList
<1>2. \A S, s : s \in Seq(S) => DOMAIN s = 1 .. Len(s) /\ Len(s) \in Nat
  OBVIOUS
<1>3. QED
  BY <1>1, <1>2 DEF Blocks

LEMMA TransferBlockIs ==
  ASSUME NEW p, NEW b, NEW fact
  PROVE  transferBlock(p, b, fact) =
           TransferAll(Analysis(p), p.kills, meetInto(Analysis(p), fact, newInitialFact(Analysis(p))),
                       IF isForward(Analysis(p)) THEN Func(p).blocks[b].stmts ELSE Reverse(Func(p).blocks[b].stmts))
BY Zenon DEF transferBlock, TransferAll

\* What an analysis leaves as it is.
LEMMA SameProgram ==
  ASSUME NEW p, Ready(p), NEW q, DOMAIN q = DOMAIN p,
         q.funcs = p.funcs, q.f = p.f, q.todo = p.todo, q.kills = p.kills
  PROVE  /\ Ready(q) /\ Func(q) = Func(p) /\ Analysis(q) = Analysis(p) /\ Blocks(q) = Blocks(p)
         /\ \A b, x : transferBlock(q, b, x) = transferBlock(p, b, x)
<1>1. Func(q) = Func(p) /\ Analysis(q) = Analysis(p) /\ Blocks(q) = Blocks(p)
  BY DEF Func, Analysis, Blocks
<1>2. \A b, x : transferBlock(q, b, x) = transferBlock(p, b, x)
  BY <1>1, TransferBlockIs
<1>3. Ready(q)
  BY <1>1 DEF Ready
<1>4. QED
  BY <1>1, <1>2, <1>3

LEMMA InitializeIs ==
  ASSUME NEW p, Ready(p)
  PROVE  LET q == Initialize(p)
             a == Analysis(p)
         IN  /\ DOMAIN q = DOMAIN p
             /\ q.funcs = p.funcs /\ q.f = p.f /\ q.todo = p.todo /\ q.kills = p.kills
             /\ q.queue = [b \in Blocks(p) |-> b]
             /\ Before(q) = [b \in Blocks(p) |-> newInitialFact(a)]
             /\ After(q) = [b \in Blocks(p) |-> IF b = Edge(p) THEN newBoundaryFact(a, Func(p)) ELSE newInitialFact(a)]
<1> DEFINE q == Initialize(p)
           a == Analysis(p)
           first == newInitialFact(a)
           edge == newBoundaryFact(a, Func(p))
           n == Len(Func(p).blocks)
           in == [b \in Blocks(p) |-> IF ~isForward(a) /\ b = n THEN edge ELSE first]
           out == [b \in Blocks(p) |-> IF isForward(a) /\ b = 1 THEN edge ELSE first]
           queue == [b \in Blocks(p) |-> b]
<1>1. q = [p EXCEPT !.in = in, !.out = out, !.queue = queue, !.block = 1, !.updated = FALSE]
  BY DEF Initialize
<1>2. Parts \subseteq DOMAIN p
  BY DEF Ready
<1> HIDE DEF in, out, queue, q
<1>3. /\ q.in = in /\ q.out = out /\ q.queue = queue /\ DOMAIN q = DOMAIN p
      /\ q.funcs = p.funcs /\ q.f = p.f /\ q.todo = p.todo /\ q.kills = p.kills
  BY <1>1, <1>2 DEF Parts
<1>4. Analysis(q) = a
  BY <1>3 DEF Analysis
<1> HIDE DEF first, edge
<1>5. CASE isForward(a)
  <2>1. Before(q) = in /\ After(q) = out /\ Edge(p) = 1
    BY <1>3, <1>4, <1>5 DEF Before, After, Edge
  <2>2. in = [b \in Blocks(p) |-> first] /\ out = [b \in Blocks(p) |-> IF b = 1 THEN edge ELSE first]
    BY <1>5 DEF in, out
  <2>3. QED
    BY <1>3, <2>1, <2>2 DEF q, first, edge, queue
<1>6. CASE ~isForward(a)
  <2>1. Before(q) = out /\ After(q) = in /\ Edge(p) = n
    BY <1>3, <1>4, <1>6 DEF Before, After, Edge
  <2>2. out = [b \in Blocks(p) |-> first] /\ in = [b \in Blocks(p) |-> IF b = n THEN edge ELSE first]
    BY <1>6 DEF in, out
  <2>3. QED
    BY <1>3, <2>1, <2>2 DEF q, first, edge, queue
<1>7. QED
  BY <1>5, <1>6

LEMMA SolverStarts ==
  ASSUME NEW p, Ready(p)
  PROVE  IInv(Initialize(p))
<1> DEFINE q == Initialize(p)
           a == Analysis(p)
           first == newInitialFact(a)
           edge == newBoundaryFact(a, Func(p))
           n == Len(Func(p).blocks)
           queue == [b \in Blocks(p) |-> b]
<1>1. /\ DOMAIN q = DOMAIN p
      /\ q.funcs = p.funcs /\ q.f = p.f /\ q.todo = p.todo /\ q.kills = p.kills
      /\ q.queue = queue
      /\ Before(q) = [b \in Blocks(p) |-> first]
      /\ After(q) = [b \in Blocks(p) |-> IF b = Edge(p) THEN edge ELSE first]
  BY InitializeIs
<1>2. Stored(a, first) /\ Stored(a, edge) /\ a \in Analyses
  BY InitialFacts DEF Ready
<1>3. queue \in Seq(Blocks(p)) /\ \A b \in Blocks(p) : b \in 1 .. Len(queue) /\ queue[b] = b
  <2>1. Blocks(p) = 1 .. n /\ n \in Nat
    BY BlocksAre
  <2> HIDE DEF n
  <2>2. QED
    BY <2>1
<1> HIDE DEF q, first, edge, queue
<1>4. Ready(q) /\ Analysis(q) = a /\ Blocks(q) = Blocks(p)
  BY <1>1, SameProgram
<1>5. /\ q.in = [b \in Blocks(p) |-> q.in[b]] /\ q.out = [b \in Blocks(p) |-> q.out[b]]
      /\ \A b \in Blocks(p) : Stored(a, q.in[b]) /\ Stored(a, q.out[b])
  <2>1. /\ \A b \in Blocks(p) : Stored(a, Before(q)[b]) /\ Stored(a, After(q)[b])
        /\ Before(q) = [b \in Blocks(p) |-> Before(q)[b]] /\ After(q) = [b \in Blocks(p) |-> After(q)[b]]
    <3> HIDE DEF a
    <3>1. QED
      BY <1>1, <1>2
  <2>2. QED
    BY <1>4, <2>1 DEF Before, After
<1>6. \A b \in Blocks(q) : Waiting(q, b)
  BY <1>1, <1>3, <1>4 DEF Waiting
<1> HIDE DEF a
<1>7. IInv(q)
  BY <1>1, <1>3, <1>4, <1>5, <1>6 DEF IInv
<1>8. QED
  BY <1>7 DEF q

\* What one visit of block b finds: x on the side where facts flow in, y on the other.
Found(p, b, x, y) ==
  LET a == Analysis(p)
  IN  /\ x = MeetAll(a, After(p), Sources(p, b), Before(p)[b])
      /\ y = meetInto(a, transferBlock(p, b, x), After(p)[b])
      /\ Stored(a, x) /\ Stored(a, y)
      /\ \A k \in 1 .. Len(Sources(p, b)) : Absorbed(a, After(p)[Sources(p, b)[k]], x)
      /\ Absorbed(a, transferBlock(p, b, x), y)
      /\ Lower(a, x, Before(p)[b]) /\ Lower(a, y, After(p)[b])

LEMMA VisitFinds ==
  ASSUME NEW p, IInv(p), NEW b \in Blocks(p)
  PROVE  \E x, y :
           /\ Found(p, b, x, y)
           /\ Visit(p, b) = IF isForward(Analysis(p)) THEN [p EXCEPT !.in[b] = x, !.out[b] = y]
                                                      ELSE [p EXCEPT !.out[b] = x, !.in[b] = y]
<1> DEFINE a == Analysis(p)
           next == Sources(p, b)
           from == After(p)
           to == Before(p)
           x == MeetAll(a, from, next, to[b])
           y == meetInto(a, transferBlock(p, b, x), from[b])
<1>1. a \in Analyses /\ Ready(p) /\ Linked(Func(p))
  BY DEF IInv, Ready
<1>2. next \in Seq(Blocks(p))
  BY <1>1 DEF Linked, Blocks, Sources
<1>3. \A c \in Blocks(p) : Stored(a, from[c]) /\ Stored(a, to[c]) /\ Fact(a, from[c])
  BY DEF IInv, Stored, Before, After
<1>4. /\ Stored(a, x)
      /\ \A k \in 1 .. Len(next) : Absorbed(a, from[next[k]], x)
      /\ Lower(a, x, to[b])
  <2>1. \A k \in 1 .. Len(next) : next[k] \in Blocks(p)
    <3> HIDE DEF next
    <3>1. QED
      BY <1>2
  <2>2. \A k \in 1 .. Len(next) : Fact(a, from[next[k]])
    <3> HIDE DEF next, from, a
    <3>1. QED
      BY <1>3, <2>1
  <2>3. Stored(a, to[b])
    BY <1>3
  <2> HIDE DEF next, from, a, to
  <2>4. QED
    BY <1>1, <1>2, <2>2, <2>3, MeetAllFacts
<1>5. Fact(a, transferBlock(p, b, x))
  <2> HIDE DEF x
  <2>1. Fact(a, x) /\ IsList(Func(p).blocks[b].stmts)
    BY <1>1, <1>4 DEF Ready, Stored
  <2>2. QED
    BY <1>1, <2>1, BlockFact
<1>6. /\ Stored(a, y)
      /\ Absorbed(a, transferBlock(p, b, x), y)
      /\ Lower(a, y, from[b])
  <2> HIDE DEF x, from, a
  <2>1. QED
    BY <1>1, <1>3, <1>5, MeetFacts
<1>7. Found(p, b, x, y)
  <2>1. /\ x = MeetAll(a, from, next, to[b])
        /\ y = meetInto(a, transferBlock(p, b, x), from[b])
    BY DEF x, y
  <2> HIDE DEF x, y
  <2>2. QED
    BY <1>4, <1>6, <2>1 DEF Found
<1>8. CASE isForward(a)
  <2>1. Visit(p, b) = [p EXCEPT !.in[b] = x, !.out[b] = y]
    BY <1>8 DEF Visit, Before, After, Sources
  <2>2. QED
    BY <1>7, <1>8, <2>1
<1>9. CASE ~isForward(a)
  <2>1. Visit(p, b) = [p EXCEPT !.out[b] = x, !.in[b] = y]
    BY <1>9 DEF Visit, Before, After, Sources
  <2>2. QED
    BY <1>7, <1>9, <2>1
<1>10. QED
  BY <1>8, <1>9

\* One step: the facts it changes, and the queue it leaves.
LEMMA StepIs ==
  ASSUME NEW p, IInv(p), p.queue # <<>>
  PROVE  LET q == worklistDoSolve(p)
             b == Head(p.queue)
         IN  /\ b \in Blocks(p)
             /\ DOMAIN q = DOMAIN p
             /\ q.funcs = p.funcs /\ q.f = p.f /\ q.todo = p.todo /\ q.kills = p.kills
             /\ \E x, y :
                  /\ Found(p, b, x, y)
                  /\ Before(q) = [Before(p) EXCEPT ![b] = x]
                  /\ After(q) = [After(p) EXCEPT ![b] = y]
                  /\ q.queue = Tail(p.queue) \o (IF y # After(p)[b] THEN Dependents(p, b) ELSE <<>>)
<1> DEFINE q == worklistDoSolve(p)
           b == Head(p.queue)
           fwd == isForward(Analysis(p))
           v == Visit(p, b)
<1>1. b \in Blocks(p)
  <2>1. p.queue \in Seq(Blocks(p))
    BY DEF IInv
  <2>2. QED
    BY <2>1
<1>2. PICK x, y : /\ Found(p, b, x, y)
                  /\ v = IF fwd THEN [p EXCEPT !.in[b] = x, !.out[b] = y]
                                ELSE [p EXCEPT !.out[b] = x, !.in[b] = y]
  BY <1>1, VisitFinds
<1>3. /\ Parts \subseteq DOMAIN p
      /\ DOMAIN p.in = Blocks(p) /\ DOMAIN p.out = Blocks(p)
  <2>1. Parts \subseteq DOMAIN p
    BY DEF IInv, Ready
  <2>2. /\ p.in = [c \in Blocks(p) |-> p.in[c]]
        /\ p.out = [c \in Blocks(p) |-> p.out[c]]
    BY DEF IInv
  <2>3. \A g, B : g = [c \in B |-> g[c]] => DOMAIN g = B
    OBVIOUS
  <2>4. QED
    BY <2>1, <2>2, <2>3
<1> HIDE DEF b, fwd
<1>4. /\ DOMAIN v = DOMAIN p
      /\ v.funcs = p.funcs /\ v.f = p.f /\ v.todo = p.todo /\ v.kills = p.kills /\ v.queue = p.queue
      /\ v.in = [p.in EXCEPT ![b] = IF fwd THEN x ELSE y]
      /\ v.out = [p.out EXCEPT ![b] = IF fwd THEN y ELSE x]
  <2> HIDE DEF v
  <2>1. CASE fwd
    BY <1>2, <1>3, <2>1 DEF Parts
  <2>2. CASE ~fwd
    BY <1>2, <1>3, <2>2 DEF Parts
  <2>3. QED
    BY <2>1, <2>2
<1>5. q = [v EXCEPT !.queue = Tail(p.queue) \o
             (IF fwd THEN IF v.out[b] # p.out[b] THEN Func(p).succ[b] ELSE <<>>
              ELSE IF v.in[b] # p.in[b] THEN Func(p).pred[b] ELSE <<>>)]
  <2>1. q = [v EXCEPT !.queue = Tail(v.queue) \o
             (IF fwd THEN IF v.out[b] # p.out[b] THEN Func(p).succ[b] ELSE <<>>
              ELSE IF v.in[b] # p.in[b] THEN Func(p).pred[b] ELSE <<>>)]
    BY DEF worklistDoSolve, b, fwd
  <2> HIDE DEF v, q
  <2>2. QED
    BY <1>4, <2>1
<1> HIDE DEF v, q
<1>6. "queue" \in DOMAIN v
  BY <1>3, <1>4 DEF Parts
<1>7. (IF fwd THEN v.out[b] ELSE v.in[b]) = y
  BY <1>1, <1>3, <1>4
<1>8. q.queue = Tail(p.queue) \o
        (IF y # (IF fwd THEN p.out[b] ELSE p.in[b]) THEN Dependents(p, b) ELSE <<>>)
  <2> DEFINE more == IF y # (IF fwd THEN p.out[b] ELSE p.in[b]) THEN Dependents(p, b) ELSE <<>>
  <2>1. more = (IF fwd THEN IF v.out[b] # p.out[b] THEN Func(p).succ[b] ELSE <<>>
                ELSE IF v.in[b] # p.in[b] THEN Func(p).pred[b] ELSE <<>>)
    BY <1>7 DEF Dependents, fwd
  <2> HIDE DEF more
  <2>2. q = [v EXCEPT !.queue = Tail(p.queue) \o more]
    BY <1>5, <2>1
  <2>3. QED
    BY <1>6, <2>2 DEF more
<1>9. /\ DOMAIN q = DOMAIN v /\ q.in = v.in /\ q.out = v.out
      /\ q.funcs = v.funcs /\ q.f = v.f /\ q.todo = v.todo /\ q.kills = v.kills
  BY <1>5
<1>10. Analysis(q) = Analysis(p)
  BY <1>4, <1>9 DEF Analysis
<1>11. /\ Before(q) = [Before(p) EXCEPT ![b] = x]
       /\ After(q) = [After(p) EXCEPT ![b] = y]
       /\ q.queue = Tail(p.queue) \o (IF y # After(p)[b] THEN Dependents(p, b) ELSE <<>>)
  <2>1. CASE fwd
    BY <1>4, <1>8, <1>9, <1>10, <2>1 DEF Before, After, fwd
  <2>2. CASE ~fwd
    BY <1>4, <1>8, <1>9, <1>10, <2>2 DEF Before, After, fwd
  <2>3. QED
    BY <2>1, <2>2
<1>12. Found(p, b, x, y)
  BY <1>2
<1>13. /\ DOMAIN q = DOMAIN p
       /\ q.funcs = p.funcs /\ q.f = p.f /\ q.todo = p.todo /\ q.kills = p.kills
  BY <1>4, <1>9
<1> USE DEF b, q
<1>14. QED
  BY Zenon, <1>1, <1>11, <1>12, <1>13

LEMMA SolverSteps ==
  ASSUME NEW p, IInv(p), p.queue # <<>>
  PROVE  LET q == worklistDoSolve(p)
         IN  /\ IInv(q)
             /\ \A b \in Blocks(p) : /\ Lower(Analysis(p), q.in[b], p.in[b])
                                     /\ Lower(Analysis(p), q.out[b], p.out[b])
<1> DEFINE q == worklistDoSolve(p)
           b == Head(p.queue)
           a == Analysis(p)
           B == Blocks(p)
           more(y) == IF y # After(p)[b] THEN Dependents(p, b) ELSE <<>>
<1>1. PICK x, y : /\ Found(p, b, x, y)
                  /\ Before(q) = [Before(p) EXCEPT ![b] = x]
                  /\ After(q) = [After(p) EXCEPT ![b] = y]
                  /\ q.queue = Tail(p.queue) \o more(y)
  BY StepIs
<1>2. /\ b \in B /\ DOMAIN q = DOMAIN p
      /\ q.funcs = p.funcs /\ q.f = p.f /\ q.todo = p.todo /\ q.kills = p.kills
  BY StepIs
<1>3. /\ Ready(p) /\ Linked(Func(p)) /\ a \in Analyses
      /\ p.queue \in Seq(B)
      /\ \A c \in B : Settled(p, c) \/ Waiting(p, c)
  BY DEF IInv, Ready
<1>4. /\ Before(p) = [c \in B |-> Before(p)[c]] /\ After(p) = [c \in B |-> After(p)[c]]
      /\ \A c \in B : Stored(a, Before(p)[c]) /\ Stored(a, After(p)[c])
  BY DEF IInv, Before, After
<1> HIDE DEF q, a, B, b
<1>5. /\ Ready(q) /\ Func(q) = Func(p) /\ Analysis(q) = a /\ Blocks(q) = B
      /\ \A c, z : transferBlock(q, c, z) = transferBlock(p, c, z)
  BY <1>2, <1>3, SameProgram DEF a, B
<1>6. /\ Before(q) = [c \in B |-> Before(q)[c]] /\ After(q) = [c \in B |-> After(q)[c]]
      /\ Before(q)[b] = x /\ After(q)[b] = y
      /\ \A c \in B \ {b} : Before(q)[c] = Before(p)[c] /\ After(q)[c] = After(p)[c]
  BY <1>1, <1>2, <1>4
<1>7. /\ Stored(a, x) /\ Stored(a, y)
      /\ \A k \in 1 .. Len(Sources(p, b)) : Absorbed(a, After(p)[Sources(p, b)[k]], x)
      /\ Absorbed(a, transferBlock(p, b, x), y)
      /\ Lower(a, x, Before(p)[b]) /\ Lower(a, y, After(p)[b])
  BY <1>1 DEF Found, a
<1>8. /\ \A c \in B : Sources(q, c) = Sources(p, c) /\ Sources(p, c) \in Seq(B) /\ Dependents(p, c) \in Seq(B)
      /\ \A c, d \in B : (\E k \in DOMAIN Sources(p, d) : Sources(p, d)[k] = c)
                           => \E k \in DOMAIN Dependents(p, c) : Dependents(p, c)[k] = d
  <2>1. /\ \A c \in B : Func(p).pred[c] \in Seq(B) /\ Func(p).succ[c] \in Seq(B)
        /\ \A c, d \in B : (\E k \in DOMAIN Func(p).succ[c] : Func(p).succ[c][k] = d) <=>
                             (\E k \in DOMAIN Func(p).pred[d] : Func(p).pred[d][k] = c)
    BY <1>3 DEF Linked, B, Blocks
  <2>2. \A c \in B : Sources(q, c) = Sources(p, c)
    BY <1>5 DEF Sources, a
  <2>3. CASE isForward(Analysis(p))
    BY <2>1, <2>2, <2>3 DEF Sources, Dependents
  <2>4. CASE ~isForward(Analysis(p))
    BY <2>1, <2>2, <2>4 DEF Sources, Dependents
  <2>5. QED
    BY <2>3, <2>4
<1>9. /\ q.queue \in Seq(B)
      /\ \A c \in B : (\E k \in 1 .. Len(Tail(p.queue)) : Tail(p.queue)[k] = c) => Waiting(q, c)
      /\ \A c \in B : (\E k \in 1 .. Len(more(y)) : more(y)[k] = c) => Waiting(q, c)
  <2>1. Tail(p.queue) \in Seq(B)
    BY <1>3
  <2>2. more(y) \in Seq(B)
    BY <1>2, <1>8
  <2> HIDE DEF more
  <2>3. \A s, t \in Seq(B) :
          /\ s \o t \in Seq(B)
          /\ \A k \in 1 .. Len(s) : k \in 1 .. Len(s \o t) /\ (s \o t)[k] = s[k]
          /\ \A k \in 1 .. Len(t) : Len(s) + k \in 1 .. Len(s \o t) /\ (s \o t)[Len(s) + k] = t[k]
    OBVIOUS
  <2> DEFINE s == Tail(p.queue)
             t == more(y)
  <2> HIDE DEF s, t
  <2>4. s \in Seq(B) /\ t \in Seq(B) /\ q.queue = s \o t
    BY <1>1, <2>1, <2>2 DEF s, t
  <2>5. /\ q.queue \in Seq(B)
        /\ \A k \in 1 .. Len(s) : k \in 1 .. Len(q.queue) /\ q.queue[k] = s[k]
        /\ \A k \in 1 .. Len(t) : Len(s) + k \in 1 .. Len(q.queue) /\ q.queue[Len(s) + k] = t[k]
    BY <2>3, <2>4
  <2>6. /\ \A c \in B : (\E k \in 1 .. Len(s) : s[k] = c) => Waiting(q, c)
        /\ \A c \in B : (\E k \in 1 .. Len(t) : t[k] = c) => Waiting(q, c)
    BY <2>5 DEF Waiting
  <2>7. QED
    BY <2>5, <2>6 DEF s, t
<1>10. ASSUME NEW c \in B, ~Waiting(q, c)
       PROVE  Settled(q, c)
  <2>1. y = After(p)[b] \/ \A k \in DOMAIN Sources(p, c) : Sources(p, c)[k] # b
    <3>1. SUFFICES ASSUME y # After(p)[b], NEW k \in DOMAIN Sources(p, c), Sources(p, c)[k] = b
                   PROVE  FALSE
      OBVIOUS
    <3>2. PICK j \in DOMAIN Dependents(p, b) : Dependents(p, b)[j] = c
      BY <1>2, <1>8, <3>1
    <3>3. j \in 1 .. Len(Dependents(p, b)) /\ more(y) = Dependents(p, b)
      BY <1>2, <1>8, <3>1
    <3>4. QED
      BY <1>9, <1>10, <3>2, <3>3
  <2>2. \A k \in 1 .. Len(Sources(p, c)) : Sources(p, c)[k] \in B /\ k \in DOMAIN Sources(p, c)
    BY <1>8
  <2>3. \A k \in 1 .. Len(Sources(p, c)) : After(q)[Sources(p, c)[k]] = After(p)[Sources(p, c)[k]]
    BY <1>6, <2>1, <2>2
  <2>4. CASE c = b
    BY <1>5, <1>6, <1>7, <1>8, <2>3, <2>4 DEF Settled
  <2>5. CASE c # b
    <3>1. ~Waiting(p, c)
      <4>1. SUFFICES ASSUME NEW k \in 1 .. Len(p.queue), p.queue[k] = c
                     PROVE  FALSE
        BY DEF Waiting
      <4>2. k # 1
        BY <2>5, <4>1 DEF b
      <4>3. k - 1 \in 1 .. Len(Tail(p.queue)) /\ Tail(p.queue)[k - 1] = c
        BY <1>3, <4>1, <4>2
      <4>4. QED
        BY <1>9, <1>10, <4>3
    <3>2. Settled(p, c)
      BY <1>3, <3>1
    <3>3. Before(q)[c] = Before(p)[c] /\ After(q)[c] = After(p)[c]
      BY <1>6, <2>5
    <3>4. QED
      BY <1>5, <1>8, <2>3, <3>2, <3>3 DEF Settled, a
  <2>6. QED
    BY <2>4, <2>5
<1>11. \A c \in B : Stored(a, Before(q)[c]) /\ Stored(a, After(q)[c])
  BY <1>4, <1>6, <1>7
<1>12. \A c \in B : Lower(a, Before(q)[c], Before(p)[c]) /\ Lower(a, After(q)[c], After(p)[c])
  BY <1>3, <1>6, <1>7, LowerOrder
<1>13. /\ q.in = [c \in B |-> q.in[c]] /\ q.out = [c \in B |-> q.out[c]]
       /\ \A c \in B : Stored(a, q.in[c]) /\ Stored(a, q.out[c])
       /\ \A c \in B : Lower(a, q.in[c], p.in[c]) /\ Lower(a, q.out[c], p.out[c])
  <2>1. CASE isForward(a)
    BY <1>5, <1>6, <1>11, <1>12, <2>1 DEF Before, After, a
  <2>2. CASE ~isForward(a)
    BY <1>5, <1>6, <1>11, <1>12, <2>2 DEF Before, After, a
  <2>3. QED
    BY <2>1, <2>2
<1>14. IInv(q)
  BY <1>5, <1>9, <1>10, <1>13 DEF IInv
<1>15. QED
  BY <1>13, <1>14 DEF q, a, B


LEMMA SolverInv == Spec => []IInv(o)
<1>1. Init => IInv(o)
  BY SolverStarts DEF Init
<1>2. IInv(o) /\ [Next]_o => IInv(o)'
  <2>1. ASSUME IInv(o), Next PROVE IInv(o)'
    BY <2>1, SolverSteps DEF Next
  <2>2. QED
    BY <2>1
<1>3. QED
  BY <1>1, <1>2, PTL DEF Spec

\* The worklist solver stops with a solution: whatever the graph of a function and its statements,
\* no block is visited for the last time before a fact that it depends on changes.
THEOREM WorklistSolves == Spec => SolvedAtEnd
<1>1. IInv(o) => (o.queue = <<>> => Solved(o))
  <2>1. \A q : q = <<>> => 1 .. Len(q) = {}
    OBVIOUS
  <2>2. QED
    BY <2>1 DEF IInv, Solved, Waiting
<1>2. QED
  BY <1>1, SolverInv, PTL DEF SolvedAtEnd

\* The facts of every block move one way only, which is why the visits come to an end.
THEOREM WorklistFalls == Spec => FactsFall
<1> DEFINE Falls == \A b \in Blocks(o) : /\ Lower(Analysis(o), o'.in[b], o.in[b])
                                         /\ Lower(Analysis(o), o'.out[b], o.out[b])
<1>1. ASSUME IInv(o), Next PROVE Falls
  BY <1>1, SolverSteps DEF Next
<1>2. IInv(o) /\ [Next]_o => [Falls]_o
  BY <1>1
<1>3. QED
  BY <1>2, SolverInv, PTL DEF Spec, FactsFall

-----------------------------------------------------------------------------
(* The graph. *)

FlattenRun(s, g, n) == g = [i \in 1 .. n |-> IF i = 1 THEN s[i] ELSE g[i - 1] \o s[i]]

LEMMA FlattenRunExists ==
  ASSUME NEW S, NEW s \in Seq(S), NEW n \in Nat, n <= Len(s)
  PROVE  \E g : FlattenRun(s, g, n)
<1> DEFINE D == {m \in Nat : m <= Len(s) /\ ~\E g : FlattenRun(s, g, m)}
<1>1. SUFFICES ASSUME D # {} PROVE FALSE
  OBVIOUS
<1>2. PICK m \in D : \A k \in D : m <= k
  <2> HIDE DEF D
  <2>1. D \in SUBSET Nat
    BY DEF D
  <2>2. QED
    BY <1>1, <2>1, LeastNat
<1>3. m \in Nat /\ m <= Len(s) /\ Len(s) \in Nat
  OBVIOUS
<1>4. CASE m = 0
  <2> DEFINE g == [i \in 1 .. 0 |-> s]
  <2>1. \A i \in 1 .. 0 : FALSE
    OBVIOUS
  <2>2. FlattenRun(s, g, 0)
    BY <2>1 DEF FlattenRun
  <2>3. QED
    BY <1>2, <1>4, <2>2
<1>5. CASE m # 0
  <2>1. m - 1 \in Nat /\ m - 1 <= Len(s) /\ ~(m <= m - 1)
    BY <1>3, <1>5
  <2>2. PICK g : FlattenRun(s, g, m - 1)
    BY <1>2, <2>1
  <2> DEFINE h == [i \in 1 .. m |-> IF i = m THEN IF m = 1 THEN s[m] ELSE g[m - 1] \o s[m] ELSE g[i]]
  <2>3. ASSUME NEW i \in 1 .. m
        PROVE  h[i] = IF i = 1 THEN s[i] ELSE h[i - 1] \o s[i]
    <3>1. CASE i = m
      <4>1. h[m] = IF m = 1 THEN s[m] ELSE g[m - 1] \o s[m]
        OBVIOUS
      <4>2. m # 1 => h[m - 1] = g[m - 1]
        <5>1. m # 1 => m - 1 \in 1 .. m /\ m - 1 # m
          BY <1>3, <1>5
        <5>2. QED
          BY <5>1
      <4>3. QED
        BY <3>1, <4>1, <4>2
    <3>2. CASE i # m
      <4>1. i \in 1 .. m - 1 /\ i \in 1 .. m
        BY <1>3, <3>2
      <4>2. h[i] = g[i]
        BY <3>2, <4>1
      <4>3. g[i] = IF i = 1 THEN s[i] ELSE g[i - 1] \o s[i]
        BY <2>2, <4>1 DEF FlattenRun
      <4>4. i # 1 => h[i - 1] = g[i - 1]
        <5>1. i # 1 => i - 1 \in 1 .. m /\ i - 1 # m
          BY <1>3, <4>1
        <5>2. QED
          BY <5>1
      <4>5. QED
        BY <4>2, <4>3, <4>4
    <3>3. QED
      BY <3>1, <3>2
  <2>4. FlattenRun(s, h, m)
    <3>1. h = [i \in 1 .. m |-> h[i]]
      OBVIOUS
    <3> HIDE DEF h
    <3>2. QED
      BY <2>3, <3>1 DEF FlattenRun
  <2>5. QED
    BY <1>2, <2>4
<1>6. QED
  BY <1>4, <1>5

Has(s, x) == \E k \in DOMAIN s : s[k] = x

\* A list of lists in one list.
LEMMA FlattenIs ==
  ASSUME NEW S, NEW s \in Seq(Seq(S))
  PROVE  /\ FlattenSeq(s) \in Seq(S)
         /\ \A x : Has(FlattenSeq(s), x) <=> \E i \in DOMAIN s : Has(s[i], x)
<1>1. CASE Len(s) = 0
  <2>1. FlattenSeq(s) = s
    BY <1>1 DEF FlattenSeq
  <2>2. s = <<>> /\ DOMAIN s = {}
    BY <1>1
  <2>3. <<>> \in Seq(S)
    OBVIOUS
  <2>4. QED
    BY <2>1, <2>2, <2>3 DEF Has
<1>2. CASE Len(s) # 0
  <2> DEFINE n == Len(s)
             g == CHOOSE r : FlattenRun(s, r, n)
  <2>1. n \in Nat
    OBVIOUS
  <2>2. \E r : FlattenRun(s, r, n)
    <3>1. n <= n
      BY <2>1
    <3>2. QED
      BY <2>1, <3>1, FlattenRunExists
  <2>3. FlattenSeq(s) = g[n]
    BY <1>2, Zenon DEF FlattenSeq, FlattenRun
  <2> HIDE DEF n
  <2>4. FlattenRun(s, g, n)
    BY <2>2
  <2> HIDE DEF g
  <2>5. \A i \in 1 .. n : g[i] = IF i = 1 THEN s[i] ELSE g[i - 1] \o s[i]
    BY <2>4 DEF FlattenRun
  <2>6. \A i \in 1 .. n : s[i] \in Seq(S)
    BY DEF n
  <2> DEFINE Done(i) == g[i] \in Seq(S) /\ \A x : Has(g[i], x) <=> \E j \in 1 .. i : Has(s[j], x)
             D == {i \in Nat : 1 <= i /\ i <= n /\ ~Done(i)}
  <2>7. D = {}
    <3>1. SUFFICES ASSUME D # {} PROVE FALSE
      OBVIOUS
    <3>2. PICK m \in D : \A k \in D : m <= k
      <4> HIDE DEF D
      <4>1. D \in SUBSET Nat
        BY DEF D
      <4>2. QED
        BY <3>1, <4>1, LeastNat
    <3>3. m \in Nat /\ m \in 1 .. n /\ ~Done(m)
      BY <2>1
    <3>4. CASE m = 1
      <4>1. g[m] = s[m] /\ 1 .. m = {m}
        BY <2>5, <3>3, <3>4
      <4>2. Done(m)
        BY <2>6, <3>3, <4>1
      <4>3. QED
        BY <3>3, <4>2
    <3>5. CASE m # 1
      <4>1. /\ m - 1 \in Nat /\ 1 <= m - 1 /\ m - 1 <= n /\ ~(m <= m - 1)
            /\ \A j : j \in 1 .. m <=> j = m \/ j \in 1 .. m - 1
        BY <2>1, <3>3, <3>5
      <4>2. Done(m - 1)
        <5>1. m - 1 \notin D
          <6> HIDE DEF D
          <6>1. QED
            BY <3>2, <4>1
        <5> HIDE DEF Done
        <5>2. QED
          BY <4>1, <5>1
      <4>3. g[m] = g[m - 1] \o s[m] /\ s[m] \in Seq(S) /\ g[m - 1] \in Seq(S)
        BY <2>5, <2>6, <3>3, <3>5, <4>2
      <4>4. ASSUME NEW u \in Seq(S), NEW w \in Seq(S)
            PROVE  u \o w \in Seq(S) /\ \A x : Has(u \o w, x) <=> Has(u, x) \/ Has(w, x)
        <5>1. /\ u \o w \in Seq(S) /\ DOMAIN (u \o w) = 1 .. Len(u) + Len(w)
              /\ DOMAIN u = 1 .. Len(u) /\ DOMAIN w = 1 .. Len(w)
              /\ Len(u) \in Nat /\ Len(w) \in Nat
          OBVIOUS
        <5>2. \A k \in 1 .. Len(u) : k \in 1 .. Len(u) + Len(w) /\ (u \o w)[k] = u[k]
          BY <5>1
        <5>3. \A k \in 1 .. Len(w) : Len(u) + k \in 1 .. Len(u) + Len(w) /\ (u \o w)[Len(u) + k] = w[k]
          BY <5>1
        <5>4. \A k \in 1 .. Len(u) + Len(w) : k \in 1 .. Len(u) \/ (k - Len(u) \in 1 .. Len(w) /\ (u \o w)[k] = w[k - Len(u)])
          BY <5>1
        <5>5. ASSUME NEW x, Has(u \o w, x)
              PROVE  Has(u, x) \/ Has(w, x)
          <6>1. PICK k \in 1 .. Len(u) + Len(w) : (u \o w)[k] = x
            BY <5>1, <5>5 DEF Has
          <6>2. CASE k \in 1 .. Len(u)
            BY <5>1, <5>2, <6>1, <6>2 DEF Has
          <6>3. CASE k \notin 1 .. Len(u)
            BY <5>1, <5>4, <6>1, <6>3 DEF Has
          <6>4. QED
            BY <6>2, <6>3
        <5>6. ASSUME NEW x, Has(u, x)
              PROVE  Has(u \o w, x)
          BY <5>1, <5>2, <5>6 DEF Has
        <5>7. ASSUME NEW x, Has(w, x)
              PROVE  Has(u \o w, x)
          BY <5>1, <5>3, <5>7 DEF Has
        <5>8. QED
          BY <5>1, <5>5, <5>6, <5>7
      <4>5. Done(m)
        <5>1. g[m] \in Seq(S) /\ \A x : Has(g[m], x) <=> Has(g[m - 1], x) \/ Has(s[m], x)
          BY <4>3, <4>4
        <5>2. \A x : Has(g[m], x) <=> \E j \in 1 .. m : Has(s[j], x)
          BY <4>1, <4>2, <5>1
        <5>3. QED
          BY <5>1, <5>2
      <4>6. QED
        BY <3>3, <4>5
    <3>6. QED
      BY <3>4, <3>5
  <2>8. Done(n)
    <3>1. n \in Nat /\ 1 <= n /\ n <= n
      BY <1>2, <2>1 DEF n
    <3> HIDE DEF Done
    <3>2. QED
      BY <2>7, <3>1
  <2>9. DOMAIN s = 1 .. n
    BY DEF n
  <2>10. QED
    BY <2>3, <2>8, <2>9
<1>3. QED
  BY <1>1, <1>2

\* The graph that IR_function_build_graph makes is one an analysis may begin with: the blocks
\* before a block are those it comes after, so that facts flow back along the same edges.
THEOREM GraphLinked ==
  ASSUME NEW f, {"succ", "pred"} \subseteq DOMAIN f, IsList(f.blocks), Labelled(f)
  PROVE  LET g == IR_function_build_graph(f)
         IN  g.blocks = f.blocks /\ Linked(g)
<1> DEFINE n == Len(f.blocks)
           At(l) == CHOOSE b \in 1 .. n : f.blocks[b].label = l
           Succ(b) == LET ss == f.blocks[b].stmts
                      IN  CASE b = n -> <<>>
                            [] b < n /\ ss = <<>> -> <<b + 1>>
                            [] b < n /\ ss # <<>> ->
                                 LET s == Last(ss)
                                 IN  CASE s.kind = "if" -> <<At(s.to[1]), IF s.to[2] = NONE THEN b + 1 ELSE At(s.to[2])>>
                                       [] s.kind = "goto" -> <<At(s.to[1])>>
                                       [] s.kind = "return" -> <<n>>
                                       [] OTHER -> <<b + 1>>
           succ == [b \in 1 .. n |-> Succ(b)]
           At2(b, c) == {j \in DOMAIN succ[c] : succ[c][j] = b}
           lists(b) == [c \in 1 .. n |-> [k \in 1 .. Cardinality(At2(b, c)) |-> c]]
           pred == [b \in 1 .. n |-> FlattenSeq(lists(b))]
           g == IR_function_build_graph(f)
<1>1. g = [f EXCEPT !.succ = succ, !.pred = pred]
  BY Zenon DEF IR_function_build_graph
<1>2. n \in Nat /\ DOMAIN f.blocks = 1 .. n
  BY DEF IsList
<1>3. \A b \in 1 .. n : Succ(b) \in Seq(1 .. n)
  <2>1. TAKE b \in 1 .. n
  <2> DEFINE ss == f.blocks[b].stmts
             s == Last(ss)
             Known(l) == \E c \in 1 .. n : f.blocks[c].label = l
  <2>2. b = n \/ (b < n /\ b + 1 \in 1 .. n /\ n \in 1 .. n)
    BY <1>2
  <2>3. \A l : Known(l) => At(l) \in 1 .. n
    OBVIOUS
  <2>4. ss # <<>> => /\ s.kind \in {"if", "goto"} => Known(s.to[1])
                     /\ s.kind = "if" /\ s.to[2] # NONE => Known(s.to[2])
    BY <1>2 DEF Labelled
  <2>5. Succ(b) = CASE b = n -> <<>>
                    [] b < n /\ ss = <<>> -> <<b + 1>>
                    [] b < n /\ ss # <<>> ->
                         CASE s.kind = "if" -> <<At(s.to[1]), IF s.to[2] = NONE THEN b + 1 ELSE At(s.to[2])>>
                           [] s.kind = "goto" -> <<At(s.to[1])>>
                           [] s.kind = "return" -> <<n>>
                           [] OTHER -> <<b + 1>>
    OBVIOUS
  <2>6. /\ <<>> \in Seq(1 .. n)
        /\ \A c \in 1 .. n : <<c>> \in Seq(1 .. n)
        /\ \A c, d \in 1 .. n : <<c, d>> \in Seq(1 .. n)
    OBVIOUS
  <2> HIDE DEF n, At, Succ, ss, s, Known
  <2>7. CASE b = n
    <3>1. ~(b < n)
      BY <1>2, <2>7
    <3>2. Succ(b) = <<>>
      BY <2>5, <2>7, <3>1
    <3>3. QED
      BY <2>6, <3>2
  <2>8. CASE b # n /\ ss = <<>>
    BY <2>2, <2>5, <2>6, <2>8
  <2>9. CASE b # n /\ ss # <<>>
    <3> DEFINE r == CASE s.kind = "if" -> <<At(s.to[1]), IF s.to[2] = NONE THEN b + 1 ELSE At(s.to[2])>>
                      [] s.kind = "goto" -> <<At(s.to[1])>>
                      [] s.kind = "return" -> <<n>>
                      [] OTHER -> <<b + 1>>
    <3>1. Succ(b) = r
      <4> HIDE DEF r
      <4>1. Succ(b) = CASE b = n -> <<>>
                    [] b < n /\ ss = <<>> -> <<b + 1>>
                    [] b < n /\ ss # <<>> -> r
        BY <2>5 DEF r
      <4>2. QED
        BY <2>2, <2>9, <4>1
    <3>2. r \in Seq(1 .. n)
      BY <2>2, <2>3, <2>4, <2>6, <2>9
    <3>3. QED
      BY <3>1, <3>2
  <2>10. QED
    BY <2>7, <2>8, <2>9
<1> HIDE DEF Succ, n
<1>4. \A b \in 1 .. n : succ[b] \in Seq(1 .. n)
  BY <1>3
<1> HIDE DEF succ
<1>5. ASSUME NEW b \in 1 .. n, NEW c \in 1 .. n
      PROVE  /\ Cardinality(At2(b, c)) \in Nat
             /\ Cardinality(At2(b, c)) # 0 <=> Has(succ[c], b)
  <2>1. IsFiniteSet(DOMAIN succ[c])
    <3>1. DOMAIN succ[c] = 1 .. Len(succ[c]) /\ Len(succ[c]) \in Int /\ 1 \in Int
      BY <1>4
    <3>2. QED
      BY <3>1, FS_Interval
  <2>2. IsFiniteSet(At2(b, c))
    BY <2>1, FS_Subset
  <2>3. Cardinality(At2(b, c)) \in Nat /\ (Cardinality(At2(b, c)) = 0 <=> At2(b, c) = {})
    BY <2>2, FS_CardinalityType, FS_EmptySet
  <2>4. At2(b, c) = {} <=> ~Has(succ[c], b)
    BY DEF Has
  <2> HIDE DEF At2
  <2>5. QED
    BY <2>3, <2>4
<1> HIDE DEF At2
<1>6. ASSUME NEW b \in 1 .. n
      PROVE  /\ pred[b] \in Seq(1 .. n)
             /\ \A c \in 1 .. n : Has(pred[b], c) <=> Has(succ[c], b)
  <2>1. \A c \in 1 .. n : lists(b)[c] = [k \in 1 .. Cardinality(At2(b, c)) |-> c]
    OBVIOUS
  <2>2. \A c \in 1 .. n : lists(b)[c] \in Seq(1 .. n)
    <3>1. TAKE c \in 1 .. n
    <3> DEFINE m == Cardinality(At2(b, c))
    <3>2. m \in Nat
      BY <1>5
    <3>3. lists(b)[c] = [k \in 1 .. m |-> c]
      BY <2>1
    <3> HIDE DEF m, lists
    <3>4. [k \in 1 .. m |-> c] \in Seq(1 .. n)
      BY <3>2
    <3>5. QED
      BY <3>3, <3>4
  <2>3. \A c \in 1 .. n : \A x : Has(lists(b)[c], x) <=> x = c /\ Has(succ[c], b)
    <3> TAKE c \in 1 .. n
    <3>1. TAKE x
    <3> DEFINE m == Cardinality(At2(b, c))
    <3>2. m \in Nat /\ (m # 0 <=> Has(succ[c], b))
      BY <1>5
    <3> HIDE DEF m
    <3>3. m # 0 <=> \E k \in 1 .. m : TRUE
      <4>1. m # 0 => 1 \in 1 .. m
        BY <3>2
      <4>2. m = 0 => 1 .. m = {}
        OBVIOUS
      <4>3. QED
        BY <4>1, <4>2
    <3>4. Has([k \in 1 .. m |-> c], x) <=> x = c /\ \E k \in 1 .. m : TRUE
      BY DEF Has
    <3>5. QED
      BY <2>1, <3>2, <3>3, <3>4 DEF m
  <2>4. lists(b) \in Seq(Seq(1 .. n)) /\ DOMAIN lists(b) = 1 .. n
    BY <1>2, <2>2
  <2>5. pred[b] = FlattenSeq(lists(b))
    OBVIOUS
  <2> HIDE DEF lists, pred
  <2>6. /\ FlattenSeq(lists(b)) \in Seq(1 .. n)
        /\ \A x : Has(FlattenSeq(lists(b)), x) <=> \E i \in DOMAIN lists(b) : Has(lists(b)[i], x)
    BY <2>4, FlattenIs
  <2>7. QED
    BY <2>3, <2>4, <2>5, <2>6
<1> HIDE DEF pred, g
<1>7. g.blocks = f.blocks /\ g.succ = succ /\ g.pred = pred
  BY <1>1
<1>8. Linked(g)
  <2>1. \A b \in 1 .. n : g.succ[b] \in Seq(1 .. n) /\ g.pred[b] \in Seq(1 .. n)
    BY <1>4, <1>6, <1>7
  <2>2. \A b, c \in 1 .. n : Has(g.succ[b], c) <=> Has(g.pred[c], b)
    BY <1>6, <1>7
  <2>3. IsList(g.blocks) /\ DOMAIN g.blocks = 1 .. n
    BY <1>2, <1>7
  <2>4. QED
    BY <2>1, <2>2, <2>3 DEF Linked, Has
<1>9. QED
  BY <1>7, <1>8 DEF g

-----------------------------------------------------------------------------
(* The best solution. *)

LEMMA AbsorbedIs ==
  /\ \A x, y : Absorbed("live", x, y) <=> x \cup y = y
  /\ \A x, y : Fact("available", y) =>
       (Absorbed("available", x, y) <=> (x.top \/ (~y.top /\ y.set \subseteq x.set)))
<1>1. ASSUME NEW x, NEW y
      PROVE  Absorbed("live", x, y) <=> x \cup y = y
  <2>1. meetInto("live", x, y) = y \cup x
    BY DEF meetInto
  <2>2. QED
    BY <2>1 DEF Absorbed
<1>2. ASSUME NEW x, NEW y, Fact("available", y)
      PROVE  Absorbed("available", x, y) <=> (x.top \/ (~y.top /\ y.set \subseteq x.set))
  <2> DEFINE z == [top |-> FALSE, set |-> IF y.top THEN y.set \cup x.set ELSE y.set \cap x.set]
  <2>1. meetInto("available", x, y) = IF x.top THEN y ELSE z
    BY DEF meetInto
  <2>2. y \in [top : BOOLEAN, set : {y.set}]
    BY <1>2 DEF Fact
  <2>3. z = y <=> ~y.top /\ y.set \subseteq x.set
    <3>1. z = y => y.top = FALSE /\ y.set = z.set
      OBVIOUS
    <3>2. y.top = FALSE => z.set = y.set \cap x.set
      OBVIOUS
    <3>3. ~y.top /\ y.set \subseteq x.set => z.set = y.set /\ z.top = y.top
      BY <2>2
    <3>4. z \in [top : BOOLEAN, set : {z.set}]
      OBVIOUS
    <3>5. z.set = y.set /\ z.top = y.top => z = y
      <4> HIDE DEF z
      <4>1. QED
        BY <2>2, <3>4
    <3>6. QED
      BY <3>1, <3>2, <3>3, <3>5
  <2>4. QED
    BY <2>1, <2>3 DEF Absorbed
<1>3. QED
  BY <1>1, <1>2

\* Absorption is an order of which a meet is the bound, and what a statement does keeps it.
LEMMA MonotoneFacts ==
  ASSUME NEW a \in Monotone
  PROVE  /\ \A x, y, z : Fact(a, y) /\ Fact(a, z) /\ Absorbed(a, x, y) /\ Absorbed(a, y, z) => Absorbed(a, x, z)
         /\ \A x, y, z : /\ Fact(a, x) /\ Stored(a, y) /\ Fact(a, z)
                         /\ Absorbed(a, x, z) /\ Absorbed(a, y, z)
                         => Absorbed(a, meetInto(a, x, y), z)
         /\ \A kills, s, x, y : Fact(a, x) /\ Fact(a, y) /\ Absorbed(a, x, y) =>
              Absorbed(a, transferStmt(a, kills, s, x), transferStmt(a, kills, s, y))
<1>1. CASE a = "available"
  <2>1. \A x : Fact(a, x) <=> x \in [top : BOOLEAN, set : {x.set}]
    BY <1>1 DEF Fact
  <2>2. \A x, y : Fact(a, y) => (Absorbed(a, x, y) <=> (x.top \/ (~y.top /\ y.set \subseteq x.set)))
    BY <1>1, AbsorbedIs
  <2>3. \A x, y, z : Fact(a, y) /\ Fact(a, z) /\ Absorbed(a, x, y) /\ Absorbed(a, y, z) => Absorbed(a, x, z)
    BY <2>2
  <2>4. ASSUME NEW x, NEW y, NEW z, Fact(a, x), Stored(a, y), Fact(a, z), Absorbed(a, x, z), Absorbed(a, y, z)
        PROVE  Absorbed(a, meetInto(a, x, y), z)
    <3> DEFINE m == [top |-> FALSE, set |-> IF y.top THEN y.set \cup x.set ELSE y.set \cap x.set]
    <3>1. meetInto(a, x, y) = IF x.top THEN y ELSE m
      BY <1>1 DEF meetInto
    <3>2. y.top => y.set = {}
      BY <1>1, <2>4 DEF Stored
    <3>3. CASE x.top
      BY <2>4, <3>1, <3>3
    <3>4. CASE ~x.top
      <4>1. ~z.top /\ z.set \subseteq x.set
        BY <2>2, <2>4, <3>4
      <4>2. y.top \/ z.set \subseteq y.set
        BY <2>2, <2>4
      <4>3. z.set \subseteq m.set /\ m.top = FALSE
        BY <3>2, <4>1, <4>2
      <4> HIDE DEF m
      <4>4. QED
        BY <2>2, <2>4, <3>1, <3>4, <4>1, <4>3
    <3>5. QED
      BY <3>3, <3>4
  <2>5. ASSUME NEW kills, NEW s, NEW x, NEW y, Fact(a, x), Fact(a, y), Absorbed(a, x, y)
        PROVE  Absorbed(a, transferStmt(a, kills, s, x), transferStmt(a, kills, s, y))
    <3> DEFINE kill == IF s.rd \in DOMAIN kills THEN kills[s.rd] ELSE {}
               gen == IF s.kind = "op" THEN {s.rd} ELSE {}
    <3>1. ASSUME NEW f, Fact(a, f)
          PROVE  /\ transferStmt(a, kills, s, f).top = f.top
                 /\ transferStmt(a, kills, s, f).set = (f.set \ kill) \cup gen
      <4>1. transferStmt(a, kills, s, f) = [f EXCEPT !.set = (IF s.rd \in DOMAIN kills THEN f.set \ kills[s.rd] ELSE f.set) \cup gen]
        BY <1>1 DEF transferStmt, AvailableTransfer
      <4>2. (IF s.rd \in DOMAIN kills THEN f.set \ kills[s.rd] ELSE f.set) = f.set \ kill
        OBVIOUS
      <4> HIDE DEF kill, gen
      <4>3. transferStmt(a, kills, s, f) = [f EXCEPT !.set = (f.set \ kill) \cup gen]
        BY <4>1, <4>2
      <4>4. f \in [top : BOOLEAN, set : {f.set}]
        BY <2>1, <3>1
      <4>5. QED
        BY <4>3, <4>4
    <3>2. Fact(a, transferStmt(a, kills, s, y))
      BY <1>1, <2>5, TransferFact DEF Analyses
    <3> HIDE DEF kill, gen
    <3>3. QED
      BY <2>2, <2>5, <3>1, <3>2
  <2>6. QED
    BY <2>3, <2>4, <2>5
<1>2. CASE a = "live"
  <2>1. \A x, y : Absorbed(a, x, y) <=> x \cup y = y
    BY <1>2, AbsorbedIs
  <2>2. \A x, y : meetInto(a, x, y) = y \cup x
    BY <1>2 DEF meetInto
  <2>3. \A kills, s, x : transferStmt(a, kills, s, x) = (x \ {s.rd}) \cup Uses(s)
    BY <1>2 DEF transferStmt, LiveTransfer
  <2>4. \A x, y, z : Absorbed(a, x, y) /\ Absorbed(a, y, z) => Absorbed(a, x, z)
    BY <2>1
  <2>5. \A x, y, z : Absorbed(a, x, z) /\ Absorbed(a, y, z) => Absorbed(a, meetInto(a, x, y), z)
    BY <2>1, <2>2
  <2>6. ASSUME NEW kills, NEW s, NEW x, NEW y, Absorbed(a, x, y)
        PROVE  Absorbed(a, transferStmt(a, kills, s, x), transferStmt(a, kills, s, y))
    BY <2>1, <2>3, <2>6
  <2>7. QED
    BY <2>4, <2>5, <2>6
<1>3. QED
  BY <1>1, <1>2 DEF Monotone

\* What has flowed into z one by one has flowed into it all at once.
LEMMA MeetAllBelow ==
  ASSUME NEW a \in Monotone, NEW facts, NEW S, NEW bs \in Seq(S),
         \A i \in 1 .. Len(bs) : Fact(a, facts[bs[i]]),
         NEW first, Stored(a, first), NEW z, Fact(a, z),
         Absorbed(a, first, z),
         \A i \in 1 .. Len(bs) : Absorbed(a, facts[bs[i]], z)
  PROVE  Absorbed(a, MeetAll(a, facts, bs, first), z)
<1>0. PICK h : MeetsIn(a, facts, bs, first, h)
  BY MeetRuns
<1>1. /\ h[0] = first /\ MeetAll(a, facts, bs, first) = h[Len(bs)]
      /\ \A i \in 1 .. Len(bs) : h[i] = meetInto(a, facts[bs[i]], h[i - 1])
  BY <1>0 DEF MeetsIn
<1>2. Len(bs) \in Nat /\ a \in Analyses
  BY DEF Monotone, Analyses
<1> DEFINE Done(i) == Stored(a, h[i]) /\ Absorbed(a, h[i], z)
           D == {i \in Nat : i <= Len(bs) /\ ~Done(i)}
<1>3. D = {}
  <2>1. SUFFICES ASSUME D # {} PROVE FALSE
    OBVIOUS
  <2>2. PICK m \in D : \A k \in D : m <= k
    <3> HIDE DEF D
    <3>1. D \in SUBSET Nat
      BY DEF D
    <3>2. QED
      BY <2>1, <3>1, LeastNat
  <2>3. m \in Nat /\ m <= Len(bs) /\ ~Done(m)
    OBVIOUS
  <2>4. m # 0
    BY <1>1, <2>3
  <2>5. m - 1 \in Nat /\ m - 1 <= Len(bs) /\ ~(m <= m - 1) /\ m \in 1 .. Len(bs)
    BY <1>2, <2>3, <2>4
  <2>6. Done(m - 1)
    BY <2>2, <2>5
  <2>7. h[m] = meetInto(a, facts[bs[m]], h[m - 1]) /\ Fact(a, facts[bs[m]]) /\ Absorbed(a, facts[bs[m]], z)
    BY <1>1, <2>5
  <2>8. Stored(a, h[m])
    BY <1>2, <2>6, <2>7, MeetFacts
  <2>9. Absorbed(a, h[m], z)
    BY <2>6, <2>7, MonotoneFacts
  <2>10. QED
    BY <2>3, <2>8, <2>9
<1>4. QED
  BY <1>1, <1>2, <1>3

LEMMA TransferAllBelow ==
  ASSUME NEW a \in Monotone, NEW kills, NEW S, NEW s \in Seq(S),
         NEW x, Fact(a, x), NEW y, Fact(a, y), Absorbed(a, x, y)
  PROVE  Absorbed(a, TransferAll(a, kills, x, s), TransferAll(a, kills, y, s))
<1>1. PICK h : /\ h[0] = x /\ TransferAll(a, kills, x, s) = h[Len(s)]
               /\ \A i \in 1 .. Len(s) : h[i] = transferStmt(a, kills, s[i], h[i - 1])
  BY TransferRuns
<1>2. PICK g : /\ g[0] = y /\ TransferAll(a, kills, y, s) = g[Len(s)]
               /\ \A i \in 1 .. Len(s) : g[i] = transferStmt(a, kills, s[i], g[i - 1])
  BY TransferRuns
<1>3. Len(s) \in Nat /\ a \in Analyses
  BY DEF Monotone, Analyses
<1> DEFINE Done(i) == Fact(a, h[i]) /\ Fact(a, g[i]) /\ Absorbed(a, h[i], g[i])
           D == {i \in Nat : i <= Len(s) /\ ~Done(i)}
<1>4. D = {}
  <2>1. SUFFICES ASSUME D # {} PROVE FALSE
    OBVIOUS
  <2>2. PICK m \in D : \A k \in D : m <= k
    <3> HIDE DEF D
    <3>1. D \in SUBSET Nat
      BY DEF D
    <3>2. QED
      BY <2>1, <3>1, LeastNat
  <2>3. m \in Nat /\ m <= Len(s) /\ ~Done(m)
    OBVIOUS
  <2>4. m # 0
    BY <1>1, <1>2, <2>3
  <2>5. m - 1 \in Nat /\ m - 1 <= Len(s) /\ ~(m <= m - 1) /\ m \in 1 .. Len(s)
    BY <1>3, <2>3, <2>4
  <2>6. Done(m - 1)
    BY <2>2, <2>5
  <2>7. h[m] = transferStmt(a, kills, s[m], h[m - 1]) /\ g[m] = transferStmt(a, kills, s[m], g[m - 1])
    BY <1>1, <1>2, <2>5
  <2>8. Fact(a, h[m]) /\ Fact(a, g[m])
    BY <1>3, <2>6, <2>7, TransferFact
  <2>9. Absorbed(a, h[m], g[m])
    BY <2>6, <2>7, MonotoneFacts
  <2>10. QED
    BY <2>3, <2>8, <2>9
<1>5. QED
  BY <1>1, <1>2, <1>3, <1>4

LEMMA BlockBelow ==
  ASSUME NEW p, Analysis(p) \in Monotone, NEW b, IsList(Func(p).blocks[b].stmts),
         NEW x, Fact(Analysis(p), x), NEW y, Fact(Analysis(p), y), Absorbed(Analysis(p), x, y)
  PROVE  Absorbed(Analysis(p), transferBlock(p, b, x), transferBlock(p, b, y))
<1> DEFINE a == Analysis(p)
           ss == Func(p).blocks[b].stmts
           S == {ss[i] : i \in DOMAIN ss}
           start(z) == meetInto(a, z, newInitialFact(a))
           order == IF isForward(a) THEN ss ELSE Reverse(ss)
<1>1. \A z : transferBlock(p, b, z) = TransferAll(a, p.kills, start(z), order)
  BY TransferBlockIs
<1>2. order \in Seq(S)
  <2>1. ss \in Seq(S)
    BY DEF IsList
  <2> HIDE DEF ss, S
  <2>2. QED
    BY <2>1, ReverseIs
<1>3. a \in Monotone /\ a \in Analyses
  BY DEF Monotone, Analyses
<1>4. /\ Stored(a, newInitialFact(a)) /\ Fact(a, newInitialFact(a))
      /\ \A z : Fact(a, z) => Absorbed(a, newInitialFact(a), z)
  <2>1. Stored(a, newInitialFact(a)) /\ Fact(a, newInitialFact(a))
    BY <1>3, InitialFacts DEF Stored
  <2>2. a = "live" => newInitialFact(a) = {}
    BY DEF newInitialFact
  <2>3. a = "available" => newInitialFact(a).top = TRUE
    BY DEF newInitialFact
  <2>4. QED
    BY <1>3, <2>1, <2>2, <2>3, AbsorbedIs DEF Monotone
<1> HIDE DEF a, order, S, ss
<1>5. \A z : Fact(a, z) => Fact(a, start(z)) /\ Absorbed(a, z, start(z))
  BY <1>3, <1>4, MeetFacts DEF Stored
<1>6. Fact(a, x) /\ Fact(a, y) /\ Absorbed(a, x, y)
  BY DEF a
<1>7. Absorbed(a, start(x), start(y))
  <2>1. Absorbed(a, x, start(y))
    <3> HIDE DEF start
    <3>1. QED
      BY <1>3, <1>5, <1>6, MonotoneFacts
  <2>2. Absorbed(a, newInitialFact(a), start(y)) /\ Fact(a, start(y))
    <3> HIDE DEF start
    <3>1. QED
      BY <1>4, <1>5, <1>6
  <2>3. QED
    BY <1>3, <1>4, <1>6, <2>1, <2>2, MonotoneFacts
<1> HIDE DEF start
<1>8. QED
  BY <1>1, <1>2, <1>3, <1>5, <1>6, <1>7, TransferAllBelow DEF a

LEMMA NecessaryIs ==
  ASSUME NEW p, NEW s, Solution(s, p), Ready(p)
  PROVE  /\ (\A b \in Blocks(p) : /\ Absorbed(Analysis(p), p.in[b], s.in[b])
                                  /\ Absorbed(Analysis(p), p.out[b], s.out[b]))
            <=> (\A b \in Blocks(p) : /\ Absorbed(Analysis(p), Before(p)[b], Before(s)[b])
                                      /\ Absorbed(Analysis(p), After(p)[b], After(s)[b]))
         /\ Analysis(s) = Analysis(p) /\ Blocks(s) = Blocks(p)
         /\ \A b : Sources(s, b) = Sources(p, b)
         /\ \A b, x : transferBlock(s, b, x) = transferBlock(p, b, x)
         /\ \A b \in Blocks(p) : Stored(Analysis(p), Before(s)[b]) /\ Stored(Analysis(p), After(s)[b])
<1>1. /\ Analysis(s) = Analysis(p) /\ Blocks(s) = Blocks(p) /\ Func(s) = Func(p)
      /\ \A b, x : transferBlock(s, b, x) = transferBlock(p, b, x)
  BY SameProgram DEF Solution
<1>2. \A b : Sources(s, b) = Sources(p, b)
  BY <1>1 DEF Sources
<1>3. CASE isForward(Analysis(p))
  BY <1>1, <1>2, <1>3 DEF Before, After, Solution
<1>4. CASE ~isForward(Analysis(p))
  BY <1>1, <1>2, <1>4 DEF Before, After, Solution
<1>5. QED
  BY <1>3, <1>4

LEMMA NecessaryStarts ==
  ASSUME NEW p, Ready(p)
  PROVE  Necessary(Initialize(p))
<1> DEFINE q == Initialize(p)
           a == Analysis(p)
           B == Blocks(p)
<1>1. /\ DOMAIN q = DOMAIN p
      /\ q.funcs = p.funcs /\ q.f = p.f /\ q.todo = p.todo /\ q.kills = p.kills
      /\ Before(q) = [b \in B |-> newInitialFact(a)]
      /\ After(q) = [b \in B |-> IF b = Edge(p) THEN newBoundaryFact(a, Func(p)) ELSE newInitialFact(a)]
  BY InitializeIs
<1> HIDE DEF q
<1>2. Ready(q) /\ Analysis(q) = a /\ Blocks(q) = B /\ Func(q) = Func(p)
  BY <1>1, SameProgram
<1>3. Edge(q) = Edge(p)
  BY <1>2 DEF Edge
<1>4. SUFFICES ASSUME a \in Monotone, NEW s, Solution(s, q)
               PROVE  \A b \in B : Absorbed(a, q.in[b], s.in[b]) /\ Absorbed(a, q.out[b], s.out[b])
  BY <1>2 DEF Necessary, q
<1>5. \A z : Fact(a, z) => Absorbed(a, newInitialFact(a), z)
  <2>1. a = "live" => newInitialFact(a) = {}
    BY DEF newInitialFact
  <2>2. a = "available" => newInitialFact(a).top = TRUE
    BY DEF newInitialFact
  <2>3. QED
    BY <1>4, <2>1, <2>2, AbsorbedIs DEF Monotone
<1>6. \A b \in B : Stored(a, Before(s)[b]) /\ Stored(a, After(s)[b])
  BY <1>2, <1>4, NecessaryIs
<1>7. Absorbed(a, newBoundaryFact(a, Func(p)), After(s)[Edge(p)])
  BY <1>2, <1>3, <1>4 DEF Solution
<1> HIDE DEF a, B
<1>8. \A b \in B : Absorbed(a, Before(q)[b], Before(s)[b]) /\ Absorbed(a, After(q)[b], After(s)[b])
  BY <1>1, <1>5, <1>6, <1>7 DEF Stored
<1>9. QED
  BY <1>2, <1>4, <1>8, NecessaryIs

LEMMA NecessaryStays ==
  ASSUME NEW p, IInv(p), Necessary(p), p.queue # <<>>
  PROVE  Necessary(worklistDoSolve(p))
<1> DEFINE q == worklistDoSolve(p)
           b == Head(p.queue)
           a == Analysis(p)
           B == Blocks(p)
<1>1. PICK x, y : /\ Found(p, b, x, y)
                  /\ Before(q) = [Before(p) EXCEPT ![b] = x]
                  /\ After(q) = [After(p) EXCEPT ![b] = y]
                  /\ q.queue = Tail(p.queue) \o (IF y # After(p)[b] THEN Dependents(p, b) ELSE <<>>)
  BY StepIs, Zenon
<1>2. /\ b \in B /\ DOMAIN q = DOMAIN p
      /\ q.funcs = p.funcs /\ q.f = p.f /\ q.todo = p.todo /\ q.kills = p.kills
  BY StepIs
<1> HIDE DEF q, b
<1>3. Ready(p) /\ a \in Analyses
  BY DEF IInv, Ready
<1>4. Ready(q) /\ Analysis(q) = a /\ Blocks(q) = B /\ Func(q) = Func(p)
  BY <1>2, <1>3, SameProgram
<1>5. SUFFICES ASSUME a \in Monotone, NEW s, Solution(s, q)
               PROVE  \A c \in B : Absorbed(a, q.in[c], s.in[c]) /\ Absorbed(a, q.out[c], s.out[c])
  BY <1>4 DEF Necessary, q
<1>6. Solution(s, p)
  <2>1. Edge(q) = Edge(p)
    BY <1>4 DEF Edge
  <2>2. QED
    BY <1>2, <1>4, <1>5, <2>1 DEF Solution
<1>7. \A c \in B : Absorbed(a, Before(p)[c], Before(s)[c]) /\ Absorbed(a, After(p)[c], After(s)[c])
  BY <1>3, <1>5, <1>6, NecessaryIs DEF Necessary
<1>8. /\ Analysis(s) = a
      /\ \A c : Sources(s, c) = Sources(p, c)
      /\ \A c, z : transferBlock(s, c, z) = transferBlock(p, c, z)
      /\ \A c \in B : Stored(a, Before(s)[c]) /\ Stored(a, After(s)[c])
      /\ Settled(s, b)
  BY <1>2, <1>3, <1>6, NecessaryIs DEF Solution, Solved
<1>9. \A c \in B : Stored(a, Before(p)[c]) /\ Stored(a, After(p)[c])
  BY DEF IInv, Before, After
<1>10. /\ DOMAIN Before(p) = B /\ DOMAIN After(p) = B
       /\ Sources(p, b) \in Seq(B)
       /\ IsList(Func(p).blocks[b].stmts)
  <2>1. p.in = [c \in B |-> p.in[c]] /\ p.out = [c \in B |-> p.out[c]]
    BY DEF IInv
  <2>2. DOMAIN p.in = B /\ DOMAIN p.out = B
    <3> HIDE DEF B
    <3>1. QED
      BY <2>1
  <2>3. Func(p).pred[b] \in Seq(B) /\ Func(p).succ[b] \in Seq(B) /\ IsList(Func(p).blocks[b].stmts)
    BY <1>2, <1>3 DEF Ready, Linked, Blocks
  <2>4. QED
    BY <2>2, <2>3 DEF Before, After, Sources
<1> HIDE DEF a, B
<1>11. /\ x = MeetAll(a, After(p), Sources(p, b), Before(p)[b])
       /\ y = meetInto(a, transferBlock(p, b, x), After(p)[b])
       /\ Stored(a, x)
  BY <1>1 DEF Found, a
<1>12. Absorbed(a, x, Before(s)[b])
  <2>1. \A k \in 1 .. Len(Sources(p, b)) : Sources(p, b)[k] \in B
    BY <1>10
  <2>2. \A k \in 1 .. Len(Sources(p, b)) : Absorbed(a, After(s)[Sources(p, b)[k]], Before(s)[b])
    BY <1>8 DEF Settled
  <2>3. \A k \in 1 .. Len(Sources(p, b)) :
          /\ Fact(a, After(p)[Sources(p, b)[k]])
          /\ Absorbed(a, After(p)[Sources(p, b)[k]], Before(s)[b])
    <3>1. TAKE k \in 1 .. Len(Sources(p, b))
    <3> DEFINE c == Sources(p, b)[k]
    <3>2. c \in B /\ Absorbed(a, After(s)[c], Before(s)[b])
      BY <2>1, <2>2
    <3> HIDE DEF c
    <3>3. Fact(a, After(p)[c]) /\ Fact(a, After(s)[c]) /\ Fact(a, Before(s)[b])
      BY <1>2, <1>8, <1>9, <3>2 DEF Stored
    <3>4. Absorbed(a, After(p)[c], Before(s)[b])
      BY <1>5, <1>7, <3>2, <3>3, MonotoneFacts
    <3>5. QED
      BY <3>3, <3>4 DEF c
  <2>4. Stored(a, Before(p)[b]) /\ Fact(a, Before(s)[b]) /\ Absorbed(a, Before(p)[b], Before(s)[b])
    BY <1>2, <1>7, <1>8, <1>9 DEF Stored
  <2>5. QED
    BY <1>5, <1>10, <1>11, <2>3, <2>4, MeetAllBelow
<1>13. Absorbed(a, y, After(s)[b])
  <2> DEFINE t == transferBlock(p, b, x)
             u == transferBlock(p, b, Before(s)[b])
  <2>1. Fact(a, x) /\ Fact(a, Before(s)[b]) /\ Fact(a, After(s)[b]) /\ Stored(a, After(p)[b])
    BY <1>2, <1>8, <1>9, <1>11 DEF Stored
  <2>2. Absorbed(a, t, u)
    BY <1>5, <1>10, <1>12, <2>1, BlockBelow DEF a
  <2>3. Fact(a, t) /\ Fact(a, u)
    BY <1>3, <1>10, <2>1, BlockFact DEF a
  <2>4. Absorbed(a, u, After(s)[b])
    BY <1>8 DEF Settled
  <2>5. y = meetInto(a, t, After(p)[b])
    BY <1>11
  <2> HIDE DEF t, u
  <2>6. Absorbed(a, t, After(s)[b])
    BY <1>5, <2>1, <2>2, <2>3, <2>4, MonotoneFacts
  <2>7. QED
    BY <1>2, <1>5, <1>7, <2>1, <2>3, <2>5, <2>6, MonotoneFacts
<1>14. \A c \in B : Absorbed(a, Before(q)[c], Before(s)[c]) /\ Absorbed(a, After(q)[c], After(s)[c])
  BY <1>1, <1>2, <1>7, <1>10, <1>12, <1>13
<1>15. QED
  BY <1>4, <1>5, <1>14, NecessaryIs

\* Of the solutions of the two monotone analyses the solver finds the best: it takes no expression
\* to be lost and no variable to be live unless every solution does.
THEOREM WorklistExact == Spec => []Necessary(o)
<1>1. Init => IInv(o) /\ Necessary(o)
  BY SolverStarts, NecessaryStarts DEF Init
<1>2. IInv(o) /\ Necessary(o) /\ [Next]_o => Necessary(o)'
  <2>1. ASSUME IInv(o), Necessary(o), Next PROVE Necessary(o)'
    BY <2>1, NecessaryStays DEF Next
  <2>2. QED
    BY <2>1
<1>3. QED
  BY <1>1, <1>2, SolverInv, PTL DEF Spec


-----------------------------------------------------------------------------
(* The facts inside a block, and what is kept of it. *)

\* What a block becomes, statement by statement, from a fact.
RewriteRun(a, kills, ss, first, g, n) ==
  g = [k \in 0 .. n |-> IF k = 0 THEN <<first, <<>>>> ELSE RewriteStmt(a, kills, ss[k], g[k - 1])]

\* There is such a run for any statements.
LEMMA RewriteRunExists ==
  ASSUME NEW a, NEW kills, NEW ss, NEW first, NEW n \in Nat
  PROVE  \E g : RewriteRun(a, kills, ss, first, g, n)
<1> DEFINE D == {m \in Nat : ~\E g : RewriteRun(a, kills, ss, first, g, m)}
<1>1. SUFFICES ASSUME D # {} PROVE FALSE
  OBVIOUS
<1>2. PICK m \in D : \A k \in D : m <= k
  <2> HIDE DEF D
  <2>1. D \in SUBSET Nat
    BY DEF D
  <2>2. QED
    BY <1>1, <2>1, LeastNat
<1>3. m \in Nat
  OBVIOUS
<1>4. CASE m = 0
  <2> DEFINE g == [k \in 0 .. 0 |-> <<first, <<>>>>]
  <2>1. \A k \in 0 .. 0 : k = 0
    OBVIOUS
  <2>2. RewriteRun(a, kills, ss, first, g, 0)
    BY <2>1 DEF RewriteRun
  <2>3. QED
    BY <1>2, <1>4, <2>2
<1>5. CASE m # 0
  <2>1. m - 1 \in Nat /\ ~(m <= m - 1)
    BY <1>3, <1>5
  <2>2. PICK g : RewriteRun(a, kills, ss, first, g, m - 1)
    BY <1>2, <2>1
  <2> DEFINE h == [k \in 0 .. m |-> IF k = m THEN RewriteStmt(a, kills, ss[m], g[m - 1]) ELSE g[k]]
  <2>3. ASSUME NEW k \in 0 .. m
        PROVE  h[k] = IF k = 0 THEN <<first, <<>>>> ELSE RewriteStmt(a, kills, ss[k], h[k - 1])
    <3>1. CASE k = m
      <4>1. h[m - 1] = g[m - 1] /\ h[m] = RewriteStmt(a, kills, ss[m], g[m - 1])
        BY <1>3, <1>5
      <4>2. QED
        BY <1>5, <3>1, <4>1
    <3>2. CASE k # m
      <4>1. k \in 0 .. m - 1 /\ k \in 0 .. m
        BY <1>3, <3>2
      <4>2. h[k] = g[k]
        BY <3>2, <4>1
      <4>3. g[k] = IF k = 0 THEN <<first, <<>>>> ELSE RewriteStmt(a, kills, ss[k], g[k - 1])
        BY <2>2, <4>1 DEF RewriteRun
      <4>4. k # 0 => h[k - 1] = g[k - 1]
        <5>1. k # 0 => k - 1 \in 0 .. m /\ k - 1 # m
          BY <1>3, <4>1
        <5>2. QED
          BY <5>1
      <4>5. QED
        BY <4>2, <4>3, <4>4
    <3>3. QED
      BY <3>1, <3>2
  <2>4. RewriteRun(a, kills, ss, first, h, m)
    <3>1. h = [k \in 0 .. m |-> h[k]]
      OBVIOUS
    <3> HIDE DEF h
    <3>2. QED
      BY <2>3, <3>1 DEF RewriteRun
  <2>5. QED
    BY <1>2, <2>4
<1>6. QED
  BY <1>4, <1>5

\* The fact at the beginning of block b, or for live at its end.
StartFact(p, b) ==
  meetInto(Analysis(p), IF isForward(Analysis(p)) THEN p.in[b] ELSE p.out[b], newInitialFact(Analysis(p)))

Ordered(p, b) == InOrder(Analysis(p), Func(p).blocks[b].stmts)

LEMMA ChosenIs == \A y : (CHOOSE r \in {y} : TRUE) = y
  OBVIOUS

\* As a choice among such runs.
LEMMA RewritingsIs ==
  ASSUME NEW p, NEW b
  PROVE  Rewritings(p, b) =
           CHOOSE g : RewriteRun(Analysis(p), p.kills, Ordered(p, b), StartFact(p, b), g, Len(Ordered(p, b)))
<1> DEFINE a == Analysis(p)
           ss == Ordered(p, b)
           n == Len(ss)
           first == StartFact(p, b)
           Body(g) == [k \in 0 .. n |-> IF k = 0 THEN <<first, <<>>>>
                                        ELSE CHOOSE r \in {RewriteStmt(a, p.kills, ss[k], x) : x \in {g[k - 1]}} : TRUE]
<1>1. Rewritings(p, b) = CHOOSE g : g = Body(g)
  BY Zenon DEF Rewritings, Apply, StartFact, Ordered
<1>2. ASSUME NEW g
      PROVE  Body(g) = [k \in 0 .. n |-> IF k = 0 THEN <<first, <<>>>> ELSE RewriteStmt(a, p.kills, ss[k], g[k - 1])]
  <2>1. \A k : (CHOOSE r \in {RewriteStmt(a, p.kills, ss[k], x) : x \in {g[k - 1]}} : TRUE)
               = RewriteStmt(a, p.kills, ss[k], g[k - 1])
    <3> HIDE DEF ss, a
    <3>1. \A k : {RewriteStmt(a, p.kills, ss[k], x) : x \in {g[k - 1]}} = {RewriteStmt(a, p.kills, ss[k], g[k - 1])}
      OBVIOUS
    <3>2. QED
      BY <3>1, ChosenIs
  <2>2. QED
    BY <2>1
<1>3. \A g : g = Body(g) <=> RewriteRun(a, p.kills, ss, first, g, n)
  BY <1>2 DEF RewriteRun
<1>4. QED
  <2> HIDE DEF Body, a, ss, n, first
  <2>1. (CHOOSE g : g = Body(g)) = CHOOSE g : RewriteRun(a, p.kills, ss, first, g, n)
    BY Zenon, <1>3
  <2>2. QED
    BY <1>1, <2>1 DEF a, ss, n, first

\* Rewritings begins with the fact at the block's beginning and nothing kept, and goes on by RewriteStmt.
LEMMA RewritingsAre ==
  ASSUME NEW p, NEW b, Len(Ordered(p, b)) \in Nat
  PROVE  LET h == Rewritings(p, b)
         IN  /\ h[0] = <<StartFact(p, b), <<>>>>
             /\ \A k \in 1 .. Len(Ordered(p, b)) : h[k] = RewriteStmt(Analysis(p), p.kills, Ordered(p, b)[k], h[k - 1])
<1> DEFINE n == Len(Ordered(p, b))
           h == Rewritings(p, b)
<1>1. \E g : RewriteRun(Analysis(p), p.kills, Ordered(p, b), StartFact(p, b), g, n)
  BY RewriteRunExists
<1>2. RewriteRun(Analysis(p), p.kills, Ordered(p, b), StartFact(p, b), h, n)
  BY <1>1, RewritingsIs
<1> HIDE DEF h, n
<1>3. \A k \in 0 .. n : h[k] = IF k = 0 THEN <<StartFact(p, b), <<>>>>
                               ELSE RewriteStmt(Analysis(p), p.kills, Ordered(p, b)[k], h[k - 1])
  BY <1>2 DEF RewriteRun
<1>4. 0 \in 0 .. n /\ \A k \in 1 .. n : k \in 0 .. n /\ k # 0
  BY DEF n
<1>5. QED
  BY <1>3, <1>4 DEF h, n

\* The facts inside a block, by the statements that were analysed.
PointRun(a, kills, ss, first, g, n) ==
  g = [k \in 0 .. n |-> IF k = 0 THEN first ELSE transferStmt(a, kills, ss[k], g[k - 1])]

LEMMA PointsIs ==
  ASSUME NEW p, NEW b
  PROVE  Points(p, b) =
           CHOOSE g : PointRun(Analysis(p), p.kills, Ordered(p, b), StartFact(p, b), g, Len(Ordered(p, b)))
<1> DEFINE a == Analysis(p)
           ss == Ordered(p, b)
           n == Len(ss)
           first == StartFact(p, b)
           Body(g) == [k \in 0 .. n |-> IF k = 0 THEN first
                                        ELSE CHOOSE r \in {transferStmt(a, p.kills, ss[k], x) : x \in {g[k - 1]}} : TRUE]
<1>1. Points(p, b) = CHOOSE g : g = Body(g)
  BY Zenon DEF Points, Apply, StartFact, Ordered
<1>2. ASSUME NEW g
      PROVE  Body(g) = [k \in 0 .. n |-> IF k = 0 THEN first ELSE transferStmt(a, p.kills, ss[k], g[k - 1])]
  <2>1. \A k : (CHOOSE r \in {transferStmt(a, p.kills, ss[k], x) : x \in {g[k - 1]}} : TRUE)
               = transferStmt(a, p.kills, ss[k], g[k - 1])
    <3> HIDE DEF ss, a
    <3>1. \A k : {transferStmt(a, p.kills, ss[k], x) : x \in {g[k - 1]}} = {transferStmt(a, p.kills, ss[k], g[k - 1])}
      OBVIOUS
    <3>2. QED
      BY <3>1, ChosenIs
  <2>2. QED
    BY <2>1
<1>3. \A g : g = Body(g) <=> PointRun(a, p.kills, ss, first, g, n)
  BY <1>2 DEF PointRun
<1>4. QED
  <2> HIDE DEF Body, a, ss, n, first
  <2>1. (CHOOSE g : g = Body(g)) = CHOOSE g : PointRun(a, p.kills, ss, first, g, n)
    BY Zenon, <1>3
  <2>2. QED
    BY <1>1, <2>1 DEF a, ss, n, first

\* Points begins with the same fact and goes on by the transfer of each statement analysed.
LEMMA PointsAre ==
  ASSUME NEW p, NEW b, NEW S, Ordered(p, b) \in Seq(S)
  PROVE  LET g == Points(p, b)
         IN  /\ g[0] = StartFact(p, b)
             /\ \A k \in 1 .. Len(Ordered(p, b)) : g[k] = transferStmt(Analysis(p), p.kills, Ordered(p, b)[k], g[k - 1])
             /\ g[Len(Ordered(p, b))] = TransferAll(Analysis(p), p.kills, StartFact(p, b), Ordered(p, b))
<1> DEFINE a == Analysis(p)
           ss == Ordered(p, b)
           n == Len(ss)
           first == StartFact(p, b)
           g == Points(p, b)
<1>1. PICK h : /\ h[0] = first /\ TransferAll(a, p.kills, first, ss) = h[n]
               /\ \A i \in 1 .. n : h[i] = transferStmt(a, p.kills, ss[i], h[i - 1])
  <2> HIDE DEF ss, first, a
  <2>1. ss \in Seq(S)
    BY DEF ss
  <2>2. QED
    BY <2>1, TransferRuns
<1>2. n \in Nat
  OBVIOUS
<1>3. g = CHOOSE x : PointRun(a, p.kills, ss, first, x, n)
  BY PointsIs
<1> HIDE DEF n, ss, first, a, g
<1> DEFINE r == [k \in 0 .. n |-> h[k]]
<1>4. PointRun(a, p.kills, ss, first, r, n)
  <2>1. ASSUME NEW k \in 0 .. n
        PROVE  h[k] = IF k = 0 THEN first ELSE transferStmt(a, p.kills, ss[k], r[k - 1])
    <3>1. CASE k = 0
      BY <1>1, <3>1
    <3>2. CASE k # 0
      <4>1. k \in 1 .. n /\ k - 1 \in 0 .. n
        BY <1>2, <3>2
      <4>2. r[k - 1] = h[k - 1]
        BY <4>1
      <4>3. QED
        BY <1>1, <3>2, <4>1, <4>2
    <3>3. QED
      BY <3>1, <3>2
  <2>2. r = [k \in 0 .. n |-> IF k = 0 THEN first ELSE transferStmt(a, p.kills, ss[k], r[k - 1])]
    BY <2>1
  <2>3. QED
    BY <2>2 DEF PointRun
<1>5. PointRun(a, p.kills, ss, first, g, n)
  BY <1>3, <1>4
<1>6. \A k \in 0 .. n : g[k] = IF k = 0 THEN first ELSE transferStmt(a, p.kills, ss[k], g[k - 1])
  BY <1>5 DEF PointRun
<1> DEFINE D == {k \in Nat : k <= n /\ g[k] # h[k]}
<1>7. D = {}
  <2>1. SUFFICES ASSUME D # {} PROVE FALSE
    OBVIOUS
  <2>2. PICK m \in D : \A k \in D : m <= k
    <3> HIDE DEF D
    <3>1. D \in SUBSET Nat
      BY DEF D
    <3>2. QED
      BY <2>1, <3>1, LeastNat
  <2>3. m \in 0 .. n /\ 0 \in 0 .. n
    BY <1>2
  <2>4. m # 0
    BY <1>1, <1>6, <2>3
  <2>5. m \in 1 .. n /\ m - 1 \in Nat /\ m - 1 <= n /\ ~(m <= m - 1)
    BY <1>2, <2>3, <2>4
  <2>6. g[m - 1] = h[m - 1]
    BY <2>2, <2>5
  <2>7. QED
    BY <1>1, <1>6, <2>3, <2>4, <2>5, <2>6
<1>8. n \in Nat /\ n <= n /\ \A k \in 1 .. n : k \in 0 .. n /\ k # 0
  BY <1>2
<1>9. g[n] = h[n]
  BY <1>7, <1>8
<1>10. /\ g[0] = first
       /\ \A k \in 1 .. n : g[k] = transferStmt(a, p.kills, ss[k], g[k - 1])
       /\ g[n] = TransferAll(a, p.kills, first, ss)
  <2>1. 0 \in 0 .. n
    BY <1>2
  <2>2. QED
    BY <1>1, <1>6, <1>8, <1>9, <2>1
<1>11. QED
  BY <1>10 DEF n, ss, first, a, g

\* Statement k of block b, in the order of the analysis, with its uses replaced; and whether it goes.
NewStmt(p, b, k) == Replaced(Analysis(p), Ordered(p, b)[k], Rewritings(p, b)[k - 1][1])
Goes(p, b, k) == Removed(Analysis(p), NewStmt(p, b, k), Rewritings(p, b)[k - 1][1])

\* Statement k is kept, with its uses replaced, or goes.
LEMMA RewritingStep ==
  ASSUME NEW p, NEW b, Len(Ordered(p, b)) \in Nat, NEW k \in 1 .. Len(Ordered(p, b))
  PROVE  LET h == Rewritings(p, b)
         IN  /\ h[k][1] = transferStmt(Analysis(p), p.kills, NewStmt(p, b, k), h[k - 1][1])
             /\ h[k][2] = IF Goes(p, b, k) THEN h[k - 1][2] ELSE Append(h[k - 1][2], NewStmt(p, b, k))
<1>1. Rewritings(p, b)[k] = RewriteStmt(Analysis(p), p.kills, Ordered(p, b)[k], Rewritings(p, b)[k - 1])
  BY RewritingsAre
<1>2. QED
  BY <1>1 DEF RewriteStmt, NewStmt, Goes

\* What is kept of a block only grows at its end.
LEMMA KeptGrows ==
  ASSUME NEW p, NEW b, Len(Ordered(p, b)) \in Nat
  PROVE  LET h == Rewritings(p, b)
             n == Len(Ordered(p, b))
         IN  /\ \E S : \A k \in 0 .. n : h[k][2] \in Seq(S)
             /\ \A k \in 0 .. n : Len(h[k][2]) \in Nat /\ Len(h[k][2]) <= Len(h[n][2])
             /\ \A k \in 1 .. n : ~Goes(p, b, k) =>
                  /\ Len(h[k][2]) = Len(h[k - 1][2]) + 1
                  /\ h[n][2][Len(h[k][2])] = NewStmt(p, b, k)
<1> DEFINE h == Rewritings(p, b)
           n == Len(Ordered(p, b))
           S == {NewStmt(p, b, k) : k \in 1 .. n}
           kept(k) == h[k][2]
           Extends(s, t) == Len(s) <= Len(t) /\ \A i \in 1 .. Len(s) : t[i] = s[i]
           Bad(m) == \/ kept(m) \notin Seq(S)
                     \/ \E k \in 0 .. m : ~Extends(kept(k), kept(m))
           D == {m \in Nat : m <= n /\ Bad(m)}
<1>1. n \in Nat
  OBVIOUS
<1>2. kept(0) = <<>>
  BY RewritingsAre
<1>3. \A k \in 1 .. n : kept(k) = IF Goes(p, b, k) THEN kept(k - 1) ELSE Append(kept(k - 1), NewStmt(p, b, k))
  BY RewritingStep
<1>4. \A k \in 1 .. n : NewStmt(p, b, k) \in S
  OBVIOUS
<1> HIDE DEF h, n, S, kept
<1>5. \A s \in Seq(S), x \in S :
        /\ Append(s, x) \in Seq(S) /\ Len(s) \in Nat /\ Len(Append(s, x)) = Len(s) + 1
        /\ Append(s, x)[Len(s) + 1] = x
        /\ Extends(s, Append(s, x))
  OBVIOUS
<1>6. \A s \in Seq(S) : Extends(s, s)
  OBVIOUS
<1>7. \A s, t, u \in Seq(S) : Extends(s, t) /\ Extends(t, u) => Extends(s, u)
  <2>1. ASSUME NEW s \in Seq(S), NEW t \in Seq(S), NEW u \in Seq(S), Extends(s, t), Extends(t, u)
        PROVE  Extends(s, u)
    <3>1. Len(s) \in Nat /\ Len(t) \in Nat /\ Len(u) \in Nat
      OBVIOUS
    <3>2. \A i \in 1 .. Len(s) : i \in 1 .. Len(t)
      BY <2>1, <3>1
    <3>3. QED
      BY <2>1, <3>1, <3>2
  <2>2. QED
    BY <2>1
<1>8. \A m \in 0 .. n : ~Bad(m)
  <2>1. SUFFICES ASSUME D # {} PROVE FALSE
    BY <1>1
  <2>2. PICK m \in D : \A k \in D : m <= k
    <3> HIDE DEF D
    <3>1. D \in SUBSET Nat
      BY DEF D
    <3>2. QED
      BY <2>1, <3>1, LeastNat
  <2>3. m \in Nat /\ m <= n /\ Bad(m)
    OBVIOUS
  <2>4. CASE m = 0
    <3> HIDE DEF Extends, D
    <3>1. kept(0) \in Seq(S) /\ \A k \in 0 .. 0 : k = 0
      <4>1. <<>> \in Seq(S)
        BY ONLY TRUE
      <4>2. \A k \in 0 .. 0 : k = 0
        BY ONLY TRUE
      <4>3. QED
        BY <1>2, <4>1, <4>2
    <3>2. Bad(0)
      BY ONLY <2>3, <2>4
    <3>3. \A k \in 0 .. 0 : Extends(kept(k), kept(0))
      BY <1>6, <3>1
    <3>4. QED
      BY <3>1, <3>2, <3>3
  <2>5. CASE m # 0
    <3>1. m \in 1 .. n /\ m - 1 \in Nat /\ m - 1 <= n /\ ~(m <= m - 1)
      BY <1>1, <2>3, <2>5
    <3>2. ~Bad(m - 1)
      BY <2>2, <3>1
    <3> HIDE DEF Extends, D
    <3>3. kept(m - 1) \in Seq(S) /\ \A k \in 0 .. m - 1 : Extends(kept(k), kept(m - 1))
      BY <3>2
    <3>4. kept(m) \in Seq(S) /\ Extends(kept(m - 1), kept(m))
      BY <1>3, <1>4, <1>5, <1>6, <3>1, <3>3
    <3>5. ASSUME NEW k \in 0 .. m - 1 PROVE kept(k) \in Seq(S)
      <4>1. k \in Nat /\ k <= n /\ ~(m <= k)
        BY <1>1, <2>3, <3>1
      <4>2. k \notin D
        BY <2>2, <4>1
      <4>3. QED
        BY <4>1, <4>2 DEF D
    <3>6. \A k \in 0 .. m - 1 : Extends(kept(k), kept(m))
      BY <1>7, <3>1, <3>3, <3>4, <3>5
    <3>7. \A k \in 0 .. m : k \in 0 .. m - 1 \/ k = m
      BY <2>3
    <3>8. QED
      BY <1>6, <2>3, <3>4, <3>6, <3>7
  <2>6. QED
    BY <2>4, <2>5
<1>9. \A k \in 0 .. n : kept(k) \in Seq(S) /\ Extends(kept(k), kept(n))
  <2>1. n \in 0 .. n
    BY <1>1
  <2> HIDE DEF Extends
  <2>2. QED
    BY <1>8, <2>1
<1>10. ASSUME NEW k \in 1 .. n, ~Goes(p, b, k)
       PROVE  Len(kept(k)) = Len(kept(k - 1)) + 1 /\ kept(n)[Len(kept(k))] = NewStmt(p, b, k)
  <2>1. k \in 0 .. n /\ k - 1 \in 0 .. n
    BY <1>1
  <2>2. kept(k - 1) \in Seq(S) /\ NewStmt(p, b, k) \in S /\ kept(k) = Append(kept(k - 1), NewStmt(p, b, k))
    BY <1>3, <1>4, <1>9, <1>10, <2>1
  <2>3. Len(kept(k)) = Len(kept(k - 1)) + 1 /\ kept(k)[Len(kept(k))] = NewStmt(p, b, k) /\ Len(kept(k - 1)) \in Nat
    BY <1>5, <2>2
  <2>4. Len(kept(k)) \in 1 .. Len(kept(k))
    BY <2>3
  <2>5. QED
    BY <1>9, <2>1, <2>3, <2>4
<1>11. \A k \in 0 .. n : Len(kept(k)) \in Nat /\ Len(kept(k)) <= Len(kept(n))
  BY <1>9
<1>12. QED
  BY <1>9, <1>10, <1>11 DEF h, n, kept

-----------------------------------------------------------------------------
(* What a fact says of the variables' values, and that a statement keeps it true. *)

IsEnv(env) == env \in [DOMAIN env -> Int]

\* The variables' values after a statement that gives r.
NewEnv(env, s, r) == IF Defines(s) THEN With(env, s.rd, r) ELSE env

\* r is what the statement may give.
Gives(env, s, r) ==
  /\ r \in Int
  /\ s.kind = "assign" => r = Value(env, s.use[1])
  /\ s.kind = "op" => r = Compute(s.op, Value(env, s.use[1]), Value(env, s.use[2]))

LEMMA WithIs ==
  \A env, v, x :
    /\ DOMAIN With(env, v, x) = DOMAIN env \cup {v}
    /\ With(env, v, x)[v] = x
    /\ \A w \in DOMAIN env : w # v => With(env, v, x)[w] = env[w]
    /\ IsMap(With(env, v, x))
BY DEF With, IsMap

\* Giving a variable a number gives numbers to variables.
LEMMA WithEnv ==
  ASSUME NEW env, IsEnv(env), NEW v, NEW x \in Int
  PROVE  IsEnv(With(env, v, x))
<1>1. \A w \in DOMAIN env \cup {v} : (IF w = v THEN x ELSE env[w]) \in Int
  BY DEF IsEnv
<1>2. QED
  BY <1>1 DEF IsEnv, With

LEMMA WithoutIs ==
  \A x, v :
    /\ DOMAIN Without(x, v) = DOMAIN x \ {v}
    /\ \A w \in DOMAIN x : w # v => Without(x, v)[w] = x[w]
    /\ IsMap(Without(x, v))
BY DEF Without, IsMap

\* A statement that is carried out leaves numbers in the variables.
LEMMA NewEnvIs ==
  ASSUME NEW env, IsEnv(env), NEW s, NEW r \in Int
  PROVE  IsEnv(NewEnv(env, s, r))
BY WithEnv DEF NewEnv

\* The values of a statement's operands.
LEMMA OperandValue ==
  ASSUME NEW env, IsEnv(env), NEW s, Shaped(s), Uses(s) \subseteq DOMAIN env
  PROVE  \A j \in DOMAIN s.use :
           /\ Operand(s.use[j])
           /\ IsVar(s.use[j]) => s.use[j][2] \in Uses(s) /\ s.use[j][2] \in DOMAIN env
           /\ Value(env, s.use[j]) \in Int
<1> SUFFICES ASSUME NEW j \in DOMAIN s.use
             PROVE  /\ Operand(s.use[j])
                    /\ IsVar(s.use[j]) => s.use[j][2] \in Uses(s) /\ s.use[j][2] \in DOMAIN env
                    /\ Value(env, s.use[j]) \in Int
  OBVIOUS
<1>1. Operand(s.use[j])
  BY DEF Shaped
<1>2. ASSUME IsVar(s.use[j]) PROVE s.use[j][2] \in Uses(s)
  BY <1>2 DEF Uses
<1>3. Value(env, s.use[j]) \in Int
  <2>1. CASE IsVar(s.use[j])
    BY <1>2, <2>1 DEF Value, IsEnv
  <2>2. CASE ~IsVar(s.use[j])
    BY <1>1, <2>2 DEF Value, Operand, IsVar
  <2>3. QED
    BY <2>1, <2>2
<1>4. QED
  BY <1>1, <1>2, <1>3

-----------------------------------------------------------------------------
(* Constants. *)

Const(n) == <<"const", n>>

LEMMA Tags ==
  /\ NAC # UNDEF /\ NAC[1] = "nac" /\ UNDEF[1] = "undef"
  /\ \A n : Const(n) # NAC /\ Const(n) # UNDEF /\ Const(n)[1] = "const" /\ Const(n)[2] = n
  /\ \A n, m : Const(n) = Const(m) => n = m
<1>1. NAC[1] = "nac" /\ UNDEF[1] = "undef"
  BY DEF NAC, UNDEF
<1>2. \A n : Const(n)[1] = "const" /\ Const(n)[2] = n
  BY DEF Const
<1>3. "nac" # "undef" /\ "const" # "nac" /\ "const" # "undef"
  OBVIOUS
<1> HIDE DEF Const
<1>4. QED
  BY <1>1, <1>2, <1>3

\* Nothing is known of an address but that it is not a constant.
NoConst(A, x) == \A v \in A \cap DOMAIN x : x[v] \in {NAC, UNDEF}

ConstantHolds(A, env, x) ==
  /\ \A v \in DOMAIN env \ A : v \in DOMAIN x /\ x[v] \in {NAC, Const(env[v])}
  /\ NoConst(A, x)

\* What is known of an operand.
LEMMA ConstantOperand ==
  ASSUME NEW A, NEW env, NEW x, ConstantHolds(A, env, x),
         NEW u, Operand(u), IsVar(u) => u[2] \in DOMAIN env
  PROVE  /\ ~(IsVar(u) /\ u[2] \in A) => Fact_get_value(x, u) \in {NAC, Const(Value(env, u))}
         /\ IsVar(u) /\ u[2] \in A => Fact_get_value(x, u) \in {NAC, UNDEF}
<1>1. CASE ~IsVar(u)
  <2>1. u = <<u[1], u[2]>> /\ u[1] = "const"
    BY <1>1 DEF IsVar, Operand
  <2>2. u = Const(u[2])
    BY <2>1 DEF Const
  <2>3. QED
    BY <1>1, <2>2 DEF Fact_get_value, Value
<1>2. CASE IsVar(u) /\ u[2] \in A
  BY <1>2 DEF ConstantHolds, NoConst, Fact_get_value
<1>3. CASE IsVar(u) /\ u[2] \notin A
  BY <1>3 DEF ConstantHolds, Fact_get_value, Value
<1>4. QED
  BY <1>1, <1>2, <1>3

\* calculateValue gives what the operation computes, or that it is not known.
LEMMA CalculateIs ==
  \A op, v, w : calculateValue(op, v, w) =
    IF op = "/" /\ w = Const(0) THEN UNDEF
    ELSE IF NAC \in {v, w} THEN NAC
    ELSE IF UNDEF \in {v, w} THEN UNDEF
    ELSE Const(Compute(op, v[2], w[2]))
<1>1. SUFFICES ASSUME NEW op, NEW v, NEW w
               PROVE  calculateValue(op, v, w) =
                        IF op = "/" /\ w = Const(0) THEN UNDEF
                        ELSE IF NAC \in {v, w} THEN NAC
                        ELSE IF UNDEF \in {v, w} THEN UNDEF
                        ELSE Const(Compute(op, v[2], w[2]))
  BY Zenon
<1>2. CASE op = "/" /\ w = Const(0)
  BY <1>2 DEF calculateValue, Const
<1>3. CASE ~(op = "/" /\ w = Const(0))
  BY <1>3 DEF calculateValue, Const
<1>4. QED
  BY <1>2, <1>3

\* What becomes known of the variable that is defined.
LEMMA UpdateIs ==
  ASSUME NEW x, NEW v, NEW val
  PROVE  LET y == Fact_update_value(x, v, val)
         IN  /\ DOMAIN y = IF val = UNDEF THEN DOMAIN x \ {v} ELSE DOMAIN x \cup {v}
             /\ val # UNDEF => y[v] = val
             /\ \A w \in DOMAIN x : w # v => y[w] = x[w]
<1>1. CASE val = UNDEF
  <2>1. Fact_update_value(x, v, val) = Without(x, v)
    BY <1>1 DEF Fact_update_value
  <2>2. QED
    BY <1>1, <2>1, WithoutIs
<1>2. CASE val # UNDEF
  <2>1. Fact_update_value(x, v, val) = With(x, v, val)
    BY <1>2 DEF Fact_update_value
  <2>2. /\ DOMAIN With(x, v, val) = DOMAIN x \cup {v}
        /\ With(x, v, val)[v] = val
        /\ \A w \in DOMAIN x : w # v => With(x, v, val)[w] = x[w]
    BY DEF With
  <2>3. QED
    BY <1>2, <2>1, <2>2
<1>3. QED
  BY <1>1, <1>2

\* A fact after v has been given r: what is said of v is right too.
LEMMA ConstantUpdate ==
  ASSUME NEW A, NEW env, NEW x, ConstantHolds(A, env, x), NEW v, NEW r, NEW val,
         v \notin A => val \in {NAC, Const(r)},
         v \in A => val \in {NAC, UNDEF}
  PROVE  ConstantHolds(A, With(env, v, r), Fact_update_value(x, v, val))
<1> DEFINE y == Fact_update_value(x, v, val)
           e == With(env, v, r)
<1>1. /\ DOMAIN y = IF val = UNDEF THEN DOMAIN x \ {v} ELSE DOMAIN x \cup {v}
      /\ val # UNDEF => y[v] = val
      /\ \A w \in DOMAIN x : w # v => y[w] = x[w]
  BY UpdateIs
<1>2. /\ DOMAIN e = DOMAIN env \cup {v}
      /\ e[v] = r
      /\ \A w \in DOMAIN env : w # v => e[w] = env[w]
  BY DEF With
<1>3. v \notin A => val # UNDEF
  <2>1. NAC # UNDEF /\ Const(r) # UNDEF
    BY Tags
  <2>2. QED
    BY <2>1, Zenon
<1> HIDE DEF y, e
<1>4. ASSUME NEW w \in DOMAIN e \ A
      PROVE  w \in DOMAIN y /\ y[w] \in {NAC, Const(e[w])}
  <2>1. CASE w = v
    <3>1. v \notin A
      BY <2>1
    <3>2. val # UNDEF /\ val \in {NAC, Const(r)}
      BY <1>3, <3>1, Zenon
    <3>3. v \in DOMAIN y /\ y[v] = val
      BY <1>1, <3>2
    <3>4. y[w] = val /\ e[w] = r /\ w \in DOMAIN y
      BY <1>2, <2>1, <3>3
    <3>5. QED
      BY <3>2, <3>4, Zenon
  <2>2. CASE w # v
    <3>1. w \in DOMAIN env \ A /\ e[w] = env[w]
      BY <1>2, <2>2
    <3>2. w \in DOMAIN x /\ x[w] \in {NAC, Const(env[w])}
      BY <3>1 DEF ConstantHolds
    <3>3. QED
      BY <1>1, <2>2, <3>1, <3>2
  <2>3. QED
    BY <2>1, <2>2
<1>5. ASSUME NEW w \in A \cap DOMAIN y
      PROVE  y[w] \in {NAC, UNDEF}
  <2>1. CASE w = v
    BY <1>1, <1>5, <2>1
  <2>2. CASE w # v
    <3>1. w \in A \cap DOMAIN x
      BY <1>1, <2>2
    <3>2. QED
      BY <1>1, <2>2, <3>1 DEF ConstantHolds, NoConst
  <2>3. QED
    BY <2>1, <2>2
<1>6. QED
  BY <1>4, <1>5 DEF ConstantHolds, NoConst, y, e

LEMMA UsesAre ==
  ASSUME NEW s
  PROVE  \A w : w \in Uses(s) <=> \E j \in DOMAIN s.use : IsVar(s.use[j]) /\ s.use[j][2] = w
BY DEF Uses

\* A statement that does with the values in env what s does with them.
Same(env, s, t) ==
  /\ Shaped(t) /\ t.kind = s.kind /\ t.op = s.op /\ t.rd = s.rd
  /\ DOMAIN t.use = DOMAIN s.use
  /\ \A j \in DOMAIN s.use : Value(env, t.use[j]) = Value(env, s.use[j])
  /\ Uses(t) \subseteq DOMAIN env

LEMMA SameGives ==
  ASSUME NEW env, NEW s, Shaped(s), NEW t, Same(env, s, t)
  PROVE  /\ Defined(env, s) => Defined(env, t)
         /\ \A r : Gives(env, s, r) => Gives(env, t, r)
         /\ \A r : NewEnv(env, t, r) = NewEnv(env, s, r)
         /\ Values(env, t) = Values(env, s)
<1>1. /\ s.kind = "assign" => 1 \in DOMAIN s.use
      /\ s.kind = "op" => 1 \in DOMAIN s.use /\ 2 \in DOMAIN s.use
  BY DEF Shaped
<1>2. Defined(env, s) => Defined(env, t)
  BY <1>1 DEF Defined, Same
<1>3. \A r : Gives(env, s, r) => Gives(env, t, r)
  BY <1>1 DEF Gives, Same
<1>4. \A r : NewEnv(env, t, r) = NewEnv(env, s, r)
  BY DEF NewEnv, Defines, Same
<1>5. Values(env, t) = Values(env, s)
  BY DEF Values, Same
<1>6. QED
  BY <1>2, <1>3, <1>4, <1>5

\* A constant in the place of a variable has its value.
LEMMA FoldedOperand ==
  ASSUME NEW A, NEW env, IsEnv(env), NEW x, ConstantHolds(A, env, x),
         NEW u, Operand(u), IsVar(u) => u[2] \in DOMAIN env,
         NEW v, v = (IF Fact_get_value(x, u) \in {NAC, UNDEF} THEN u ELSE Fact_get_value(x, u))
  PROVE  /\ Operand(v) /\ Value(env, v) = Value(env, u)
         /\ IsVar(v) => v = u
         /\ IsVar(u) /\ u[2] \in A => v = u
<1>1. CASE Fact_get_value(x, u) \in {NAC, UNDEF}
  BY <1>1
<1>2. CASE Fact_get_value(x, u) \notin {NAC, UNDEF}
  <2>1. v = Fact_get_value(x, u) /\ v # NAC
    BY <1>2
  <2>2. ~(IsVar(u) /\ u[2] \in A)
    BY <1>2, ConstantOperand
  <2>3. v = Const(Value(env, u))
    BY <2>1, <2>2, ConstantOperand
  <2>4. Value(env, u) \in Int
    <3>1. CASE IsVar(u)
      BY <3>1 DEF Value, IsEnv
    <3>2. CASE ~IsVar(u)
      BY <3>2 DEF Value, IsVar, Operand
    <3>3. QED
      BY <3>1, <3>2
  <2>5. v = <<v[1], v[2]>> /\ v[1] = "const" /\ v[2] = Value(env, u)
    BY <2>3 DEF Const
  <2>6. ~IsVar(v)
    BY <2>5 DEF IsVar
  <2>7. Operand(v) /\ Value(env, v) = v[2]
    BY <2>4, <2>5, <2>6 DEF Operand, Value
  <2>8. QED
    BY <2>2, <2>5, <2>6, <2>7
<1>3. QED
  BY <1>1, <1>2

\* constant_folding leaves a statement that does the same.
LEMMA FoldedSame ==
  ASSUME NEW A, NEW env, IsEnv(env), NEW x, ConstantHolds(A, env, x),
         NEW s, Shaped(s), Uses(s) \subseteq DOMAIN env
  PROVE  LET t == constant_folding(s, x)
         IN  Same(env, s, t) /\ Uses(t) \cap A = Uses(s) \cap A
<1> DEFINE t == constant_folding(s, x)
           New(j) == IF Fact_get_value(x, s.use[j]) \in {NAC, UNDEF} THEN s.use[j] ELSE Fact_get_value(x, s.use[j])
<1>1. /\ DOMAIN t = DOMAIN s
      /\ t.kind = s.kind /\ t.op = s.op /\ t.rd = s.rd
      /\ t.use = [j \in DOMAIN s.use |-> New(j)]
  BY DEF constant_folding, Shaped
<1>2. ASSUME NEW j \in DOMAIN s.use
      PROVE  /\ Operand(t.use[j]) /\ Value(env, t.use[j]) = Value(env, s.use[j])
             /\ IsVar(t.use[j]) => t.use[j] = s.use[j]
             /\ IsVar(s.use[j]) /\ s.use[j][2] \in A => t.use[j] = s.use[j]
  <2>1. Operand(s.use[j]) /\ (IsVar(s.use[j]) => s.use[j][2] \in DOMAIN env)
    BY OperandValue
  <2>2. t.use[j] = New(j)
    BY <1>1
  <2>3. QED
    BY <2>1, <2>2, FoldedOperand
<1>3. DOMAIN t.use = DOMAIN s.use
  BY <1>1
<1> HIDE DEF t
<1>4. \A w \in Uses(t) : w \in Uses(s)
  BY <1>2, <1>3, UsesAre
<1>5. \A w \in Uses(s) \cap A : w \in Uses(t)
  BY <1>2, <1>3, UsesAre
<1>6. Shaped(t)
  BY <1>1, <1>2, <1>3 DEF Shaped
<1>7. QED
  BY <1>1, <1>2, <1>3, <1>4, <1>5, <1>6 DEF Same, t

\* What is known of the constants is right after a statement too.
LEMMA ConstantStep ==
  ASSUME NEW A, NEW env, IsEnv(env), NEW x, ConstantHolds(A, env, x),
         NEW s, Shaped(s), Defined(env, s),
         s.kind \in {"assign", "op"} => (s.rd \in A <=> Uses(s) \cap A # {}),
         NEW r, Gives(env, s, r)
  PROVE  ConstantHolds(A, NewEnv(env, s, r), ConstantTransfer(s, x))
<1>1. Uses(s) \subseteq DOMAIN env
  BY DEF Defined
<1>2. \A j \in DOMAIN s.use :
        /\ IsVar(s.use[j]) => s.use[j][2] \in Uses(s)
        /\ ~(IsVar(s.use[j]) /\ s.use[j][2] \in A) => Fact_get_value(x, s.use[j]) \in {NAC, Const(Value(env, s.use[j]))}
        /\ IsVar(s.use[j]) /\ s.use[j][2] \in A => Fact_get_value(x, s.use[j]) \in {NAC, UNDEF}
  BY <1>1, OperandValue, ConstantOperand
<1>3. CASE s.kind = "assign"
  <2> DEFINE u == s.use[1]
             val == Fact_get_value(x, u)
  <2>1. DOMAIN s.use = {1}
    BY <1>3 DEF Shaped
  <2>2. NewEnv(env, s, r) = With(env, s.rd, r) /\ r = Value(env, u)
    BY <1>3 DEF NewEnv, Defines, Gives
  <2>3. ConstantTransfer(s, x) = Fact_update_value(x, s.rd, val)
    BY <1>3 DEF ConstantTransfer
  <2>4. s.rd \notin A => ~(IsVar(u) /\ u[2] \in A)
    BY <1>2, <1>3, <2>1
  <2>5. s.rd \in A => IsVar(u) /\ u[2] \in A
    BY <1>3, <2>1, UsesAre
  <2>6. /\ s.rd \notin A => val \in {NAC, Const(r)}
        /\ s.rd \in A => val \in {NAC, UNDEF}
    BY <1>2, <2>1, <2>2, <2>4, <2>5
  <2> HIDE DEF val
  <2>7. QED
    BY <2>2, <2>3, <2>6, ConstantUpdate
<1>4. CASE s.kind = "op"
  <2> DEFINE u == s.use[1]
             w == s.use[2]
             vu == Fact_get_value(x, u)
             vw == Fact_get_value(x, w)
             val == calculateValue(s.op, vu, vw)
  <2>1. DOMAIN s.use = {1, 2}
    BY <1>4 DEF Shaped
  <2>2. NewEnv(env, s, r) = With(env, s.rd, r) /\ r = Compute(s.op, Value(env, u), Value(env, w))
    BY <1>4 DEF NewEnv, Defines, Gives
  <2>3. ConstantTransfer(s, x) = Fact_update_value(x, s.rd, val)
    BY <1>4 DEF ConstantTransfer
  <2>4. s.rd \notin A => ~(IsVar(u) /\ u[2] \in A) /\ ~(IsVar(w) /\ w[2] \in A)
    BY <1>2, <1>4, <2>1
  <2>5. s.rd \in A => (IsVar(u) /\ u[2] \in A) \/ (IsVar(w) /\ w[2] \in A)
    BY <1>4, <2>1, UsesAre
  <2>6. val = IF s.op = "/" /\ vw = Const(0) THEN UNDEF
              ELSE IF NAC \in {vu, vw} THEN NAC
              ELSE IF UNDEF \in {vu, vw} THEN UNDEF
              ELSE Const(Compute(s.op, vu[2], vw[2]))
    BY CalculateIs
  <2>7. ASSUME s.rd \notin A PROVE val \in {NAC, Const(r)}
    <3>1. vu \in {NAC, Const(Value(env, u))} /\ vw \in {NAC, Const(Value(env, w))}
      BY <1>2, <2>1, <2>4, <2>7
    <3>2. ~(s.op = "/" /\ vw = Const(0))
      <4>1. SUFFICES ASSUME s.op = "/", vw = Const(0) PROVE FALSE
        OBVIOUS
      <4>2. Value(env, w) # 0
        BY <1>4, <4>1 DEF Defined
      <4>3. QED
        BY <3>1, <4>1, <4>2, Tags
    <3> HIDE DEF vu, vw, val
    <3>3. CASE NAC \in {vu, vw}
      BY <2>6, <3>2, <3>3
    <3>4. CASE NAC \notin {vu, vw}
      <4>1. vu = Const(Value(env, u)) /\ vw = Const(Value(env, w))
        BY <3>1, <3>4
      <4>2. UNDEF \notin {vu, vw}
        BY <4>1, Tags
      <4>3. vu[2] = Value(env, u) /\ vw[2] = Value(env, w)
        BY <4>1, Tags
      <4>4. val = Const(Compute(s.op, vu[2], vw[2]))
        BY <2>6, <3>2, <3>4, <4>2
      <4>5. QED
        BY <2>2, <4>3, <4>4
    <3>5. QED
      BY <3>3, <3>4
  <2>8. ASSUME s.rd \in A PROVE val \in {NAC, UNDEF}
    <3>1. vu \in {NAC, UNDEF} \/ vw \in {NAC, UNDEF}
      BY <1>2, <2>1, <2>5, <2>8
    <3> HIDE DEF vu, vw, val
    <3>2. NAC \in {vu, vw} \/ UNDEF \in {vu, vw}
      BY <3>1
    <3>3. QED
      BY <2>6, <3>2
  <2> HIDE DEF val
  <2>9. QED
    BY <2>2, <2>3, <2>7, <2>8, ConstantUpdate
<1>5. CASE s.kind \notin {"assign", "op"}
  <2>1. CASE s.rd = NONE
    BY <1>5, <2>1 DEF ConstantTransfer, NewEnv, Defines
  <2>2. CASE s.rd # NONE
    <3>1. NewEnv(env, s, r) = With(env, s.rd, r) /\ ConstantTransfer(s, x) = Fact_update_value(x, s.rd, NAC)
      BY <1>5, <2>2 DEF ConstantTransfer, NewEnv, Defines
    <3>2. QED
      BY <3>1, ConstantUpdate
  <2>3. QED
    BY <2>1, <2>2
<1>6. QED
  BY <1>3, <1>4, <1>5

\* A fact that has flowed into another, which says no more.
LEMMA ConstantFlows ==
  ASSUME NEW A, NEW env, NEW x, ConstantHolds(A, env, x), NEW y, NoConst(A, y), Absorbed("constant", x, y)
  PROVE  ConstantHolds(A, env, y)
<1>1. y = [v \in DOMAIN x \cup DOMAIN y |-> meetValue(Fact_get_value(y, Val(v)), Fact_get_value(x, Val(v)))]
  BY DEF Absorbed, meetInto
<1>2. ASSUME NEW v \in DOMAIN env \ A
      PROVE  v \in DOMAIN y /\ y[v] \in {NAC, Const(env[v])}
  <2>1. v \in DOMAIN x /\ x[v] \in {NAC, Const(env[v])}
    BY DEF ConstantHolds
  <2>2. v \in DOMAIN y
    BY <1>1, <2>1
  <2>3. y[v] = meetValue(Fact_get_value(y, Val(v)), Fact_get_value(x, Val(v)))
    <3>1. v \in DOMAIN x \cup DOMAIN y
      BY <2>2
    <3>2. QED
      BY <1>1, <3>1
  <2>4. Val(v)[1] = "var" /\ Val(v)[2] = v
    BY DEF Val
  <2>5. Fact_get_value(y, Val(v)) = y[v] /\ Fact_get_value(x, Val(v)) = x[v]
    BY <2>1, <2>2, <2>4 DEF Fact_get_value, IsVar
  <2>6. y[v] = meetValue(y[v], x[v])
    BY <2>3, <2>5
  <2>7. meetValue(y[v], x[v]) = IF NAC \in {y[v], x[v]} THEN NAC ELSE IF y[v] = UNDEF THEN x[v]
                                ELSE IF x[v] \in {UNDEF, y[v]} THEN y[v] ELSE NAC
    BY MeetValueIs
  <2>8. CASE x[v] = NAC
    BY <2>2, <2>6, <2>7, <2>8
  <2>9. CASE x[v] = Const(env[v])
    <3>1. x[v] # NAC /\ x[v] # UNDEF
      BY <2>9, Tags
    <3>2. y[v] = NAC \/ y[v] = x[v]
      BY <2>6, <2>7, <3>1, Zenon
    <3>3. QED
      BY <2>2, <2>9, <3>2
  <2>10. QED
    BY <2>1, <2>8, <2>9
<1>3. QED
  BY <1>2 DEF ConstantHolds

-----------------------------------------------------------------------------
(* Available expressions. *)

\* A variable that is not defined keeps its value.
LEMMA ValueKept ==
  ASSUME NEW env, NEW v, NEW r, NEW u, IsVar(u) => u[2] \in DOMAIN env /\ u[2] # v
  PROVE  Value(With(env, v, r), u) = Value(env, u)
<1>1. CASE IsVar(u)
  BY <1>1 DEF With, Value
<1>2. CASE ~IsVar(u)
  BY <1>2 DEF Value
<1>3. QED
  BY <1>1, <1>2

\* The variable of t holds the value of its expression.
HoldsExpr(env, t) ==
  /\ Uses(t) \subseteq DOMAIN env /\ t.rd \in DOMAIN env
  /\ env[t.rd] = Compute(t.op, Value(env, t.use[1]), Value(env, t.use[2]))

AvailableHolds(f, env, x) ==
  /\ ~x.top
  /\ \A t \in Stmts(f) : t.kind = "op" /\ t.rd \in x.set => HoldsExpr(env, t)

\* What an operation does to the set of available variables.
LEMMA AvailableIs ==
  ASSUME NEW kills, NEW s, NEW x, Fact("available", x)
  PROVE  LET y == AvailableTransfer(kills, s, x)
         IN  /\ y.top = x.top
             /\ \A v : v \in y.set <=> \/ v \in x.set /\ (s.rd \in DOMAIN kills => v \notin kills[s.rd])
                                       \/ s.kind = "op" /\ v = s.rd
<1>1. x = [top |-> x.top, set |-> x.set]
  BY DEF Fact
<1> DEFINE set == (IF s.rd \in DOMAIN kills THEN x.set \ kills[s.rd] ELSE x.set)
                  \cup (IF s.kind = "op" THEN {s.rd} ELSE {})
           y == AvailableTransfer(kills, s, x)
<1>2. y = [x EXCEPT !.set = set]
  BY Zenon DEF AvailableTransfer
<1> HIDE DEF set, y
<1>3. y.top = x.top /\ y.set = set
  BY <1>1, <1>2
<1>4. QED
  BY <1>3 DEF set, y

\* Both orders of the operands of + and * are the same expression.
LEMMA SameExprValue ==
  ASSUME Arithmetic, NEW s, NEW t, SameExpr(s, t), NEW env,
         Value(env, s.use[1]) \in Int, Value(env, s.use[2]) \in Int
  PROVE  Compute(t.op, Value(env, t.use[1]), Value(env, t.use[2]))
           = Compute(s.op, Value(env, s.use[1]), Value(env, s.use[2]))
<1>1. CASE s.use[1] = t.use[1] /\ s.use[2] = t.use[2]
  BY <1>1 DEF SameExpr
<1>2. CASE s.op \in {"+", "*"} /\ s.use[1] = t.use[2] /\ s.use[2] = t.use[1]
  BY <1>2 DEF SameExpr, Arithmetic
<1>3. QED
  BY <1>1, <1>2 DEF SameExpr

\* Each expression said to be available is available after a statement too.
LEMMA AvailableStep ==
  ASSUME Arithmetic,
         NEW p, Merged(p), \A t \in Stmts(Func(p)) : Shaped(t),
         NEW env, IsEnv(env), NEW x, Fact("available", x), AvailableHolds(Func(p), env, x),
         NEW s \in Stmts(Func(p)), Defined(env, s),
         NEW r, Gives(env, s, r)
  PROVE  AvailableHolds(Func(p), NewEnv(env, s, r), AvailableTransfer(p.kills, s, x))
<1> DEFINE y == AvailableTransfer(p.kills, s, x)
           e == NewEnv(env, s, r)
<1>1. /\ y.top = x.top
      /\ \A v : v \in y.set <=> \/ v \in x.set /\ (s.rd \in DOMAIN p.kills => v \notin p.kills[s.rd])
                                \/ s.kind = "op" /\ v = s.rd
  BY AvailableIs
<1> HIDE DEF y
<1>2. SUFFICES ASSUME NEW t \in Stmts(Func(p)), t.kind = "op", t.rd \in y.set PROVE HoldsExpr(e, t)
  BY <1>1 DEF AvailableHolds, y
<1>3. /\ \A u \in Uses(t) : u \in DOMAIN p.kills /\ t.rd \in p.kills[u]
      /\ \A q \in Stmts(Func(p)) : q.rd = t.rd => q.kind = "op"
  BY <1>2 DEF Merged
<1>4. DOMAIN t.use = {1, 2}
  BY <1>2 DEF Shaped
<1>5. CASE s.kind = "op" /\ t.rd = s.rd
  <2>1. SameExpr(s, t) /\ s.rd \notin Uses(s)
    BY <1>5 DEF Merged
  <2>2. e = With(env, s.rd, r) /\ r = Compute(s.op, Value(env, s.use[1]), Value(env, s.use[2]))
    BY <1>5 DEF NewEnv, Defines, Gives
  <2>3. DOMAIN s.use = {1, 2} /\ Uses(s) \subseteq DOMAIN env
    BY <1>5 DEF Shaped, Defined
  <2>4. \A j \in {1, 2} : /\ Value(env, s.use[j]) \in Int
                          /\ IsVar(s.use[j]) => s.use[j][2] \in DOMAIN env /\ s.use[j][2] # s.rd
                          /\ IsVar(s.use[j]) => s.use[j][2] \in Uses(s)
    BY <2>1, <2>3, OperandValue
  <2>5. \A j \in {1, 2} : Value(e, s.use[j]) = Value(env, s.use[j])
    BY <2>2, <2>4, ValueKept
  <2>6. Compute(t.op, Value(e, t.use[1]), Value(e, t.use[2])) = Compute(s.op, Value(e, s.use[1]), Value(e, s.use[2]))
    <3>1. Value(e, s.use[1]) \in Int /\ Value(e, s.use[2]) \in Int
      BY <2>4, <2>5
    <3>2. QED
      BY <2>1, <3>1, SameExprValue
  <2>7. \A j \in DOMAIN t.use : \E k \in {1, 2} : t.use[j] = s.use[k]
    BY <1>4, <2>1 DEF SameExpr
  <2>8. Uses(t) \subseteq Uses(s)
    BY <2>3, <2>7, UsesAre
  <2>9. DOMAIN e = DOMAIN env \cup {s.rd} /\ e[s.rd] = r
    BY <2>2 DEF With
  <2>10. QED
    BY <1>5, <2>2, <2>3, <2>5, <2>6, <2>8, <2>9 DEF HoldsExpr
<1>6. CASE ~(s.kind = "op" /\ t.rd = s.rd)
  <2>1. t.rd \in x.set /\ (s.rd \in DOMAIN p.kills => t.rd \notin p.kills[s.rd])
    BY <1>1, <1>2, <1>6
  <2>2. HoldsExpr(env, t)
    BY <1>2, <2>1 DEF AvailableHolds
  <2>3. CASE ~Defines(s)
    BY <2>2, <2>3 DEF NewEnv
  <2>4. CASE Defines(s)
    <3>1. e = With(env, s.rd, r)
      BY <2>4 DEF NewEnv
    <3>2. s.rd \notin Uses(t) /\ s.rd # t.rd
      BY <1>3, <1>6, <2>1
    <3>3. \A j \in {1, 2} : IsVar(t.use[j]) => t.use[j][2] \in Uses(t)
      BY <1>4, UsesAre
    <3>4. \A j \in {1, 2} : Value(e, t.use[j]) = Value(env, t.use[j])
      BY <2>2, <3>1, <3>2, <3>3, ValueKept DEF HoldsExpr
    <3>5. DOMAIN e = DOMAIN env \cup {s.rd} /\ \A v \in DOMAIN env : v # s.rd => e[v] = env[v]
      BY <3>1 DEF With
    <3>6. QED
      BY <2>2, <3>2, <3>4, <3>5 DEF HoldsExpr
  <2>5. QED
    BY <2>3, <2>4
<1>7. QED
  BY <1>5, <1>6

\* A meet of sets says no more than each of them.
LEMMA AvailableFlows ==
  ASSUME NEW f, NEW env, NEW x, AvailableHolds(f, env, x), NEW y, Fact("available", y), Absorbed("available", x, y)
  PROVE  AvailableHolds(f, env, y)
<1>1. x.top \/ (~y.top /\ y.set \subseteq x.set)
  BY AbsorbedIs
<1>2. QED
  BY <1>1 DEF AvailableHolds

-----------------------------------------------------------------------------
(* Copies. *)

CopyHolds(env, x) ==
  /\ ~x.top
  /\ \A d \in DOMAIN x.use : d \in DOMAIN env => x.use[d] \in DOMAIN env /\ env[x.use[d]] = env[d]

IsCopies(y) == y \in [top : BOOLEAN, use : {y.use}, def : {y.def}]

Copies(y, use, def) == [y EXCEPT !.use = use, !.def = def]

\* What a copy fact becomes when both its maps are replaced.
LEMMA CopiesBecome ==
  ASSUME NEW y, IsCopies(y), NEW use, NEW def
  PROVE  LET z == Copies(y, use, def)
         IN  IsCopies(z) /\ z.top = y.top /\ z.use = use /\ z.def = def
<1> DEFINE z == Copies(y, use, def)
<1>1. z.use = use /\ z.def = def /\ z.top = y.top /\ z \in [top : BOOLEAN, use : {use}, def : {def}]
  BY DEF IsCopies, Copies
<1> HIDE DEF z
<1>2. QED
  BY <1>1 DEF IsCopies, z

\* A meet of copies says no more than each of them.
LEMMA CopyFlows ==
  ASSUME NEW env, NEW x, CopyHolds(env, x), NEW y, Fact("copy", y), Absorbed("copy", x, y)
  PROVE  CopyHolds(env, y)
<1> DEFINE gone == {d \in DOMAIN y.use : d \notin DOMAIN x.use \/ x.use[d] # y.use[d]}
           lost == {y.use[d] : d \in gone}
           def == [u \in {x.use[d] : d \in DOMAIN x.use} |-> Min({d \in DOMAIN x.use : x.use[d] = u})]
<1>1. ~x.top /\ y = CopyMeet(x, y)
  BY DEF CopyHolds, Absorbed, meetInto
<1>2. IsCopies(y)
  BY DEF Fact, IsCopies
<1>3. ~y.top
  <2>1. SUFFICES ASSUME y.top PROVE FALSE
    OBVIOUS
  <2>2. y = [top |-> FALSE, use |-> x.use, def |-> def]
    BY <1>1, <2>1 DEF CopyMeet
  <2> HIDE DEF def
  <2>3. QED
    BY <2>1, <2>2
<1>4. y = [y EXCEPT !.use = [d \in DOMAIN @ \ gone |-> @[d]], !.def = [u \in DOMAIN @ \ lost |-> @[u]]]
  BY <1>1, <1>3 DEF CopyMeet
<1> HIDE DEF lost, def
<1>5. y.use = [d \in DOMAIN y.use \ gone |-> y.use[d]]
  <2> DEFINE use2 == [d \in DOMAIN y.use \ gone |-> y.use[d]]
             def2 == [u \in DOMAIN y.def \ lost |-> y.def[u]]
  <2>1. y = Copies(y, use2, def2)
    BY <1>4 DEF Copies
  <2> HIDE DEF use2, def2
  <2>2. Copies(y, use2, def2).use = use2
    BY <1>2, CopiesBecome
  <2>3. y.use = use2
    BY <2>1, <2>2
  <2>4. QED
    BY <2>3 DEF use2
<1>6. \A d \in DOMAIN y.use : d \notin gone
  BY <1>5
<1>7. \A d \in DOMAIN y.use : d \in DOMAIN x.use /\ x.use[d] = y.use[d]
  BY <1>6
<1>8. QED
  BY <1>3, <1>7 DEF CopyHolds

\* What is left of the copies when a variable is defined.
LEMMA CopyEnds ==
  ASSUME NEW s, NEW x, Fact("copy", x), Findable(s, x)
  PROVE  LET y == CopyTransfer(s, x)
             new == s.kind = "assign" /\ IsVar(s.use[1])
         IN  /\ y.top = x.top
             /\ \A d \in DOMAIN y.use :
                  \/ new /\ d = s.rd /\ y.use[d] = s.use[1][2]
                  \/ /\ d \in DOMAIN x.use /\ y.use[d] = x.use[d]
                     /\ d # s.rd /\ x.use[d] # s.rd
<1> DEFINE v == s.rd
           new == s.kind = "assign" /\ IsVar(s.use[1])
           w == s.use[1][2]
           f1 == IF v \notin DOMAIN x.use THEN x
                 ELSE [x EXCEPT !.use = Without(@, v), !.def = Without(@, x.use[v])]
           f2 == IF v \notin DOMAIN f1.def THEN f1
                 ELSE [f1 EXCEPT !.use = Without(@, f1.def[v]), !.def = Without(@, v)]
           f3 == [f2 EXCEPT !.use = With(@, v, w), !.def = With(@, w, v)]
           y == CopyTransfer(s, x)
<1>1. y = IF new THEN f3 ELSE f2
  BY Zenon DEF CopyTransfer
<1>2. IsCopies(x)
  BY DEF Fact, IsCopies
<1>3. /\ IsCopies(f1) /\ f1.top = x.top
      /\ \A d \in DOMAIN f1.use : d \in DOMAIN x.use /\ d # v /\ f1.use[d] = x.use[d]
      /\ \A u \in DOMAIN x.def : u \in DOMAIN f1.def \/ (v \in DOMAIN x.use /\ u = x.use[v])
      /\ \A u \in DOMAIN f1.def : u \in DOMAIN x.def /\ f1.def[u] = x.def[u]
  <2>1. CASE v \notin DOMAIN x.use
    <3>1. f1 = x
      BY <2>1
    <3> HIDE DEF f1
    <3>2. QED
      BY <1>2, <2>1, <3>1
  <2>2. CASE v \in DOMAIN x.use
    <3>1. f1 = Copies(x, Without(x.use, v), Without(x.def, x.use[v]))
      BY <2>2 DEF Copies
    <3> HIDE DEF f1
    <3>2. IsCopies(f1) /\ f1.top = x.top
      BY <1>2, <3>1, CopiesBecome
    <3>3. f1.use = Without(x.use, v) /\ f1.def = Without(x.def, x.use[v])
      BY <1>2, <3>1, CopiesBecome
    <3>4. /\ \A d \in DOMAIN f1.use : d \in DOMAIN x.use /\ d # v /\ f1.use[d] = x.use[d]
          /\ \A u \in DOMAIN x.def : u \in DOMAIN f1.def \/ u = x.use[v]
          /\ \A u \in DOMAIN f1.def : u \in DOMAIN x.def /\ f1.def[u] = x.def[u]
      BY <3>3 DEF Without
    <3>5. QED
      BY <2>2, <3>2, <3>3, <3>4
  <2>3. QED
    BY <2>1, <2>2
<1> HIDE DEF f1
<1>4. /\ IsCopies(f2) /\ f2.top = x.top
      /\ \A d \in DOMAIN f2.use : d \in DOMAIN f1.use /\ f2.use[d] = f1.use[d]
      /\ \A d \in DOMAIN f2.use : v \in DOMAIN f1.def => d # f1.def[v]
  <2>1. CASE v \notin DOMAIN f1.def
    <3>1. f2 = f1
      BY <2>1
    <3> HIDE DEF f2
    <3>2. QED
      BY <1>3, <2>1, <3>1
  <2>2. CASE v \in DOMAIN f1.def
    <3>1. f2 = Copies(f1, Without(f1.use, f1.def[v]), Without(f1.def, v))
      BY <2>2 DEF Copies
    <3> HIDE DEF f2
    <3>2. IsCopies(f2) /\ f2.top = x.top
      BY <1>3, <3>1, CopiesBecome
    <3>3. f2.use = Without(f1.use, f1.def[v])
      BY <1>3, <3>1, CopiesBecome
    <3>4. \A d \in DOMAIN f2.use : d \in DOMAIN f1.use /\ f2.use[d] = f1.use[d] /\ d # f1.def[v]
      BY <3>3 DEF Without
    <3>5. QED
      BY <2>2, <3>2, <3>3, <3>4
  <2>3. QED
    BY <2>1, <2>2
<1> HIDE DEF f2
<1>5. ASSUME NEW d \in DOMAIN f2.use
      PROVE  d \in DOMAIN x.use /\ f2.use[d] = x.use[d] /\ d # v /\ x.use[d] # v
  <2>1. d \in DOMAIN x.use /\ f2.use[d] = x.use[d] /\ d # v
    BY <1>3, <1>4
  <2>2. ASSUME x.use[d] = v PROVE FALSE
    <3>1. v \in DOMAIN x.def /\ x.def[v] = d
      BY <2>1, <2>2 DEF Findable
    <3>2. CASE v \in DOMAIN x.use /\ x.use[v] = v
      <4>1. x.def[v] = v
        BY <3>2 DEF Findable
      <4>2. QED
        BY <2>1, <3>1, <4>1
    <3>3. CASE ~(v \in DOMAIN x.use /\ x.use[v] = v)
      <4>1. v \in DOMAIN f1.def /\ f1.def[v] = d
        BY <1>3, <3>1, <3>3
      <4>2. QED
        BY <1>4, <4>1
    <3>4. QED
      BY <3>2, <3>3
  <2>3. QED
    BY <2>1, <2>2
<1>6. CASE ~new
  <2>1. y = f2
    BY <1>1, <1>6
  <2> HIDE DEF y
  <2>2. y.top = x.top
    BY <1>4, <2>1
  <2>3. QED
    BY <1>5, <2>1, <2>2 DEF y
<1>7. CASE new
  <2>1. y = f3
    BY <1>1, <1>7
  <2>2. f3.top = x.top /\ f3.use = With(f2.use, v, w)
    <3>1. f3 = Copies(f2, With(f2.use, v, w), With(f2.def, w, v))
      BY DEF Copies
    <3> HIDE DEF f3
    <3>2. QED
      BY <1>4, <3>1, CopiesBecome
  <2> HIDE DEF y, f3
  <2>3. y.top = x.top /\ y.use = With(f2.use, v, w)
    BY <2>1, <2>2
  <2>4. DOMAIN y.use = DOMAIN f2.use \cup {v} /\ y.use[v] = w /\ \A d \in DOMAIN f2.use : d # v => y.use[d] = f2.use[d]
    BY <2>3 DEF With
  <2>5. QED
    BY <1>5, <1>7, <2>3, <2>4 DEF y
<1>8. QED
  BY <1>6, <1>7

\* Each copy is a copy after a statement too.
LEMMA CopyStep ==
  ASSUME NEW env, IsEnv(env), NEW s, Shaped(s), Defined(env, s),
         NEW x, Fact("copy", x), CopyHolds(env, x), Findable(s, x),
         NEW r, Gives(env, s, r)
  PROVE  CopyHolds(NewEnv(env, s, r), CopyTransfer(s, x))
<1> DEFINE y == CopyTransfer(s, x)
           e == NewEnv(env, s, r)
           new == s.kind = "assign" /\ IsVar(s.use[1])
<1>1. /\ y.top = x.top
      /\ \A d \in DOMAIN y.use :
           \/ new /\ d = s.rd /\ y.use[d] = s.use[1][2]
           \/ /\ d \in DOMAIN x.use /\ y.use[d] = x.use[d]
              /\ d # s.rd /\ x.use[d] # s.rd
  BY CopyEnds
<1>2. /\ DOMAIN e \subseteq DOMAIN env \cup {s.rd} /\ DOMAIN env \subseteq DOMAIN e
      /\ \A v \in DOMAIN env : v # s.rd => e[v] = env[v]
      /\ Defines(s) => s.rd \in DOMAIN e /\ e[s.rd] = r
  <2>1. CASE Defines(s)
    <3>1. e = With(env, s.rd, r)
      BY <2>1 DEF NewEnv
    <3>2. QED
      BY <2>1, <3>1 DEF With
  <2>2. CASE ~Defines(s)
    BY <2>2 DEF NewEnv
  <2>3. QED
    BY <2>1, <2>2
<1> HIDE DEF y, e
<1>3. ASSUME NEW d \in DOMAIN y.use, d \in DOMAIN e
      PROVE  y.use[d] \in DOMAIN e /\ e[y.use[d]] = e[d]
  <2>1. CASE new /\ d = s.rd /\ y.use[d] = s.use[1][2]
    <3>1. DOMAIN s.use = {1} /\ Defines(s) /\ Uses(s) \subseteq DOMAIN env
      BY <2>1 DEF Shaped, Defines, Defined
    <3>2. s.use[1][2] \in DOMAIN env
      BY <2>1, <3>1, OperandValue
    <3>3. r = env[s.use[1][2]]
      BY <2>1 DEF Gives, Value
    <3>4. QED
      BY <1>2, <2>1, <3>1, <3>2, <3>3
  <2>2. CASE d \in DOMAIN x.use /\ y.use[d] = x.use[d] /\ d # s.rd /\ x.use[d] # s.rd
    <3>1. d \in DOMAIN env
      BY <1>2, <1>3, <2>2
    <3>2. x.use[d] \in DOMAIN env /\ env[x.use[d]] = env[d]
      BY <2>2, <3>1 DEF CopyHolds
    <3>3. QED
      BY <1>2, <2>2, <3>1, <3>2
  <2>3. QED
    BY <1>1, <2>1, <2>2
<1>4. QED
  BY <1>1, <1>3 DEF CopyHolds, y, e

\* A variable in the place of one that is a copy of it has its value.
LEMMA CopiedSame ==
  ASSUME NEW env, IsEnv(env), NEW x, CopyHolds(env, x),
         NEW s, Shaped(s), Uses(s) \subseteq DOMAIN env
  PROVE  Same(env, s, replace_available_use_copy(s, x))
<1> DEFINE t == replace_available_use_copy(s, x)
           New(j) == IF IsVar(s.use[j]) /\ s.use[j][2] \in DOMAIN x.use THEN Val(x.use[s.use[j][2]]) ELSE s.use[j]
<1>1. /\ DOMAIN t = DOMAIN s
      /\ t.kind = s.kind /\ t.op = s.op /\ t.rd = s.rd
      /\ t.use = [j \in DOMAIN s.use |-> New(j)]
  BY DEF replace_available_use_copy, Shaped
<1>2. ASSUME NEW j \in DOMAIN s.use
      PROVE  /\ Operand(t.use[j]) /\ Value(env, t.use[j]) = Value(env, s.use[j])
             /\ IsVar(t.use[j]) => t.use[j][2] \in DOMAIN env
  <2>1. Operand(s.use[j]) /\ (IsVar(s.use[j]) => s.use[j][2] \in DOMAIN env)
    BY OperandValue
  <2>2. t.use[j] = New(j)
    BY <1>1
  <2>3. CASE IsVar(s.use[j]) /\ s.use[j][2] \in DOMAIN x.use
    <3>1. t.use[j] = Val(x.use[s.use[j][2]])
      BY <2>2, <2>3
    <3>2. /\ t.use[j] = <<t.use[j][1], t.use[j][2]>> /\ t.use[j][1] = "var"
          /\ t.use[j][2] = x.use[s.use[j][2]]
      BY <3>1 DEF Val
    <3>3. x.use[s.use[j][2]] \in DOMAIN env /\ env[x.use[s.use[j][2]]] = env[s.use[j][2]]
      BY <2>1, <2>3 DEF CopyHolds
    <3>4. IsVar(t.use[j]) /\ Operand(t.use[j])
      BY <3>2 DEF IsVar, Operand
    <3>5. QED
      BY <2>3, <3>2, <3>3, <3>4 DEF Value
  <2>4. CASE ~(IsVar(s.use[j]) /\ s.use[j][2] \in DOMAIN x.use)
    BY <2>1, <2>2, <2>4
  <2>5. QED
    BY <2>3, <2>4
<1>3. DOMAIN t.use = DOMAIN s.use
  BY <1>1
<1> HIDE DEF t
<1>4. \A w \in Uses(t) : w \in DOMAIN env
  BY <1>2, <1>3, UsesAre
<1>5. Shaped(t)
  BY <1>1, <1>2, <1>3 DEF Shaped
<1>6. QED
  BY <1>1, <1>2, <1>3, <1>4, <1>5 DEF Same, t

-----------------------------------------------------------------------------
(* What the solver keeps: no fact has a constant for an address, and what  *)
(* is known when the function begins is known no better later.             *)

LEMMA NoConstUpdate ==
  ASSUME NEW A, NEW x, NoConst(A, x), NEW v, NEW val, v \in A => val \in {NAC, UNDEF}
  PROVE  NoConst(A, Fact_update_value(x, v, val))
<1> DEFINE y == Fact_update_value(x, v, val)
<1>1. /\ DOMAIN y = IF val = UNDEF THEN DOMAIN x \ {v} ELSE DOMAIN x \cup {v}
      /\ val # UNDEF => y[v] = val
      /\ \A w \in DOMAIN x : w # v => y[w] = x[w]
  BY UpdateIs
<1> HIDE DEF y
<1>2. ASSUME NEW w \in A \cap DOMAIN y PROVE y[w] \in {NAC, UNDEF}
  <2>1. CASE w = v
    BY <1>1, <1>2, <2>1
  <2>2. CASE w # v
    <3>1. w \in A \cap DOMAIN x
      BY <1>1, <2>2
    <3>2. QED
      BY <1>1, <2>2, <3>1 DEF NoConst
  <2>3. QED
    BY <2>1, <2>2
<1>3. QED
  BY <1>2 DEF NoConst, y

\* An address is defined from addresses.
Apart(A, s) == s.kind \in {"assign", "op"} => (s.rd \in A <=> Uses(s) \cap A # {})

\* No statement makes an address constant: whatever is computed from one is NAC or unknown.
LEMMA NoConstTransfer ==
  ASSUME NEW A, NEW x, NoConst(A, x), NEW s, Shaped(s), Apart(A, s)
  PROVE  NoConst(A, ConstantTransfer(s, x))
<1>1. \A j \in DOMAIN s.use : IsVar(s.use[j]) /\ s.use[j][2] \in A => Fact_get_value(x, s.use[j]) \in {NAC, UNDEF}
  BY DEF Fact_get_value, NoConst
<1>2. CASE s.kind = "assign"
  <2> DEFINE val == Fact_get_value(x, s.use[1])
  <2>1. ConstantTransfer(s, x) = Fact_update_value(x, s.rd, val)
    BY <1>2 DEF ConstantTransfer
  <2>2. DOMAIN s.use = {1}
    BY <1>2 DEF Shaped
  <2>3. s.rd \in A => IsVar(s.use[1]) /\ s.use[1][2] \in A
    BY <1>2, <2>2, UsesAre DEF Apart
  <2>4. s.rd \in A => val \in {NAC, UNDEF}
    BY <1>1, <2>2, <2>3
  <2> HIDE DEF val
  <2>5. QED
    BY <2>1, <2>4, NoConstUpdate
<1>3. CASE s.kind = "op"
  <2> DEFINE vu == Fact_get_value(x, s.use[1])
             vw == Fact_get_value(x, s.use[2])
             val == calculateValue(s.op, vu, vw)
  <2>1. ConstantTransfer(s, x) = Fact_update_value(x, s.rd, val)
    BY <1>3 DEF ConstantTransfer
  <2>2. DOMAIN s.use = {1, 2}
    BY <1>3 DEF Shaped
  <2>3. s.rd \in A => (IsVar(s.use[1]) /\ s.use[1][2] \in A) \/ (IsVar(s.use[2]) /\ s.use[2][2] \in A)
    BY <1>3, <2>2, UsesAre DEF Apart
  <2>4. s.rd \in A => vu \in {NAC, UNDEF} \/ vw \in {NAC, UNDEF}
    BY <1>1, <2>2, <2>3
  <2>5. val = IF s.op = "/" /\ vw = Const(0) THEN UNDEF
              ELSE IF NAC \in {vu, vw} THEN NAC
              ELSE IF UNDEF \in {vu, vw} THEN UNDEF
              ELSE Const(Compute(s.op, vu[2], vw[2]))
    BY CalculateIs
  <2> HIDE DEF vu, vw, val
  <2>6. s.rd \in A => NAC \in {vu, vw} \/ UNDEF \in {vu, vw}
    BY <2>4
  <2>7. s.rd \in A => val \in {NAC, UNDEF}
    BY <2>5, <2>6
  <2>8. QED
    BY <2>1, <2>7, NoConstUpdate
<1>4. CASE s.kind \notin {"assign", "op"}
  <2>1. CASE s.rd = NONE
    BY <1>4, <2>1 DEF ConstantTransfer
  <2>2. CASE s.rd # NONE
    <3>1. ConstantTransfer(s, x) = Fact_update_value(x, s.rd, NAC)
      BY <1>4, <2>2 DEF ConstantTransfer
    <3>2. QED
      BY <3>1, NoConstUpdate
  <2>3. QED
    BY <2>1, <2>2
<1>5. QED
  BY <1>2, <1>3, <1>4

\* Nor does a meet.
LEMMA NoConstMeet ==
  ASSUME NEW A, NEW x, NoConst(A, x), NEW y, NoConst(A, y)
  PROVE  NoConst(A, meetInto("constant", x, y))
<1> DEFINE z == meetInto("constant", x, y)
<1>1. z = [v \in DOMAIN x \cup DOMAIN y |-> meetValue(Fact_get_value(y, Val(v)), Fact_get_value(x, Val(v)))]
  BY DEF meetInto
<1> HIDE DEF z
<1>2. ASSUME NEW v \in A \cap DOMAIN z PROVE z[v] \in {NAC, UNDEF}
  <2> DEFINE vy == Fact_get_value(y, Val(v))
             vx == Fact_get_value(x, Val(v))
  <2>1. z[v] = meetValue(vy, vx)
    BY <1>1
  <2>2. Val(v)[1] = "var" /\ Val(v)[2] = v
    BY DEF Val
  <2>3. vy \in {NAC, UNDEF} /\ vx \in {NAC, UNDEF}
    BY <2>2 DEF Fact_get_value, IsVar, NoConst
  <2>4. meetValue(vy, vx) = IF NAC \in {vy, vx} THEN NAC ELSE IF vy = UNDEF THEN vx
                            ELSE IF vx \in {UNDEF, vy} THEN vy ELSE NAC
    BY MeetValueIs
  <2> HIDE DEF vy, vx
  <2>5. QED
    BY <2>1, <2>3, <2>4
<1>3. QED
  BY <1>2 DEF NoConst, z

LEMMA NoConstStarts ==
  ASSUME NEW A, NEW f
  PROVE  NoConst(A, newInitialFact("constant")) /\ NoConst(A, newBoundaryFact("constant", f))
<1>1. NoConst(A, newInitialFact("constant"))
  BY DEF NoConst, newInitialFact, Nothing
<1>2. NoConst(A, newBoundaryFact("constant", f))
  BY DEF NoConst, newBoundaryFact
<1>3. QED
  BY <1>1, <1>2

LEMMA NoConstThrough ==
  ASSUME NEW A, NEW kills, NEW S, NEW ss \in Seq(S), \A i \in 1 .. Len(ss) : Shaped(ss[i]) /\ Apart(A, ss[i]),
         NEW first, NoConst(A, first)
  PROVE  NoConst(A, TransferAll("constant", kills, first, ss))
<1>1. PICK h : /\ h[0] = first /\ TransferAll("constant", kills, first, ss) = h[Len(ss)]
               /\ \A i \in 1 .. Len(ss) : h[i] = transferStmt("constant", kills, ss[i], h[i - 1])
  BY TransferRuns
<1> DEFINE n == Len(ss)
           D == {k \in Nat : k <= n /\ ~NoConst(A, h[k])}
<1>2. n \in Nat
  OBVIOUS
<1>3. D = {}
  <2>1. SUFFICES ASSUME D # {} PROVE FALSE
    OBVIOUS
  <2>2. PICK m \in D : \A k \in D : m <= k
    <3> HIDE DEF D
    <3>1. D \in SUBSET Nat
      BY DEF D
    <3>2. QED
      BY <2>1, <3>1, LeastNat
  <2>3. m # 0
    BY <1>1, <2>2
  <2>4. m \in 1 .. n /\ m - 1 \in Nat /\ m - 1 <= n /\ ~(m <= m - 1)
    BY <1>2, <2>3
  <2>5. NoConst(A, h[m - 1])
    BY <2>2, <2>4
  <2>6. h[m] = ConstantTransfer(ss[m], h[m - 1])
    BY <1>1, <2>4 DEF transferStmt
  <2>7. NoConst(A, h[m])
    BY <2>4, <2>5, <2>6, NoConstTransfer
  <2>8. QED
    BY <2>7
<1>4. QED
  BY <1>1, <1>2, <1>3

LEMMA NoConstMeets ==
  ASSUME NEW A, NEW facts, NEW S, NEW bs \in Seq(S), \A i \in 1 .. Len(bs) : NoConst(A, facts[bs[i]]),
         NEW first, NoConst(A, first)
  PROVE  NoConst(A, MeetAll("constant", facts, bs, first))
<1>1. PICK h : MeetsIn("constant", facts, bs, first, h)
  BY MeetRuns
<1>2. /\ h[0] = first /\ MeetAll("constant", facts, bs, first) = h[Len(bs)]
      /\ \A i \in 1 .. Len(bs) : h[i] = meetInto("constant", facts[bs[i]], h[i - 1])
  BY <1>1 DEF MeetsIn
<1> DEFINE n == Len(bs)
           D == {k \in Nat : k <= n /\ ~NoConst(A, h[k])}
<1>3. n \in Nat
  OBVIOUS
<1>4. D = {}
  <2>1. SUFFICES ASSUME D # {} PROVE FALSE
    OBVIOUS
  <2>2. PICK m \in D : \A k \in D : m <= k
    <3> HIDE DEF D
    <3>1. D \in SUBSET Nat
      BY DEF D
    <3>2. QED
      BY <2>1, <3>1, LeastNat
  <2>3. m # 0
    BY <1>2, <2>2
  <2>4. m \in 1 .. n /\ m - 1 \in Nat /\ m - 1 <= n /\ ~(m <= m - 1)
    BY <1>3, <2>3
  <2>5. NoConst(A, h[m - 1])
    BY <2>2, <2>4
  <2>6. NoConst(A, h[m])
    BY <1>2, <2>4, <2>5, NoConstMeet
  <2>7. QED
    BY <2>6
<1>5. QED
  BY <1>2, <1>3, <1>4

NeverConst(p, A) == Analysis(p) = "constant" => \A b \in Blocks(p) : NoConst(A, p.in[b]) /\ NoConst(A, p.out[b])

EdgeHeld(p) == isForward(Analysis(p)) => Lower(Analysis(p), After(p)[Edge(p)], newBoundaryFact(Analysis(p), Func(p)))

\* The statements of a block are those of the function, and are shaped as the passes expect.
LEMMA StmtsAre ==
  ASSUME NEW p, NEW A, Prepared(p, A), NEW b \in Blocks(p)
  PROVE  LET ss == Func(p).blocks[b].stmts
         IN  /\ ss \in Seq(Stmts(Func(p))) /\ Len(ss) \in Nat
             /\ \A k \in 1 .. Len(ss) : /\ ss[k] \in Stmts(Func(p)) /\ Shaped(ss[k]) /\ NONE \notin Uses(ss[k])
                                        /\ Analysis(p) = "constant" => Apart(A, ss[k])
                                        /\ ss[k].kind = "if" => k = Len(ss)
<1> DEFINE ss == Func(p).blocks[b].stmts
<1>1. IsList(ss) /\ b \in DOMAIN Func(p).blocks
  BY DEF Prepared, Ready, Blocks
<1>2. ss \in Seq({ss[i] : i \in DOMAIN ss})
  BY <1>1 DEF IsList
<1>3. DOMAIN ss = 1 .. Len(ss) /\ Len(ss) \in Nat
  BY <1>2
<1>4. \A k \in 1 .. Len(ss) : ss[k] \in Stmts(Func(p))
  BY <1>1, <1>3 DEF Stmts
<1>5. ss \in Seq(Stmts(Func(p)))
  <2> HIDE DEF ss
  <2>1. QED
    BY <1>2, <1>3, <1>4
<1>6. \A k \in 1 .. Len(ss) : Shaped(ss[k]) /\ NONE \notin Uses(ss[k]) /\ (ss[k].kind = "if" => k = Len(ss))
  BY <1>1, <1>3 DEF Prepared, Formed
<1>7. \A k \in 1 .. Len(ss) : Analysis(p) = "constant" => Apart(A, ss[k])
  BY <1>4 DEF Prepared, Addresses, Apart
<1>8. QED
  BY <1>3, <1>4, <1>5, <1>6, <1>7

Underway(p, A) == IInv(p) /\ Prepared(p, A) /\ EdgeHeld(p) /\ NeverConst(p, A) /\ p.block = 1

LEMMA SamePrepared ==
  ASSUME NEW p, NEW A, Prepared(p, A), NEW q, DOMAIN q = DOMAIN p,
         q.funcs = p.funcs, q.f = p.f, q.todo = p.todo, q.kills = p.kills
  PROVE  Prepared(q, A) /\ Func(q) = Func(p) /\ Analysis(q) = Analysis(p) /\ Blocks(q) = Blocks(p) /\ Edge(q) = Edge(p)
<1>1. Ready(q) /\ Func(q) = Func(p) /\ Analysis(q) = Analysis(p) /\ Blocks(q) = Blocks(p)
  BY SameProgram DEF Prepared
<1>2. Merged(p) => Merged(q)
  BY <1>1 DEF Merged
<1>3. QED
  BY <1>1, <1>2 DEF Prepared, Edge

\* The solver begins so.
LEMMA UnderwayStarts ==
  ASSUME NEW p, NEW A, Prepared(p, A)
  PROVE  Underway(Initialize(p), A)
<1> DEFINE q == Initialize(p)
           a == Analysis(p)
           first == newInitialFact(a)
           edge == newBoundaryFact(a, Func(p))
<1>1. Ready(p) /\ a \in Analyses
  BY DEF Prepared, Ready
<1>2. IInv(q)
  BY <1>1, SolverStarts
<1>3. /\ DOMAIN q = DOMAIN p
      /\ q.funcs = p.funcs /\ q.f = p.f /\ q.todo = p.todo /\ q.kills = p.kills
      /\ Before(q) = [b \in Blocks(p) |-> first]
      /\ After(q) = [b \in Blocks(p) |-> IF b = Edge(p) THEN edge ELSE first]
  BY <1>1, InitializeIs
<1>4. q.block = 1
  BY <1>1 DEF Initialize, Ready, Parts
<1> HIDE DEF q, first, edge
<1>5. Prepared(q, A) /\ Func(q) = Func(p) /\ Analysis(q) = a /\ Blocks(q) = Blocks(p) /\ Edge(q) = Edge(p)
  BY <1>3, SamePrepared
<1>6. EdgeHeld(q)
  <2>1. ASSUME isForward(a) PROVE Lower(a, After(q)[Edge(q)], edge)
    <3>1. Edge(p) \in Blocks(p)
      BY <2>1 DEF Edge, Prepared, Formed, Blocks
    <3>2. After(q)[Edge(q)] = edge
      BY <1>3, <1>5, <3>1
    <3>3. QED
      BY <1>1, <3>2, LowerOrder
  <2>2. QED
    BY <1>5, <2>1 DEF EdgeHeld, edge
<1>7. NeverConst(q, A)
  <2>1. ASSUME a = "constant", NEW b \in Blocks(p) PROVE NoConst(A, q.in[b]) /\ NoConst(A, q.out[b])
    <3>1. NoConst(A, first) /\ NoConst(A, edge)
      BY <2>1, NoConstStarts DEF first, edge
    <3>2. Before(q) = q.in /\ After(q) = q.out
      BY <1>5, <2>1 DEF Before, After, isForward
    <3>3. QED
      BY <1>3, <3>1, <3>2
  <2>2. QED
    BY <1>5, <2>1 DEF NeverConst
<1>8. QED
  BY <1>2, <1>4, <1>5, <1>6, <1>7 DEF Underway, q

\* What a block makes of a fact that has no constant for an address.
LEMMA NoConstBlock ==
  ASSUME NEW p, NEW A, Prepared(p, A), Analysis(p) = "constant", NEW b \in Blocks(p), NEW x, NoConst(A, x)
  PROVE  NoConst(A, transferBlock(p, b, x))
<1> DEFINE ss == Func(p).blocks[b].stmts
           first == meetInto("constant", x, newInitialFact("constant"))
<1>1. transferBlock(p, b, x) = TransferAll("constant", p.kills, first, ss)
  BY TransferBlockIs DEF isForward
<1>2. NoConst(A, first)
  BY NoConstMeet, NoConstStarts
<1>3. ss \in Seq(Stmts(Func(p))) /\ \A k \in 1 .. Len(ss) : Shaped(ss[k]) /\ Apart(A, ss[k])
  BY StmtsAre
<1> HIDE DEF ss, first
<1>4. NoConst(A, TransferAll("constant", p.kills, first, ss))
  BY <1>2, <1>3, NoConstThrough
<1>5. QED
  BY <1>1, <1>4

Visited(p, b, x, y) == [p EXCEPT !.in[b] = x, !.out[b] = y]
VisitedBack(p, b, x, y) == [p EXCEPT !.out[b] = x, !.in[b] = y]

LEMMA SolveKeepsBlock ==
  ASSUME NEW p, IInv(p), p.queue # <<>>
  PROVE  worklistDoSolve(p).block = p.block
<1> DEFINE b == Head(p.queue)
           v == Visit(p, b)
<1>1. b \in Blocks(p)
  BY StepIs
<1>2. Parts \subseteq DOMAIN p
  BY DEF IInv, Ready
<1>3. \A c, x, y : /\ Visited(p, c, x, y).block = p.block /\ DOMAIN Visited(p, c, x, y) = DOMAIN p
                   /\ VisitedBack(p, c, x, y).block = p.block /\ DOMAIN VisitedBack(p, c, x, y) = DOMAIN p
  BY <1>2 DEF Parts, Visited, VisitedBack
<1>4. \E x, y : v = IF isForward(Analysis(p)) THEN Visited(p, b, x, y) ELSE VisitedBack(p, b, x, y)
  <2>1. PICK x, y : /\ Found(p, b, x, y)
                    /\ v = IF isForward(Analysis(p)) THEN [p EXCEPT !.in[b] = x, !.out[b] = y]
                                                     ELSE [p EXCEPT !.out[b] = x, !.in[b] = y]
    BY <1>1, VisitFinds
  <2>2. v = IF isForward(Analysis(p)) THEN Visited(p, b, x, y) ELSE VisitedBack(p, b, x, y)
    BY <2>1 DEF Visited, VisitedBack
  <2>3. QED
    BY <2>2
<1>5. PICK more : worklistDoSolve(p) = [v EXCEPT !.queue = Tail(v.queue) \o more]
  BY Zenon DEF worklistDoSolve
<1> HIDE DEF v, b
<1>6. v.block = p.block /\ DOMAIN v = DOMAIN p
  BY <1>3, <1>4
<1>7. QED
  BY <1>2, <1>5, <1>6 DEF Parts

\* Each visit of the worklist keeps it so.
LEMMA UnderwaySteps ==
  ASSUME NEW p, NEW A, Underway(p, A), p.queue # <<>>
  PROVE  Underway(worklistDoSolve(p), A)
<1> DEFINE q == worklistDoSolve(p)
           a == Analysis(p)
           b == Head(p.queue)
<1>1. IInv(p) /\ Prepared(p, A) /\ EdgeHeld(p) /\ NeverConst(p, A) /\ a \in Analyses /\ Ready(p)
  BY DEF Underway, IInv, Ready
<1>2. /\ b \in Blocks(p)
      /\ DOMAIN q = DOMAIN p
      /\ q.funcs = p.funcs /\ q.f = p.f /\ q.todo = p.todo /\ q.kills = p.kills
  BY <1>1, StepIs
<1>3. PICK x, y :
           /\ Found(p, b, x, y)
           /\ Before(q) = [Before(p) EXCEPT ![b] = x]
           /\ After(q) = [After(p) EXCEPT ![b] = y]
           /\ q.queue = Tail(p.queue) \o (IF y # After(p)[b] THEN Dependents(p, b) ELSE <<>>)
  BY <1>1, StepIs
<1>4. /\ IInv(q)
      /\ \A c \in Blocks(p) : Lower(a, q.in[c], p.in[c]) /\ Lower(a, q.out[c], p.out[c])
  BY <1>1, SolverSteps
<1>5. q.block = 1
  BY <1>1, SolveKeepsBlock DEF Underway
<1> HIDE DEF q
<1>6. Prepared(q, A) /\ Func(q) = Func(p) /\ Analysis(q) = a /\ Blocks(q) = Blocks(p) /\ Edge(q) = Edge(p)
  BY <1>1, <1>2, SamePrepared
<1>7. EdgeHeld(q)
  <2>1. ASSUME isForward(a) PROVE Lower(a, After(q)[Edge(q)], newBoundaryFact(a, Func(q)))
    <3>1. Edge(p) \in Blocks(p)
      BY <1>1, <2>1 DEF Edge, Prepared, Formed, Blocks
    <3>2. Lower(a, After(q)[Edge(p)], After(p)[Edge(p)])
      BY <1>4, <1>6, <2>1, <3>1 DEF After
    <3>3. Lower(a, After(p)[Edge(p)], newBoundaryFact(a, Func(p)))
      BY <1>1, <2>1 DEF EdgeHeld
    <3> HIDE DEF a
    <3>4. QED
      BY <1>1, <1>6, <3>2, <3>3, LowerOrder
  <2>2. QED
    BY <1>6, <2>1 DEF EdgeHeld
<1>8. NeverConst(q, A)
  <2>1. SUFFICES ASSUME a = "constant" PROVE \A c \in Blocks(p) : NoConst(A, q.in[c]) /\ NoConst(A, q.out[c])
    BY <1>6 DEF NeverConst
  <2>3. Before(p) = p.in /\ After(p) = p.out /\ Before(q) = q.in /\ After(q) = q.out
    BY <1>6, <2>1 DEF Before, After, isForward
  <2>4. \A c \in Blocks(p) : NoConst(A, Before(p)[c]) /\ NoConst(A, After(p)[c])
    BY <1>1, <2>1, <2>3 DEF NeverConst
  <2>5. Sources(p, b) \in Seq(Blocks(p))
    BY <1>1, <1>2 DEF Ready, Linked, Sources, Blocks
  <2>6. \A i \in 1 .. Len(Sources(p, b)) : NoConst(A, After(p)[Sources(p, b)[i]])
    BY <2>4, <2>5
  <2>7. /\ x = MeetAll("constant", After(p), Sources(p, b), Before(p)[b])
        /\ y = meetInto("constant", transferBlock(p, b, x), After(p)[b])
    BY <1>3, <2>1 DEF Found
  <2>8. NoConst(A, x)
    BY <1>2, <2>4, <2>5, <2>6, <2>7, NoConstMeets
  <2>9. NoConst(A, y)
    <3>1. NoConst(A, transferBlock(p, b, x))
      BY <1>1, <1>2, <2>1, <2>8, NoConstBlock
    <3>2. QED
      BY <1>2, <2>4, <2>7, <3>1, NoConstMeet
  <2>10. DOMAIN Before(p) = Blocks(p) /\ DOMAIN After(p) = Blocks(p)
    BY <1>1, <2>3 DEF IInv
  <2>11. \A c \in Blocks(p) : NoConst(A, Before(q)[c]) /\ NoConst(A, After(q)[c])
    BY <1>3, <2>4, <2>8, <2>9, <2>10
  <2>12. QED
    BY <2>3, <2>11
<1>9. QED
  BY <1>4, <1>5, <1>6, <1>7, <1>8 DEF Underway, q

-----------------------------------------------------------------------------
(* The facts of a solved forward analysis. *)

\* An analysis solved.
Usable(p, A) == Underway(p, A) /\ p.queue = <<>> /\ Traced(p)

\* What the fact says is so when the variables have the values of env.
Holds(p, A, env, x) ==
  /\ Fact(Analysis(p), x)
  /\ Analysis(p) = "constant" => ConstantHolds(A, env, x)
  /\ Analysis(p) = "available" => AvailableHolds(Func(p), env, x)
  /\ Analysis(p) = "copy" => CopyHolds(env, x)

LEMMA Forward ==
  ASSUME NEW p, Analysis(p) \in Analyses, isForward(Analysis(p))
  PROVE  Analysis(p) \in {"constant", "available", "copy"}
BY DEF Analyses, isForward

\* What flows from one place to another holds there too.
LEMMA FlowHolds ==
  ASSUME NEW p, Analysis(p) \in Analyses, isForward(Analysis(p)), NEW A, NEW env,
         NEW x, Holds(p, A, env, x),
         NEW y, Fact(Analysis(p), y), Analysis(p) = "constant" => NoConst(A, y),
         Absorbed(Analysis(p), x, y)
  PROVE  Holds(p, A, env, y)
<1>1. CASE Analysis(p) = "constant"
  <2>1. ConstantHolds(A, env, y)
    BY <1>1, ConstantFlows DEF Holds
  <2>2. QED
    BY <1>1, <2>1 DEF Holds
<1>2. CASE Analysis(p) = "available"
  <2>1. AvailableHolds(Func(p), env, y)
    BY <1>2, AvailableFlows DEF Holds
  <2>2. QED
    BY <1>2, <2>1 DEF Holds
<1>3. CASE Analysis(p) = "copy"
  <2>1. CopyHolds(env, y)
    BY <1>3, CopyFlows DEF Holds
  <2>2. QED
    BY <1>3, <2>1 DEF Holds
<1>4. QED
  BY <1>1, <1>2, <1>3, Forward

\* In a solved analysis each block has the fact of its predecessors and gives its own.
LEMMA SolvedFacts ==
  ASSUME NEW p, NEW A, Underway(p, A), p.queue = <<>>, NEW b \in Blocks(p)
  PROVE  /\ Settled(p, b) /\ Analysis(p) \in Analyses /\ Ready(p)
         /\ Stored(Analysis(p), Before(p)[b]) /\ Stored(Analysis(p), After(p)[b])
         /\ Analysis(p) = "constant" => NoConst(A, Before(p)[b]) /\ NoConst(A, After(p)[b])
<1>1. IInv(p)
  BY DEF Underway
<1>2. ~Waiting(p, b)
  BY DEF Waiting
<1>3. QED
  BY <1>1, <1>2 DEF Underway, IInv, Ready, Before, After, NeverConst

\* What holds before a block holds where its statements are gone through from.
LEMMA StartHolds ==
  ASSUME NEW p, NEW A, Underway(p, A), p.queue = <<>>, isForward(Analysis(p)),
         NEW b \in Blocks(p), NEW env, Holds(p, A, env, Before(p)[b])
  PROVE  Holds(p, A, env, StartFact(p, b))
<1> DEFINE a == Analysis(p)
           first == newInitialFact(a)
           x == Before(p)[b]
<1>1. a \in Analyses /\ Fact(a, x) /\ (a = "constant" => NoConst(A, x))
  BY SolvedFacts DEF Stored
<1>2. Stored(a, first)
  BY <1>1, InitialFacts
<1>3. StartFact(p, b) = meetInto(a, x, first)
  BY DEF StartFact, Before
<1> HIDE DEF first, x
<1>4. Stored(a, meetInto(a, x, first)) /\ Absorbed(a, x, meetInto(a, x, first))
  BY <1>1, <1>2, MeetFacts
<1>5. a = "constant" => NoConst(A, meetInto(a, x, first))
  BY <1>1, NoConstMeet, NoConstStarts DEF first
<1>6. Fact(a, meetInto(a, x, first))
  BY <1>4 DEF Stored
<1>7. QED
  BY <1>1, <1>3, <1>4, <1>5, <1>6, FlowHolds DEF x

\* What holds at the end of a block holds at the beginning of each block that follows it.
LEMMA FlowIn ==
  ASSUME NEW p, NEW A, Underway(p, A), p.queue = <<>>, isForward(Analysis(p)),
         NEW b \in Blocks(p), NEW j \in DOMAIN Func(p).succ[b], NEW env, Holds(p, A, env, p.out[b])
  PROVE  Func(p).succ[b][j] \in Blocks(p) /\ Holds(p, A, env, StartFact(p, Func(p).succ[b][j]))
<1> DEFINE c == Func(p).succ[b][j]
<1>1. Linked(Func(p))
  BY SolvedFacts DEF Ready
<1>2. c \in Blocks(p)
  BY <1>1 DEF Linked, Blocks
<1>3. PICK k \in DOMAIN Func(p).pred[c] : Func(p).pred[c][k] = b
  BY <1>1, <1>2 DEF Linked, Blocks
<1>4. Func(p).pred[c] \in Seq(Blocks(p))
  BY <1>1, <1>2 DEF Linked, Blocks
<1>5. Sources(p, c) = Func(p).pred[c] /\ After(p) = p.out
  BY DEF Sources, After
<1> HIDE DEF c
<1>6. k \in 1 .. Len(Sources(p, c))
  BY <1>3, <1>4, <1>5
<1>7. /\ Settled(p, c) /\ Analysis(p) \in Analyses
      /\ Fact(Analysis(p), Before(p)[c]) /\ (Analysis(p) = "constant" => NoConst(A, Before(p)[c]))
  BY <1>2, SolvedFacts DEF Stored
<1>8. Absorbed(Analysis(p), p.out[b], Before(p)[c])
  BY <1>3, <1>5, <1>6, <1>7 DEF Settled
<1>9. Holds(p, A, env, Before(p)[c])
  BY <1>7, <1>8, FlowHolds
<1>10. QED
  BY <1>2, <1>9, StartHolds DEF c

\* What holds when a block has been gone through holds at its end.
LEMMA FlowOut ==
  ASSUME NEW p, NEW A, Underway(p, A), p.queue = <<>>, isForward(Analysis(p)),
         NEW b \in Blocks(p), NEW env, Holds(p, A, env, Points(p, b)[Len(Func(p).blocks[b].stmts)])
  PROVE  Holds(p, A, env, p.out[b])
<1> DEFINE ss == Func(p).blocks[b].stmts
<1>1. /\ Settled(p, b) /\ Analysis(p) \in Analyses
      /\ Fact(Analysis(p), After(p)[b]) /\ (Analysis(p) = "constant" => NoConst(A, After(p)[b]))
  BY SolvedFacts DEF Stored
<1>2. Ordered(p, b) = ss
  BY DEF Ordered, InOrder
<1>3. ss \in Seq(Stmts(Func(p)))
  BY StmtsAre DEF Underway
<1>4. Points(p, b)[Len(ss)] = TransferAll(Analysis(p), p.kills, StartFact(p, b), ss)
  BY <1>2, <1>3, PointsAre
<1>5. transferBlock(p, b, Before(p)[b]) = TransferAll(Analysis(p), p.kills, StartFact(p, b), ss)
  BY TransferBlockIs DEF StartFact, Before
<1>6. Absorbed(Analysis(p), Points(p, b)[Len(ss)], After(p)[b])
  BY <1>1, <1>4, <1>5 DEF Settled
<1>7. Holds(p, A, env, After(p)[b])
  BY <1>1, <1>6, FlowHolds
<1>8. QED
  BY <1>7 DEF After

\* What is known when the function begins.
LEMMA EdgeHolds ==
  ASSUME NEW p, NEW A, Underway(p, A), p.queue = <<>>, isForward(Analysis(p)),
         NEW env \in [Given(Func(p)) -> Int]
  PROVE  1 \in Blocks(p) /\ Holds(p, A, env, p.out[1])
<1> DEFINE a == Analysis(p)
           x == p.out[1]
           y == newBoundaryFact(a, Func(p))
<1>1. 1 \in Blocks(p) /\ Prepared(p, A)
  BY DEF Underway, Prepared, Formed, Blocks
<1>2. a \in Analyses /\ Fact(a, x) /\ (a = "constant" => NoConst(A, x))
  BY <1>1, SolvedFacts DEF Stored, After
<1>3. Lower(a, x, y)
  BY DEF Underway, EdgeHeld, After, Edge
<1>4. CASE a = "constant"
  <2>1. y = [v \in {Func(p).params[j] : j \in DOMAIN Func(p).params} |-> NAC]
    BY <1>4 DEF newBoundaryFact
  <2>2. \A v \in DOMAIN env \ A : v \in DOMAIN y /\ y[v] = NAC
    <3>1. Addresses(Func(p), A)
      BY <1>1, <1>4 DEF Prepared
    <3>2. QED
      BY <2>1, <3>1 DEF Given, Addresses
  <2> HIDE DEF x, y
  <2>3. NAC # UNDEF
    BY Tags
  <2>4. \A v \in DOMAIN env \ A : v \in DOMAIN x /\ x[v] = NAC
    BY <1>3, <1>4, <2>2, <2>3 DEF Lower
  <2>5. ConstantHolds(A, env, x)
    BY <1>2, <1>4, <2>4 DEF ConstantHolds
  <2>6. QED
    BY <1>1, <1>2, <1>4, <2>5 DEF Holds, x
<1>5. CASE a = "available"
  <2>1. y.top = FALSE /\ y.set = {}
    BY <1>5 DEF newBoundaryFact, newInitialFact
  <2> HIDE DEF x, y
  <2>2. ~x.top /\ x.set = {}
    BY <1>3, <1>5, <2>1 DEF Lower
  <2>3. QED
    BY <1>1, <1>2, <1>5, <2>2 DEF Holds, AvailableHolds, x
<1>6. CASE a = "copy"
  <2>1. y.top = FALSE /\ DOMAIN y.use = {}
    BY <1>6 DEF newBoundaryFact, newInitialFact, Nothing
  <2> HIDE DEF x, y
  <2>2. ~x.top /\ DOMAIN x.use = {}
    BY <1>3, <1>6, <2>1 DEF Lower
  <2>3. QED
    BY <1>1, <1>2, <1>6, <2>2 DEF Holds, CopyHolds, x
<1>7. QED
  BY <1>2, <1>4, <1>5, <1>6, Forward

\* A statement that is rewritten with what holds before it does the same; what is found to hold
\* after it, as it was and as it is, holds; and if it is taken out, it would have changed nothing.
LEMMA StmtHolds ==
  ASSUME Arithmetic,
         NEW p, NEW A, Prepared(p, A), isForward(Analysis(p)),
         NEW s \in Stmts(Func(p)), Analysis(p) = "constant" => Apart(A, s),
         NEW env, IsEnv(env), NEW x, Holds(p, A, env, x), Analysis(p) = "copy" => Findable(s, x),
         Defined(env, s), NEW r, Gives(env, s, r)
  PROVE  LET a == Analysis(p)
             t == Replaced(a, s, x)
             e == NewEnv(env, s, r)
         IN  /\ Same(env, s, t)
             /\ Holds(p, A, e, transferStmt(a, p.kills, s, x))
             /\ Holds(p, A, e, transferStmt(a, p.kills, t, x))
             /\ Removed(a, t, x) => s.kind = "op" /\ e = env
<1> DEFINE a == Analysis(p)
           t == Replaced(a, s, x)
           e == NewEnv(env, s, r)
<1>1. a \in Analyses /\ Fact(a, x)
  BY DEF Prepared, Ready, Holds
<1>2. Fact(a, transferStmt(a, p.kills, s, x)) /\ Fact(a, transferStmt(a, p.kills, t, x))
  BY <1>1, TransferFact
<1>3. \A q \in Stmts(Func(p)) : Shaped(q)
  BY DEF Prepared, Formed, Stmts
<1>4. Shaped(s) /\ Uses(s) \subseteq DOMAIN env
  BY <1>3 DEF Defined
<1>5. CASE a = "constant"
  <2>1. t = constant_folding(s, x)
    BY <1>5 DEF Replaced
  <2>2. ConstantHolds(A, env, x) /\ Apart(A, s)
    BY <1>5 DEF Holds
  <2>3. Same(env, s, t) /\ Uses(t) \cap A = Uses(s) \cap A
    BY <1>4, <2>1, <2>2, FoldedSame
  <2> HIDE DEF t
  <2>4. Defined(env, t) /\ Gives(env, t, r) /\ NewEnv(env, t, r) = e /\ Shaped(t) /\ t.kind = s.kind /\ t.rd = s.rd
    BY <1>4, <2>3, SameGives DEF Same
  <2>5. ConstantHolds(A, e, ConstantTransfer(s, x))
    BY <1>4, <2>2, ConstantStep DEF Apart
  <2>6. t.kind \in {"assign", "op"} => (t.rd \in A <=> Uses(t) \cap A # {})
    BY <2>2, <2>3, <2>4 DEF Apart
  <2> HIDE DEF e
  <2>7. ConstantHolds(A, e, ConstantTransfer(t, x))
    BY <2>2, <2>4, <2>6, ConstantStep
  <2>8. QED
    BY <1>2, <1>5, <2>3, <2>5, <2>7 DEF Holds, transferStmt, Removed, t, e
<1>6. CASE a = "available"
  <2>1. t = s
    BY <1>6 DEF Replaced
  <2>2. AvailableHolds(Func(p), env, x) /\ Merged(p) /\ Fact("available", x)
    BY <1>1, <1>6 DEF Holds, Prepared
  <2>3. AvailableHolds(Func(p), e, AvailableTransfer(p.kills, s, x))
    BY <1>3, <2>2, AvailableStep
  <2>4. Same(env, s, s)
    BY <1>4 DEF Same
  <2>5. ASSUME Removed(a, s, x) PROVE s.kind = "op" /\ e = env
    <3>1. s.kind = "op" /\ s.rd \in x.set
      BY <1>6, <2>5 DEF Removed, Available
    <3>2. HoldsExpr(env, s)
      BY <2>2, <3>1 DEF AvailableHolds
    <3>3. s.rd \in DOMAIN env /\ env[s.rd] = r
      BY <3>1, <3>2 DEF HoldsExpr, Gives
    <3>4. e = [v \in DOMAIN env \cup {s.rd} |-> IF v = s.rd THEN r ELSE env[v]]
      BY <3>1 DEF NewEnv, Defines, With
    <3>5. env = [v \in DOMAIN env |-> env[v]]
      BY DEF IsEnv
    <3> HIDE DEF e
    <3>6. e = env
      BY <3>3, <3>4, <3>5
    <3>7. QED
      BY <3>1, <3>6
  <2>6. QED
    BY <1>2, <1>6, <2>1, <2>3, <2>4, <2>5 DEF Holds, transferStmt
<1>7. CASE a = "copy"
  <2>1. t = replace_available_use_copy(s, x)
    BY <1>7 DEF Replaced
  <2>2. CopyHolds(env, x) /\ Findable(s, x) /\ Fact("copy", x)
    BY <1>1, <1>7 DEF Holds
  <2>3. Same(env, s, t)
    BY <1>4, <2>1, <2>2, CopiedSame
  <2> HIDE DEF t
  <2>4. Defined(env, t) /\ Gives(env, t, r) /\ NewEnv(env, t, r) = e /\ Shaped(t) /\ t.rd = s.rd
    BY <1>4, <2>3, SameGives DEF Same
  <2>5. CopyHolds(e, CopyTransfer(s, x))
    BY <1>4, <2>2, CopyStep
  <2>6. Findable(t, x)
    BY <2>2, <2>4 DEF Findable
  <2> HIDE DEF e
  <2>7. CopyHolds(e, CopyTransfer(t, x))
    BY <2>2, <2>4, <2>6, CopyStep
  <2>8. QED
    BY <1>2, <1>7, <2>3, <2>5, <2>7 DEF Holds, transferStmt, Removed, t, e
<1>8. QED
  BY <1>1, <1>5, <1>6, <1>7, Forward

-----------------------------------------------------------------------------
(* Live variables. *)

\* The variables of L that have a value have it in both.
Agree(L, env, new) == \A v \in (L \ {NONE}) \cap DOMAIN env : v \in DOMAIN new /\ new[v] = env[v]

\* A statement that stays does the same, and the variables live after it have the same values again;
\* one that is taken out has only changed a variable that is not live.
LEMMA LiveStep ==
  ASSUME NEW s, Shaped(s), NONE \notin Uses(s), NEW L,
         NEW env, NEW new, Agree(LiveTransfer(s, L), env, new), Defined(env, s), NEW r
  PROVE  /\ Defined(new, s) /\ Values(new, s) = Values(env, s)
         /\ Agree(L, NewEnv(env, s, r), NewEnv(new, s, r))
         /\ Dead(s, L) => Agree(L, NewEnv(env, s, r), new)
<1>1. \A v \in Uses(s) : v \in DOMAIN env /\ v \in DOMAIN new /\ new[v] = env[v]
  BY DEF Agree, LiveTransfer, Defined
<1>2. \A j \in DOMAIN s.use : Value(new, s.use[j]) = Value(env, s.use[j])
  <2>1. \A j \in DOMAIN s.use : IsVar(s.use[j]) => s.use[j][2] \in Uses(s)
    BY UsesAre
  <2>2. QED
    BY <1>1, <2>1 DEF Value
<1>3. Values(new, s) = Values(env, s)
  BY <1>2 DEF Values
<1>4. Defined(new, s)
  <2>1. s.kind = "op" => 2 \in DOMAIN s.use
    BY DEF Shaped
  <2>2. QED
    BY <1>1, <1>2, <2>1 DEF Defined
<1>5. \A v \in (L \ {NONE}) \cap DOMAIN env : v # s.rd => v \in DOMAIN new /\ new[v] = env[v]
  BY DEF Agree, LiveTransfer
<1>6. CASE ~Defines(s)
  <2>1. s.rd = NONE /\ ~Dead(s, L)
    BY <1>6 DEF Defines, Dead
  <2>2. Agree(L, env, new)
    BY <1>5, <2>1 DEF Agree
  <2>3. QED
    BY <1>3, <1>4, <1>6, <2>1, <2>2 DEF NewEnv
<1>7. CASE Defines(s)
  <2> DEFINE e == With(env, s.rd, r)
             g == With(new, s.rd, r)
  <2>1. NewEnv(env, s, r) = e /\ NewEnv(new, s, r) = g
    BY <1>7 DEF NewEnv
  <2>2. DOMAIN e = DOMAIN env \cup {s.rd} /\ e[s.rd] = r /\ \A v \in DOMAIN env : v # s.rd => e[v] = env[v]
    BY DEF With
  <2>3. DOMAIN g = DOMAIN new \cup {s.rd} /\ g[s.rd] = r /\ \A v \in DOMAIN new : v # s.rd => g[v] = new[v]
    BY DEF With
  <2> HIDE DEF e, g
  <2>4. Agree(L, e, g)
    BY <1>5, <2>2, <2>3 DEF Agree
  <2>5. Dead(s, L) => Agree(L, e, new)
    BY <1>5, <2>2 DEF Agree, Dead
  <2>6. QED
    BY <1>3, <1>4, <2>1, <2>4, <2>5
<1>8. QED
  BY <1>6, <1>7

-----------------------------------------------------------------------------
(* One block as it was and as it has become. *)

Count(p, b) == Len(Func(p).blocks[b].stmts)

LEMMA ReverseGives ==
  ASSUME NEW S, NEW s \in Seq(S)
  PROVE  Reverse(s) \in Seq(S) /\ Len(Reverse(s)) = Len(s) /\ \A i \in 1 .. Len(s) : Reverse(s)[i] = s[(Len(s) - i) + 1]
<1>1. Reverse(s) = [i \in 1 .. Len(s) |-> s[(Len(s) - i) + 1]]
  BY DEF Reverse
<1>2. Len(s) \in Nat
  OBVIOUS
<1>3. \A i \in 1 .. Len(s) : (Len(s) - i) + 1 \in 1 .. Len(s)
  BY <1>2
<1>4. QED
  BY <1>1, <1>2, <1>3

LEMMA OrderedIs ==
  ASSUME NEW p, NEW A, Prepared(p, A), NEW b \in Blocks(p)
  PROVE  LET ss == Func(p).blocks[b].stmts
             n == Count(p, b)
         IN  /\ Ordered(p, b) \in Seq(Stmts(Func(p))) /\ Len(Ordered(p, b)) = n /\ n \in Nat
             /\ \A k \in 1 .. n : Ordered(p, b)[k] = IF isForward(Analysis(p)) THEN ss[k] ELSE ss[(n - k) + 1]
<1> DEFINE ss == Func(p).blocks[b].stmts
           n == Count(p, b)
<1>1. ss \in Seq(Stmts(Func(p))) /\ n \in Nat /\ n = Len(ss)
  BY StmtsAre DEF Count
<1>2. Ordered(p, b) = IF isForward(Analysis(p)) THEN ss ELSE Reverse(ss)
  BY DEF Ordered, InOrder
<1>3. CASE isForward(Analysis(p))
  BY <1>1, <1>2, <1>3
<1>4. CASE ~isForward(Analysis(p))
  <2>1. Ordered(p, b) = Reverse(ss)
    BY <1>2, <1>4
  <2> HIDE DEF ss, n
  <2>2. /\ Reverse(ss) \in Seq(Stmts(Func(p))) /\ Len(Reverse(ss)) = n
        /\ \A k \in 1 .. n : Reverse(ss)[k] = ss[(n - k) + 1]
    BY <1>1, ReverseGives
  <2>3. /\ Ordered(p, b) \in Seq(Stmts(Func(p))) /\ Len(Ordered(p, b)) = n
        /\ \A k \in 1 .. n : Ordered(p, b)[k] = ss[(n - k) + 1]
    BY <2>1, <2>2
  <2>4. QED
    BY <1>1, <1>4, <2>3 DEF ss, n
<1>5. QED
  BY <1>3, <1>4

\* The new block consists of the statements that are kept, each at its place.
LEMMA RewrittenIs ==
  ASSUME NEW p, NEW A, Prepared(p, A), NEW b \in Blocks(p)
  PROVE  LET kept == Rewritings(p, b)[Count(p, b)][2]
             new == Rewritten(p, b)
         IN  /\ Len(kept) \in Nat /\ Len(new) = Len(kept)
             /\ \A i \in 1 .. Len(kept) : new[i] = IF isForward(Analysis(p)) THEN kept[i] ELSE kept[(Len(kept) - i) + 1]
<1> DEFINE n == Count(p, b)
           kept == Rewritings(p, b)[n][2]
           new == Rewritten(p, b)
<1>1. n = Len(Ordered(p, b)) /\ n \in Nat
  BY OrderedIs
<1>2. PICK S : kept \in Seq(S)
  <2>1. n \in 0 .. n
    BY <1>1
  <2>2. QED
    BY <1>1, <2>1, KeptGrows
<1>3. new = IF isForward(Analysis(p)) THEN kept ELSE Reverse(kept)
  BY DEF Rewritten, InOrder, Count
<1> HIDE DEF kept, new
<1>4. Len(kept) \in Nat
  BY <1>2
<1>5. QED
  BY <1>2, <1>3, <1>4, ReverseGives DEF kept, new

\* Where the new block is when the old one is after its first k statements.
Place(p, b, k) ==
  LET h == Rewritings(p, b)
      n == Count(p, b)
  IN  IF isForward(Analysis(p)) THEN Len(h[k][2]) ELSE Len(h[n][2]) - Len(h[n - k][2])

\* What the variables of the old run and of the new one have to do with each other there.
Alike(p, A, b, k, env, new) ==
  LET h == Rewritings(p, b)
      n == Count(p, b)
  IN  IF isForward(Analysis(p))
      THEN /\ new = env
           /\ \/ k = n /\ Holds(p, A, env, p.out[b])
              \/ Holds(p, A, env, Points(p, b)[k]) /\ Holds(p, A, env, h[k][1])
      ELSE Agree(h[n - k][1], env, new)

\* t does with new what s does with env.
Twin(env, s, new, t) ==
  /\ t.kind = s.kind /\ t.op = s.op /\ t.rd = s.rd
  /\ DOMAIN t.use = DOMAIN s.use
  /\ Defined(new, t) /\ Values(new, t) = Values(env, s)

\* The old block takes a statement: the new one takes its twin, or has not got it.
Follows(p, A, b, k, env, new, s, r) ==
  LET m == Place(p, b, k)
      ss == Rewritten(p, b)
  IN  \/ /\ s.kind \in {"assign", "op"}
         /\ Place(p, b, k + 1) = m
         /\ Alike(p, A, b, k + 1, NewEnv(env, s, r), new)
      \/ /\ m \in Nat /\ m < Len(ss) /\ Place(p, b, k + 1) = m + 1
         /\ Twin(env, s, new, ss[m + 1])
         /\ Alike(p, A, b, k + 1, NewEnv(env, s, r), NewEnv(new, ss[m + 1], r))

LEMMA SameTwin ==
  ASSUME NEW env, NEW s, Shaped(s), Defined(env, s), NEW t, Same(env, s, t)
  PROVE  Twin(env, s, env, t) /\ \A r : NewEnv(env, t, r) = NewEnv(env, s, r)
BY SameGives DEF Twin, Same

\* For the three forward analyses the new block follows the old one through a statement.
LEMMA ForwardFollows ==
  ASSUME Arithmetic,
         NEW p, NEW A, Usable(p, A), isForward(Analysis(p)), NEW b \in Blocks(p),
         NEW k \in Nat, k < Count(p, b),
         NEW env, IsEnv(env), NEW new, Alike(p, A, b, k, env, new),
         NEW s, s = Func(p).blocks[b].stmts[k + 1], Defined(env, s), NEW r, Gives(env, s, r)
  PROVE  Follows(p, A, b, k, env, new, s, r)
<1> DEFINE n == Count(p, b)
           h == Rewritings(p, b)
           g == Points(p, b)
           a == Analysis(p)
           ss == Rewritten(p, b)
           t == NewStmt(p, b, k + 1)
           e == NewEnv(env, s, r)
<1>1. Prepared(p, A) /\ Traced(p)
  BY DEF Usable, Underway
<1>2. n \in Nat /\ Len(Ordered(p, b)) = n /\ n = Len(Func(p).blocks[b].stmts) /\ Ordered(p, b) \in Seq(Stmts(Func(p)))
  BY <1>1, OrderedIs DEF Count
<1>3. k + 1 \in 1 .. n /\ k \in 0 .. n /\ k + 1 \in 0 .. n /\ (k + 1) - 1 = k /\ k # n
  BY <1>2
<1>4. Ordered(p, b)[k + 1] = s
  BY <1>1, <1>3, OrderedIs
<1>5. s \in Stmts(Func(p)) /\ Shaped(s) /\ (a = "constant" => Apart(A, s))
  BY <1>1, <1>2, <1>3, StmtsAre
<1>6. new = env /\ Holds(p, A, env, g[k]) /\ Holds(p, A, env, h[k][1])
  BY <1>3 DEF Alike
<1>7. a = "copy" => Findable(s, g[k]) /\ Findable(s, h[k][1])
  BY <1>1, <1>2, <1>3 DEF Traced
<1>8. g[k + 1] = transferStmt(a, p.kills, s, g[k])
  BY <1>2, <1>3, <1>4, PointsAre
<1>9. /\ h[k + 1][1] = transferStmt(a, p.kills, t, h[k][1])
      /\ h[k + 1][2] = IF Goes(p, b, k + 1) THEN h[k][2] ELSE Append(h[k][2], t)
  BY <1>2, <1>3, RewritingStep
<1>10. t = Replaced(a, s, h[k][1]) /\ (Goes(p, b, k + 1) <=> Removed(a, t, h[k][1]))
  BY <1>3, <1>4 DEF NewStmt, Goes
<1> HIDE DEF n, h, g, t, e
<1>11. Holds(p, A, e, g[k + 1])
  BY <1>1, <1>5, <1>6, <1>7, <1>8, StmtHolds DEF e
<1>12. /\ Same(env, s, t)
       /\ Holds(p, A, e, h[k + 1][1])
       /\ Removed(a, t, h[k][1]) => s.kind = "op" /\ e = env
  BY <1>1, <1>5, <1>6, <1>7, <1>9, <1>10, StmtHolds DEF e
<1>13. Alike(p, A, b, k + 1, e, e)
  BY <1>11, <1>12 DEF Alike, h, g
<1>14. Place(p, b, k) = Len(h[k][2]) /\ Place(p, b, k + 1) = Len(h[k + 1][2])
  BY DEF Place, h
<1>15. CASE Goes(p, b, k + 1)
  <2>1. s.kind = "op" /\ e = env
    BY <1>10, <1>12, <1>15
  <2>2. Place(p, b, k + 1) = Place(p, b, k)
    BY <1>9, <1>14, <1>15
  <2>3. Alike(p, A, b, k + 1, e, new)
    BY <1>6, <1>13, <2>1
  <2>4. QED
    BY <2>1, <2>2, <2>3 DEF Follows, e
<1>16. CASE ~Goes(p, b, k + 1)
  <2>1. /\ Len(h[k][2]) \in Nat
        /\ Len(h[k + 1][2]) = Len(h[k][2]) + 1
        /\ h[n][2][Len(h[k + 1][2])] = t
        /\ Len(h[k + 1][2]) <= Len(h[n][2])
    <3>1. Len(Ordered(p, b)) \in Nat
      BY <1>2
    <3>2. \A j \in 0 .. Len(Ordered(p, b)) :
            Len(h[j][2]) \in Nat /\ Len(h[j][2]) <= Len(h[Len(Ordered(p, b))][2])
      BY <3>1, KeptGrows DEF h
    <3>3. \A j \in 1 .. Len(Ordered(p, b)) : ~Goes(p, b, j) =>
            /\ Len(h[j][2]) = Len(h[j - 1][2]) + 1
            /\ h[Len(Ordered(p, b))][2][Len(h[j][2])] = NewStmt(p, b, j)
      BY <3>1, KeptGrows DEF h
    <3>4. QED
      BY <1>2, <1>3, <1>16, <3>2, <3>3 DEF t
  <2>2. Len(ss) = Len(h[n][2]) /\ Len(h[n][2]) \in Nat /\ \A i \in 1 .. Len(ss) : ss[i] = h[n][2][i]
    BY <1>1, RewrittenIs DEF n, h
  <2> HIDE DEF ss
  <2>3. /\ Place(p, b, k) \in Nat /\ Place(p, b, k) < Len(ss) /\ Place(p, b, k + 1) = Place(p, b, k) + 1
        /\ Place(p, b, k) + 1 \in 1 .. Len(ss)
    BY <1>14, <2>1, <2>2
  <2>4. ss[Place(p, b, k) + 1] = t
    BY <1>14, <2>1, <2>2, <2>3
  <2>5. Twin(env, s, new, t) /\ NewEnv(new, t, r) = e
    BY <1>5, <1>6, <1>12, SameTwin DEF e
  <2>6. QED
    BY <1>13, <2>3, <2>4, <2>5 DEF Follows, e, ss
<1>17. QED
  BY <1>15, <1>16

\* For live variables the new block follows the old one through a statement.
LEMMA LiveFollows ==
  ASSUME NEW p, NEW A, Usable(p, A), ~isForward(Analysis(p)), NEW b \in Blocks(p),
         NEW k \in Nat, k < Count(p, b),
         NEW env, NEW new, Alike(p, A, b, k, env, new),
         NEW s, s = Func(p).blocks[b].stmts[k + 1], Defined(env, s), NEW r
  PROVE  Follows(p, A, b, k, env, new, s, r)
<1> DEFINE n == Count(p, b)
           h == Rewritings(p, b)
           j == n - k
           ss == Rewritten(p, b)
           e == NewEnv(env, s, r)
           all == Len(h[n][2])
<1>1. Prepared(p, A) /\ Analysis(p) = "live"
  BY DEF Usable, Underway, isForward
<1>2. n \in Nat /\ Len(Ordered(p, b)) = n
  BY <1>1, OrderedIs
<1>3. /\ k + 1 \in 1 .. n /\ j \in 1 .. n /\ j \in 0 .. n /\ j - 1 \in 0 .. n /\ n \in 0 .. n
      /\ (n - j) + 1 = k + 1 /\ n - (k + 1) = j - 1
  BY <1>2
<1>4. Ordered(p, b)[j] = s
  BY <1>1, <1>3, OrderedIs
<1>5. Shaped(s) /\ NONE \notin Uses(s)
  BY <1>1, <1>3, StmtsAre DEF Count
<1>6. NewStmt(p, b, j) = s /\ (Goes(p, b, j) <=> Dead(s, h[j - 1][1]))
  BY <1>1, <1>4 DEF NewStmt, Replaced, Goes, Removed
<1>7. /\ h[j][1] = transferStmt("live", p.kills, s, h[j - 1][1])
      /\ h[j][2] = IF Goes(p, b, j) THEN h[j - 1][2] ELSE Append(h[j - 1][2], s)
  BY <1>1, <1>2, <1>3, <1>6, RewritingStep
<1>8. Agree(LiveTransfer(s, h[j - 1][1]), env, new)
  BY <1>7 DEF Alike, transferStmt
<1>9. Place(p, b, k) = all - Len(h[j][2]) /\ Place(p, b, k + 1) = all - Len(h[j - 1][2])
  BY <1>3 DEF Place
<1>10. /\ all \in Nat /\ Len(h[j][2]) \in Nat /\ Len(h[j][2]) <= all
       /\ Len(h[j - 1][2]) \in Nat
       /\ ~Goes(p, b, j) => Len(h[j][2]) = Len(h[j - 1][2]) + 1 /\ h[n][2][Len(h[j][2])] = s
  <2>1. Len(Ordered(p, b)) \in Nat
    BY <1>2
  <2>2. \A i \in 0 .. Len(Ordered(p, b)) :
          Len(h[i][2]) \in Nat /\ Len(h[i][2]) <= Len(h[Len(Ordered(p, b))][2])
    BY <2>1, KeptGrows
  <2>3. \A i \in 1 .. Len(Ordered(p, b)) : ~Goes(p, b, i) =>
          /\ Len(h[i][2]) = Len(h[i - 1][2]) + 1
          /\ h[Len(Ordered(p, b))][2][Len(h[i][2])] = NewStmt(p, b, i)
    BY <2>1, KeptGrows
  <2> HIDE DEF h, n, j
  <2>4. QED
    BY <1>2, <1>3, <1>6, <2>2, <2>3
<1>11. Len(ss) = all /\ \A i \in 1 .. all : ss[i] = h[n][2][(all - i) + 1]
  BY <1>1, RewrittenIs
<1>12. /\ Defined(new, s) /\ Values(new, s) = Values(env, s)
       /\ Agree(h[j - 1][1], e, NewEnv(new, s, r))
       /\ Dead(s, h[j - 1][1]) => Agree(h[j - 1][1], e, new)
  BY <1>5, <1>8, LiveStep
<1>13. \A env2 : Alike(p, A, b, k + 1, e, env2) <=> Agree(h[j - 1][1], e, env2)
  BY <1>3 DEF Alike
<1> HIDE DEF n, h, j, ss, e, all
<1>14. CASE Goes(p, b, j)
  <2>1. Dead(s, h[j - 1][1]) /\ s.kind \in {"assign", "op"}
    BY <1>6, <1>14 DEF Dead
  <2>2. Place(p, b, k + 1) = Place(p, b, k)
    BY <1>7, <1>9, <1>14
  <2>3. Alike(p, A, b, k + 1, e, new)
    BY <1>12, <1>13, <2>1
  <2>4. QED
    BY <2>1, <2>2, <2>3 DEF Follows, e
<1>15. CASE ~Goes(p, b, j)
  <2>1. /\ Place(p, b, k) \in Nat /\ Place(p, b, k) < Len(ss) /\ Place(p, b, k + 1) = Place(p, b, k) + 1
        /\ Place(p, b, k) + 1 \in 1 .. all /\ (all - (Place(p, b, k) + 1)) + 1 = Len(h[j][2])
    <3>1. \A x, y, z \in Nat : x <= z /\ x = y + 1 =>
            /\ z - x \in Nat /\ z - x < z /\ z - y = (z - x) + 1
            /\ (z - x) + 1 \in 1 .. z /\ (z - ((z - x) + 1)) + 1 = x
      OBVIOUS
    <3> DEFINE x == Len(h[j][2])
               y == Len(h[j - 1][2])
    <3>2. x \in Nat /\ y \in Nat /\ all \in Nat /\ x <= all /\ x = y + 1 /\ Len(ss) = all
      BY <1>10, <1>11, <1>15
    <3>3. Place(p, b, k) = all - x /\ Place(p, b, k + 1) = all - y
      BY <1>9
    <3> HIDE DEF x, y
    <3>4. QED
      BY <3>1, <3>2, <3>3 DEF x
  <2>2. ss[Place(p, b, k) + 1] = s
    BY <1>10, <1>11, <1>15, <2>1
  <2>3. Twin(env, s, new, s)
    BY <1>12 DEF Twin
  <2>4. Alike(p, A, b, k + 1, e, NewEnv(new, s, r))
    BY <1>12, <1>13
  <2>5. QED
    BY <2>1, <2>2, <2>3, <2>4 DEF Follows, e, ss
<1>16. QED
  BY <1>14, <1>15

-----------------------------------------------------------------------------
(* From block to block. *)

\* The new block ends with the old one.
LEMMA EndsTogether ==
  ASSUME NEW p, NEW A, Usable(p, A), NEW b \in Blocks(p)
  PROVE  Place(p, b, 0) = 0 /\ Place(p, b, Count(p, b)) = Len(Rewritten(p, b))
<1> DEFINE n == Count(p, b)
           h == Rewritings(p, b)
<1>1. Prepared(p, A)
  BY DEF Usable, Underway
<1>2. n \in Nat /\ Len(Ordered(p, b)) = n
  BY <1>1, OrderedIs
<1>3. Len(h[n][2]) \in Nat /\ Len(Rewritten(p, b)) = Len(h[n][2])
  BY <1>1, RewrittenIs
<1>4. h[0][2] = <<>>
  BY <1>2, RewritingsAre
<1>5. n - 0 = n /\ n - n = 0
  BY <1>2
<1>6. Len(h[0][2]) = 0
  BY <1>4
<1>7. CASE isForward(Analysis(p))
  BY <1>3, <1>6, <1>7 DEF Place
<1>8. CASE ~isForward(Analysis(p))
  <2>1. Place(p, b, 0) = Len(h[n][2]) - Len(h[n - 0][2]) /\ Place(p, b, n) = Len(h[n][2]) - Len(h[n - n][2])
    BY <1>8 DEF Place
  <2>2. Place(p, b, 0) = Len(h[n][2]) - Len(h[n][2]) /\ Place(p, b, n) = Len(h[n][2]) - Len(h[0][2])
    BY <1>5, <2>1
  <2> DEFINE x == Len(h[n][2])
  <2>3. Place(p, b, 0) = x - x /\ Place(p, b, n) = x - 0 /\ x \in Nat /\ Len(Rewritten(p, b)) = x
    BY <1>3, <1>6, <2>2
  <2> HIDE DEF x, n
  <2>4. QED
    BY <2>3 DEF n
<1>9. QED
  BY <1>7, <1>8

\* What holds for the runs at the end of a block holds for them at the beginning of the next.
LEMMA NextAlike ==
  ASSUME Arithmetic,
         NEW p, NEW A, Usable(p, A), NEW b \in Blocks(p), NEW j \in DOMAIN Func(p).succ[b],
         NEW env, NEW new, Alike(p, A, b, Count(p, b), env, new)
  PROVE  Func(p).succ[b][j] \in Blocks(p) /\ Alike(p, A, Func(p).succ[b][j], 0, env, new)
<1> DEFINE c == Func(p).succ[b][j]
           n == Count(p, b)
<1>1. Prepared(p, A) /\ Underway(p, A) /\ p.queue = <<>> /\ Ready(p)
  BY DEF Usable, Underway, Prepared
<1>2. n \in Nat /\ Len(Ordered(p, b)) = n /\ Ordered(p, b) \in Seq(Stmts(Func(p)))
  BY <1>1, OrderedIs
<1>3. Linked(Func(p))
  BY <1>1 DEF Ready
<1>4. c \in Blocks(p)
  BY <1>3 DEF Linked, Blocks
<1> HIDE DEF c, n
<1>5. /\ Count(p, c) \in Nat /\ Len(Ordered(p, c)) = Count(p, c) /\ Ordered(p, c) \in Seq(Stmts(Func(p)))
  BY <1>1, <1>4, OrderedIs
<1>6. /\ Rewritings(p, c)[0][1] = StartFact(p, c)
      /\ Points(p, c)[0] = StartFact(p, c)
      /\ Rewritings(p, b)[0][1] = StartFact(p, b)
  BY <1>2, <1>5, RewritingsAre, PointsAre
<1>7. CASE isForward(Analysis(p))
  <2>1. new = env /\ Holds(p, A, env, p.out[b])
    <3>1. Holds(p, A, env, Points(p, b)[n]) => Holds(p, A, env, p.out[b])
      BY <1>1, <1>7, FlowOut DEF n, Count
    <3>2. QED
      BY <1>7, <3>1 DEF Alike, n
  <2>2. Holds(p, A, env, StartFact(p, c))
    BY <1>1, <1>7, <2>1, FlowIn DEF c
  <2>3. QED
    BY <1>4, <1>6, <1>7, <2>1, <2>2 DEF Alike, c
<1>8. CASE ~isForward(Analysis(p))
  <2> DEFINE N == Count(p, c)
             h == Rewritings(p, c)
             g == Points(p, c)
  <2>1. Analysis(p) = "live"
    BY <1>8 DEF isForward
  <2>2. Agree(StartFact(p, b), env, new)
    <3>1. n - n = 0
      BY <1>2
    <3>2. QED
      BY <1>6, <1>8, <3>1 DEF Alike, n
  <2>3. p.out[b] \subseteq StartFact(p, b)
    BY <2>1 DEF StartFact, isForward, meetInto
  <2>4. p.in[c] \subseteq p.out[b]
    <3>1. Settled(p, b)
      BY <1>1, SolvedFacts
    <3>2. Sources(p, b) = Func(p).succ[b] /\ After(p) = p.in /\ Before(p) = p.out
      BY <1>8 DEF Sources, After, Before
    <3>3. Func(p).succ[b] \in Seq(Blocks(p))
      BY <1>3 DEF Linked, Blocks
    <3>4. j \in 1 .. Len(Func(p).succ[b])
      BY <3>3
    <3>5. Absorbed("live", p.in[c], p.out[b])
      BY <2>1, <3>1, <3>2, <3>4 DEF Settled, c
    <3>6. QED
      BY <3>5, AbsorbedIs
  <2>5. TransferAll("live", p.kills, StartFact(p, c), Ordered(p, c)) \subseteq p.in[c]
    <3>1. Settled(p, c)
      BY <1>1, <1>4, SolvedFacts
    <3>2. transferBlock(p, c, p.out[c]) = TransferAll("live", p.kills, StartFact(p, c), Ordered(p, c))
      BY <1>8, <2>1, TransferBlockIs DEF StartFact, Ordered, InOrder
    <3>3. Absorbed("live", transferBlock(p, c, p.out[c]), p.in[c])
      BY <1>8, <2>1, <3>1 DEF Settled, Before, After
    <3>4. QED
      BY <3>2, <3>3, AbsorbedIs
  <2>6. /\ g[0] = StartFact(p, c)
        /\ \A k \in 1 .. N : g[k] = transferStmt("live", p.kills, Ordered(p, c)[k], g[k - 1])
        /\ g[N] = TransferAll("live", p.kills, StartFact(p, c), Ordered(p, c))
    BY <1>5, <2>1, PointsAre
  <2>7. \A k \in 1 .. N : h[k][1] = transferStmt("live", p.kills, Ordered(p, c)[k], h[k - 1][1])
    <3>1. \A k \in 1 .. N : NewStmt(p, c, k) = Ordered(p, c)[k]
      BY <2>1 DEF NewStmt, Replaced
    <3>2. QED
      BY <1>5, <2>1, <3>1, RewritingStep
  <2>8. h[N][1] = g[N]
    <3> DEFINE D == {k \in Nat : k <= N /\ h[k][1] # g[k]}
    <3> HIDE DEF h, g, N
    <3>1. N \in Nat
      BY <1>5 DEF N
    <3>2. D = {}
      <4>1. SUFFICES ASSUME D # {} PROVE FALSE
        OBVIOUS
      <4>2. PICK m \in D : \A k \in D : m <= k
        <5> HIDE DEF D
        <5>1. D \in SUBSET Nat
          BY DEF D
        <5>2. QED
          BY <4>1, <5>1, LeastNat
      <4>3. m # 0
        BY <1>6, <4>2 DEF h, g
      <4>4. m \in 1 .. N /\ m - 1 \in Nat /\ m - 1 <= N /\ ~(m <= m - 1)
        BY <3>1, <4>3
      <4>5. h[m - 1][1] = g[m - 1]
        BY <4>2, <4>4
      <4>6. QED
        BY <2>6, <2>7, <4>4, <4>5
    <3>3. QED
      BY <3>1, <3>2
  <2>9. h[N][1] \subseteq StartFact(p, b)
    BY <2>3, <2>4, <2>5, <2>6, <2>8
  <2>10. Agree(h[N][1], env, new)
    BY <2>2, <2>9 DEF Agree
  <2>11. N - 0 = N
    BY <1>5
  <2>12. QED
    BY <1>4, <1>8, <2>10, <2>11 DEF Alike, c
<1>9. QED
  BY <1>7, <1>8

-----------------------------------------------------------------------------
(* A run of the old function and one of the new. *)

IsMachine(m) == {"at", "done", "env", "world"} \subseteq DOMAIN m

LEMMA ExecuteIs ==
  ASSUME NEW m, IsMachine(m), NEW s
  PROVE  LET x == Execute(m, s)
             y == Outcome(m.env, m.world, s)
         IN  /\ IsMachine(x) /\ x.at = m.at /\ x.done = m.done + 1
             /\ x.env = NewEnv(m.env, s, y[1]) /\ x.world = y[2]
<1> DEFINE y == Outcome(m.env, m.world, s)
           e == IF Defines(s) THEN With(m.env, s.rd, y[1]) ELSE m.env
<1>1. Execute(m, s) = [m EXCEPT !.done = @ + 1, !.env = e, !.world = y[2]]
  BY DEF Execute
<1>2. e = NewEnv(m.env, s, y[1])
  BY DEF NewEnv
<1> HIDE DEF e, y
<1>3. QED
  BY <1>1, <1>2 DEF IsMachine, y

LEMMA LeaveIs ==
  ASSUME NEW f, NEW m, IsMachine(m), NEW k
  PROVE  LET x == Leave(f, m, k)
         IN  /\ IsMachine(x) /\ x.at = f.succ[m.at][k] /\ x.done = 0
             /\ x.env = m.env /\ x.world = m.world
<1> DEFINE c == f.succ[m.at][k]
<1>1. Leave(f, m, k) = [m EXCEPT !.at = c, !.done = 0]
  BY DEF Leave
<1> HIDE DEF c
<1>2. QED
  BY <1>1 DEF IsMachine, c

\* What a statement gives is a number.
LEMMA OutcomeGives ==
  ASSUME Arithmetic, NEW env, IsEnv(env), NEW s, Shaped(s), Defined(env, s), NEW w
  PROVE  Gives(env, s, Outcome(env, w, s)[1])
<1> DEFINE x == Values(env, s)
           r == Outcome(env, w, s)[1]
<1>1. \A j \in DOMAIN s.use : x[j] = Value(env, s.use[j]) /\ Value(env, s.use[j]) \in Int
  BY OperandValue DEF Values, Defined
<1> HIDE DEF x
<1>2. CASE s.kind = "assign"
  <2>1. Outcome(env, w, s) = <<x[1], w>>
    BY <1>2 DEF Outcome, x
  <2>2. 1 \in DOMAIN s.use
    BY <1>2 DEF Shaped
  <2>3. QED
    BY <1>1, <1>2, <2>1, <2>2 DEF Gives
<1>3. CASE s.kind = "op"
  <2>1. Outcome(env, w, s) = <<Compute(s.op, x[1], x[2]), w>>
    BY <1>3 DEF Outcome, x
  <2>2. 1 \in DOMAIN s.use /\ 2 \in DOMAIN s.use /\ s.op \in OPS
    BY <1>3 DEF Shaped
  <2>3. s.op = "/" => x[2] # 0
    BY <1>1, <1>3, <2>2 DEF Defined
  <2>4. Compute(s.op, x[1], x[2]) \in Int
    BY <1>1, <2>2, <2>3 DEF Arithmetic
  <2>5. QED
    BY <1>1, <1>3, <2>1, <2>2, <2>4 DEF Gives
<1>4. CASE s.kind = "goto"
  <2>1. Outcome(env, w, s) = <<0, w>>
    BY <1>4 DEF Outcome
  <2>2. QED
    BY <1>4, <2>1 DEF Gives
<1>5. CASE s.kind \notin {"assign", "op", "goto"}
  <2>1. Outcome(env, w, s) = Does(s.kind, s.op, x, w)
    BY <1>5 DEF Outcome, x
  <2>2. r \in Int
    BY <2>1 DEF Arithmetic
  <2>3. QED
    BY <1>5, <2>2 DEF Gives
<1>6. QED
  BY <1>2, <1>3, <1>4, <1>5

\* Twins have the same outcome.
LEMMA TwinOutcome ==
  ASSUME NEW env, NEW s, Shaped(s), NEW new, NEW t, Twin(env, s, new, t)
  PROVE  /\ \A w : Outcome(new, w, t) = Outcome(env, w, s)
         /\ s.kind = "if" => ~Defines(s) /\ ~Defines(t) /\ Branch(new, t) = Branch(env, s)
<1>1. \A w : Outcome(new, w, t) = Outcome(env, w, s)
  BY DEF Twin, Outcome
<1>2. ASSUME s.kind = "if" PROVE ~Defines(s) /\ ~Defines(t) /\ Branch(new, t) = Branch(env, s)
  <2>1. 1 \in DOMAIN s.use /\ 2 \in DOMAIN s.use
    BY <1>2 DEF Shaped
  <2>2. \A j \in DOMAIN s.use : Values(new, t)[j] = Value(new, t.use[j]) /\ Values(env, s)[j] = Value(env, s.use[j])
    BY DEF Values, Twin
  <2>3. Value(new, t.use[1]) = Value(env, s.use[1]) /\ Value(new, t.use[2]) = Value(env, s.use[2])
    BY <2>1, <2>2 DEF Twin
  <2>4. Branch(new, t) = Branch(env, s)
    BY <2>3 DEF Branch, Twin
  <2>5. ~Defines(s) /\ ~Defines(t)
    BY <1>2 DEF Defines, Twin, Shaped
  <2>6. QED
    BY <2>4, <2>5
<1>3. QED
  BY <1>1, <1>2

\* g is what the function has become.
Became(p, g) ==
  /\ g.succ = Func(p).succ /\ g.params = Func(p).params /\ g.dec = Func(p).dec
  /\ \A b \in Blocks(p) : g.blocks[b].stmts = Rewritten(p, b)

\* The new run is where the old one is.
Sim(p, A, x, y) ==
  /\ IsMachine(x) /\ IsMachine(y)
  /\ x.at \in Blocks(p) /\ x.done \in Nat /\ x.done <= Count(p, x.at) /\ IsEnv(x.env)
  /\ y.at = x.at /\ y.world = x.world /\ y.done = Place(p, x.at, x.done)
  /\ Alike(p, A, x.at, x.done, x.env, y.env)

\* The new run follows the old one through a statement that is carried out.
LEMMA Followed ==
  ASSUME Arithmetic, NEW p, NEW A, Usable(p, A), NEW x, NEW y, Sim(p, A, x, y), x.done # Count(p, x.at),
         NEW s, s = Func(p).blocks[x.at].stmts[x.done + 1], Defined(x.env, s), NEW r, Gives(x.env, s, r)
  PROVE  /\ Shaped(s) /\ (s.kind = "if" => x.done + 1 = Count(p, x.at))
         /\ x.done + 1 \in Nat /\ x.done + 1 <= Count(p, x.at)
         /\ Follows(p, A, x.at, x.done, x.env, y.env, s, r)
<1> DEFINE b == x.at
           k == x.done
           n == Count(p, b)
<1>1. Prepared(p, A)
  BY DEF Usable, Underway
<1>2. b \in Blocks(p) /\ k \in Nat /\ k <= n /\ n \in Nat /\ n = Len(Func(p).blocks[b].stmts)
  BY <1>1, StmtsAre DEF Sim, Count
<1>3. k < n /\ k + 1 \in 1 .. n /\ k + 1 \in Nat /\ k + 1 <= n
  BY <1>2
<1>4. Shaped(s) /\ (s.kind = "if" => k + 1 = n)
  BY <1>1, <1>2, <1>3, StmtsAre
<1>5. IsEnv(x.env) /\ Alike(p, A, b, k, x.env, y.env)
  BY DEF Sim
<1> HIDE DEF b, k, n
<1>6. Follows(p, A, b, k, x.env, y.env, s, r)
  <2>1. CASE isForward(Analysis(p))
    BY <1>2, <1>3, <1>5, <2>1, ForwardFollows DEF b, k, n
  <2>2. CASE ~isForward(Analysis(p))
    BY <1>2, <1>3, <1>5, <2>2, LiveFollows DEF b, k, n
  <2>3. QED
    BY <2>1, <2>2
<1>7. QED
  BY <1>3, <1>4, <1>6 DEF b, k, n

\* Both go to the same next block.
LEMMA LeaveSim ==
  ASSUME Arithmetic, NEW p, NEW A, Usable(p, A), NEW g, Became(p, g),
         NEW x, IsMachine(x), x.at \in Blocks(p), IsEnv(x.env),
         NEW y, IsMachine(y), y.at = x.at, y.world = x.world,
         Alike(p, A, x.at, Count(p, x.at), x.env, y.env),
         NEW j \in DOMAIN Func(p).succ[x.at]
  PROVE  Sim(p, A, Leave(Func(p), x, j), Leave(g, y, j))
<1> DEFINE c == Func(p).succ[x.at][j]
           u == Leave(Func(p), x, j)
           v == Leave(g, y, j)
<1>1. c \in Blocks(p) /\ Alike(p, A, c, 0, x.env, y.env)
  BY NextAlike
<1>2. IsMachine(u) /\ u.at = c /\ u.done = 0 /\ u.env = x.env /\ u.world = x.world
  BY LeaveIs
<1>3. IsMachine(v) /\ v.at = c /\ v.done = 0 /\ v.env = y.env /\ v.world = y.world
  BY LeaveIs DEF Became
<1>4. Prepared(p, A)
  BY DEF Usable, Underway
<1>5. Count(p, c) \in Nat
  BY <1>1, <1>4, OrderedIs
<1>6. Place(p, c, 0) = 0
  BY <1>1, EndsTogether
<1> HIDE DEF c, u, v
<1>7. 0 \in Nat /\ 0 <= Count(p, c)
  BY <1>5
<1>8. Sim(p, A, u, v)
  BY <1>1, <1>2, <1>3, <1>6, <1>7 DEF Sim
<1>9. QED
  BY <1>8 DEF u, v

\* Each step of the old run is one step of the new run or none.
LEMMA StepSim ==
  ASSUME Arithmetic, NEW p, NEW A, Usable(p, A), NEW g, Became(p, g),
         NEW x, NEW y, Sim(p, A, x, y), Able(Func(p), x)
  PROVE  LET z == Step(Func(p), x)
         IN  \/ Sim(p, A, z, y)
             \/ Able(g, y) /\ Sim(p, A, z, Step(g, y))
<1> DEFINE f == Func(p)
           b == x.at
           n == Count(p, b)
           ss == f.blocks[b].stmts
           ts == g.blocks[b].stmts
           s == ss[x.done + 1]
           t == ts[y.done + 1]
<1>1. /\ b \in Blocks(p) /\ IsMachine(x) /\ IsMachine(y) /\ IsEnv(x.env) /\ x.done \in Nat
      /\ y.at = b /\ y.world = x.world /\ y.done = Place(p, b, x.done)
      /\ Alike(p, A, b, x.done, x.env, y.env)
  BY DEF Sim
<1>2. ts = Rewritten(p, b) /\ g.succ = f.succ /\ n = Len(ss)
  BY <1>1 DEF Became, Count
<1>3. Place(p, b, n) = Len(ts)
  BY <1>1, <1>2, EndsTogether
<1>4. CASE x.done = n
  <2>1. f.succ[b] # <<>>
    BY <1>2, <1>4 DEF Able
  <2>2. 1 \in DOMAIN f.succ[b]
    <3>1. f.succ[b] \in Seq(DOMAIN f.blocks)
      BY <1>1 DEF Usable, Underway, Prepared, Ready, Linked, Blocks
    <3> HIDE DEF f, b
    <3>2. QED
      BY <2>1, <3>1
  <2>3. y.done = Len(ts)
    BY <1>1, <1>3, <1>4
  <2>4. Step(f, x) = Leave(f, x, 1)
    BY <1>2, <1>4 DEF Step
  <2>5. Able(g, y) /\ Step(g, y) = Leave(g, y, 1)
    BY <1>1, <1>2, <2>1, <2>3 DEF Able, Step
  <2>6. Sim(p, A, Leave(f, x, 1), Leave(g, y, 1))
    BY <1>1, <1>4, <2>2, LeaveSim
  <2>7. QED
    BY <2>4, <2>5, <2>6
<1>5. CASE x.done # n
  <2>1. Defined(x.env, s) /\ (s.kind = "if" => Branch(x.env, s) \in DOMAIN f.succ[b])
    BY <1>2, <1>5 DEF Able
  <2>2. CASE s.kind = "if"
    <3>1. Gives(x.env, s, 0)
      BY <2>2 DEF Gives
    <3>2. /\ Shaped(s) /\ x.done + 1 = n
          /\ Follows(p, A, b, x.done, x.env, y.env, s, 0)
      BY <1>5, <2>1, <2>2, <3>1, Followed
    <3>3. /\ y.done < Len(ts)
          /\ Twin(x.env, s, y.env, t)
          /\ Alike(p, A, b, n, NewEnv(x.env, s, 0), NewEnv(y.env, t, 0))
      BY <1>1, <1>2, <2>2, <3>2 DEF Follows
    <3>4. t.kind = "if" /\ Defined(y.env, t) /\ ~Defines(s) /\ ~Defines(t) /\ Branch(y.env, t) = Branch(x.env, s)
      <4> HIDE DEF s, t
      <4>1. QED
        BY <2>2, <3>2, <3>3, TwinOutcome DEF Twin
    <3>5. Alike(p, A, b, n, x.env, y.env)
      BY <3>3, <3>4 DEF NewEnv
    <3>6. y.done # Len(ts)
      <4>1. y.done \in Nat
        BY <1>1, <1>2, <2>2, <3>2 DEF Follows
      <4> HIDE DEF ts
      <4>2. QED
        BY <3>3, <4>1
    <3>7. Step(f, x) = Leave(f, x, Branch(x.env, s))
      BY <1>2, <1>5, <2>2 DEF Step
    <3>8. Able(g, y) /\ Step(g, y) = Leave(g, y, Branch(x.env, s))
      BY <1>1, <1>2, <2>1, <2>2, <3>4, <3>6 DEF Able, Step
    <3>9. Sim(p, A, Leave(f, x, Branch(x.env, s)), Leave(g, y, Branch(x.env, s)))
      BY <1>1, <2>1, <2>2, <3>5, LeaveSim
    <3>10. QED
      BY <3>7, <3>8, <3>9
  <2>3. CASE s.kind # "if"
    <3> DEFINE res == Outcome(x.env, x.world, s)
               r == res[1]
               z == Execute(x, s)
    <3>1. Shaped(s)
      <4>1. Prepared(p, A) /\ n \in Nat
        BY <1>1, StmtsAre DEF Usable, Underway, Count
      <4>2. x.done + 1 \in 1 .. Len(ss)
        BY <1>1, <1>2, <1>5, <4>1 DEF Sim
      <4>3. QED
        BY <1>1, <4>1, <4>2, StmtsAre
    <3>2. Gives(x.env, s, r)
      BY <1>1, <2>1, <3>1, OutcomeGives
    <3>3. /\ x.done + 1 \in Nat /\ x.done + 1 <= n
          /\ Follows(p, A, b, x.done, x.env, y.env, s, r)
      BY <1>5, <2>1, <3>2, Followed
    <3>4. Step(f, x) = z
      BY <1>2, <1>5, <2>3 DEF Step
    <3>5. IsMachine(z) /\ z.at = b /\ z.done = x.done + 1 /\ z.env = NewEnv(x.env, s, r) /\ z.world = res[2]
      BY <1>1, ExecuteIs
    <3>6. IsEnv(NewEnv(x.env, s, r))
      BY <1>1, <3>2, NewEnvIs DEF Gives
    <3>7. CASE /\ s.kind \in {"assign", "op"}
               /\ Place(p, b, x.done + 1) = Place(p, b, x.done)
               /\ Alike(p, A, b, x.done + 1, NewEnv(x.env, s, r), y.env)
      <4>1. res[2] = x.world
        BY <3>7 DEF Outcome
      <4> HIDE DEF z, s, res
      <4>2. Sim(p, A, z, y)
        BY <1>1, <3>3, <3>5, <3>6, <3>7, <4>1 DEF Sim
      <4>3. QED
        BY <3>4, <4>2
    <3>8. CASE /\ y.done \in Nat /\ y.done < Len(ts) /\ Place(p, b, x.done + 1) = y.done + 1
               /\ Twin(x.env, s, y.env, t)
               /\ Alike(p, A, b, x.done + 1, NewEnv(x.env, s, r), NewEnv(y.env, t, r))
      <4> DEFINE w == Execute(y, t)
      <4>1. Outcome(y.env, y.world, t) = res
        <5> HIDE DEF s, t
        <5>1. QED
          BY <1>1, <3>1, <3>8, TwinOutcome
      <4>2. IsMachine(w) /\ w.at = b /\ w.done = y.done + 1 /\ w.env = NewEnv(y.env, t, r) /\ w.world = res[2]
        BY <1>1, <4>1, ExecuteIs
      <4>3. y.done # Len(ts)
        <5>1. Len(ts) \in Nat
          BY <1>1, RewrittenIs DEF Usable, Underway
        <5> HIDE DEF ts
        <5>2. QED
          BY <3>8, <5>1
      <4>4. t.kind # "if" /\ Defined(y.env, t)
        BY <2>3, <3>8 DEF Twin
      <4>5. Able(g, y) /\ Step(g, y) = w
        BY <1>1, <4>3, <4>4 DEF Able, Step
      <4> HIDE DEF z, w, s, t, res
      <4>6. Sim(p, A, z, w)
        BY <1>1, <3>3, <3>5, <3>6, <3>8, <4>2 DEF Sim
      <4>7. QED
        BY <3>4, <4>5, <4>6
    <3>9. QED
      BY <1>1, <1>2, <3>3, <3>7, <3>8 DEF Follows
  <2>4. QED
    BY <2>2, <2>3
<1>6. QED
  BY <1>4, <1>5

\* A run of the old function begins where one of the new begins.
LEMMA StartSim ==
  ASSUME NEW p, NEW A, Usable(p, A), NEW m, Starts(Func(p), m)
  PROVE  Sim(p, A, m, m)
<1>1. PICK env \in [Given(Func(p)) -> Int] : \E w : m = [at |-> 1, done |-> 0, env |-> env, world |-> w]
  BY DEF Starts
<1>2. IsMachine(m) /\ m.at = 1 /\ m.done = 0 /\ m.env = env
  BY <1>1 DEF IsMachine
<1>3. 1 \in Blocks(p) /\ Func(p).blocks[1].stmts = <<>> /\ Underway(p, A) /\ p.queue = <<>>
  BY DEF Usable, Underway, Prepared, Formed, Blocks
<1>4. Count(p, 1) = 0
  BY <1>3 DEF Count
<1>5. Place(p, 1, 0) = 0
  BY <1>3, EndsTogether
<1>6. IsEnv(env)
  BY DEF IsEnv
<1>7. Alike(p, A, 1, 0, env, env)
  <2>1. CASE isForward(Analysis(p))
    <3>1. Holds(p, A, env, p.out[1])
      BY <1>3, <2>1, EdgeHolds
    <3>2. QED
      BY <1>4, <2>1, <3>1 DEF Alike
  <2>2. CASE ~isForward(Analysis(p))
    BY <2>2 DEF Alike, Agree
  <2>3. QED
    BY <2>1, <2>2
<1>8. QED
  BY <1>2, <1>3, <1>4, <1>5, <1>6, <1>7 DEF Sim

\* A run that goes on.
LEMMA RunOn ==
  ASSUME NEW g, NEW t, NEW m \in Nat, IsRun(g, t, m), Able(g, t[m])
  PROVE  \E u : IsRun(g, u, m + 1) /\ u[0] = t[0] /\ u[m + 1] = Step(g, t[m])
<1> DEFINE u == [i \in 0 .. m + 1 |-> IF i = m + 1 THEN Step(g, t[m]) ELSE t[i]]
<1>1. m + 1 \in 0 .. m + 1 /\ 0 \in 0 .. m + 1 /\ 0 # m + 1
  OBVIOUS
<1>2. u[m + 1] = Step(g, t[m]) /\ u[0] = t[0]
  BY <1>1
<1>3. \A i \in 0 .. m : u[i] = t[i]
  OBVIOUS
<1> HIDE DEF u
<1>4. ASSUME NEW i \in 1 .. m + 1 PROVE Able(g, u[i - 1]) /\ u[i] = Step(g, u[i - 1])
  <2>1. CASE i = m + 1
    <3>1. i - 1 = m /\ m \in 0 .. m
      BY <2>1
    <3>2. u[i - 1] = t[m] /\ u[i] = Step(g, t[m])
      BY <1>2, <1>3, <2>1, <3>1
    <3>3. QED
      BY <3>2
  <2>2. CASE i # m + 1
    <3>1. i \in 1 .. m /\ i \in 0 .. m /\ i - 1 \in 0 .. m
      BY <2>2
    <3>2. Able(g, t[i - 1]) /\ t[i] = Step(g, t[i - 1])
      BY <3>1 DEF IsRun
    <3>3. u[i] = t[i] /\ u[i - 1] = t[i - 1]
      BY <1>3, <3>1
    <3>4. QED
      BY <3>2, <3>3
  <2>3. QED
    BY <2>1, <2>2
<1>5. Starts(g, u[0])
  BY <1>2 DEF IsRun
<1>6. IsRun(g, u, m + 1)
  BY <1>4, <1>5 DEF IsRun
<1>7. QED
  BY <1>2, <1>6

\* Each run of the old function has one of the new that is where it is.
LEMMA RunsAlike ==
  ASSUME Arithmetic, NEW p, NEW A, Usable(p, A), NEW g, Became(p, g), NEW n \in Nat, NEW s, IsRun(Func(p), s, n)
  PROVE  \E m \in Nat : \E t : IsRun(g, t, m) /\ t[0] = s[0] /\ Sim(p, A, s[n], t[m])
<1> DEFINE f == Func(p)
           Tracked(k) == \E m \in Nat : \E t : IsRun(g, t, m) /\ t[0] = s[0] /\ Sim(p, A, s[k], t[m])
           D == {k \in Nat : k <= n /\ ~Tracked(k)}
<1>1. Starts(f, s[0]) /\ \A i \in 1 .. n : Able(f, s[i - 1]) /\ s[i] = Step(f, s[i - 1])
  BY DEF IsRun
<1>2. Tracked(0)
  <2>1. Given(g) = Given(f)
    <3>1. g.params = f.params /\ g.dec = f.dec
      BY DEF Became
    <3>2. QED
      BY <3>1 DEF Given
  <2>2. Starts(g, s[0])
    BY ONLY <1>1, <2>1 DEF Starts
  <2>3. IsRun(g, s, 0)
    BY <2>2 DEF IsRun
  <2>4. Sim(p, A, s[0], s[0])
    BY <1>1, StartSim
  <2>5. QED
    BY <2>3, <2>4
<1>3. ASSUME NEW k \in 1 .. n, Tracked(k - 1) PROVE Tracked(k)
  <2>1. PICK m, t : m \in Nat /\ IsRun(g, t, m) /\ t[0] = s[0] /\ Sim(p, A, s[k - 1], t[m])
    BY <1>3
  <2>2. Able(f, s[k - 1]) /\ s[k] = Step(f, s[k - 1])
    BY <1>1
  <2>3. Sim(p, A, s[k], t[m]) \/ (Able(g, t[m]) /\ Sim(p, A, s[k], Step(g, t[m])))
    BY <2>1, <2>2, StepSim
  <2>4. CASE Sim(p, A, s[k], t[m])
    BY <2>1, <2>4
  <2>5. CASE Able(g, t[m]) /\ Sim(p, A, s[k], Step(g, t[m]))
    <3>1. PICK u : IsRun(g, u, m + 1) /\ u[0] = t[0] /\ u[m + 1] = Step(g, t[m])
      BY <2>1, <2>5, RunOn
    <3>2. m + 1 \in Nat
      BY <2>1
    <3>3. QED
      BY <2>1, <2>5, <3>1, <3>2
  <2>6. QED
    BY <2>3, <2>4, <2>5
<1> HIDE DEF Tracked
<1>4. D = {}
  <2>1. SUFFICES ASSUME D # {} PROVE FALSE
    OBVIOUS
  <2>2. PICK k \in D : \A i \in D : k <= i
    <3> HIDE DEF D
    <3>1. D \in SUBSET Nat
      BY DEF D
    <3>2. QED
      BY <2>1, <3>1, LeastNat
  <2>3. k # 0
    BY <1>2
  <2>4. k \in 1 .. n /\ k - 1 \in Nat /\ k - 1 <= n /\ ~(k <= k - 1)
    BY <2>3
  <2>5. Tracked(k - 1)
    BY <2>2, <2>4
  <2>6. QED
    BY <1>3, <2>4, <2>5
<1>5. Tracked(n)
  BY <1>4
<1>6. QED
  BY <1>5 DEF Tracked

\* So a function that has been rewritten does what it did.
LEMMA BecameKeeps ==
  ASSUME Arithmetic, NEW p, NEW A, Usable(p, A), NEW g, Became(p, g)
  PROVE  Keeps(Func(p), g)
<1>1. SUFFICES ASSUME NEW n \in Nat, NEW s, IsRun(Func(p), s, n)
               PROVE  \E m \in Nat : \E t :
                        /\ IsRun(g, t, m)
                        /\ t[0] = s[0]
                        /\ t[m].world = s[n].world
                        /\ Ended(Func(p), s[n]) => Ended(g, t[m])
  BY DEF Keeps
<1>2. PICK m, t : m \in Nat /\ IsRun(g, t, m) /\ t[0] = s[0] /\ Sim(p, A, s[n], t[m])
  BY <1>1, RunsAlike
<1> DEFINE x == s[n]
           y == t[m]
<1>3. Sim(p, A, x, y)
  BY <1>2
<1> HIDE DEF x, y
<1>4. y.world = x.world
  BY <1>3 DEF Sim
<1>5. ASSUME Ended(Func(p), x) PROVE Ended(g, y)
  <2>1. x.at \in Blocks(p) /\ y.at = x.at /\ y.done = Place(p, x.at, x.done)
    BY <1>3 DEF Sim
  <2>2. x.done = Count(p, x.at) /\ Func(p).succ[x.at] = <<>>
    BY <1>5 DEF Ended, Count
  <2>3. y.done = Len(Rewritten(p, x.at))
    BY <2>1, <2>2, EndsTogether
  <2>4. QED
    BY <2>1, <2>2, <2>3 DEF Ended, Became
<1>6. QED
  BY <1>2, <1>4, <1>5 DEF x, y

-----------------------------------------------------------------------------
(* The pass. *)

\* p is what q, whose analysis is solved, has become when some of its blocks have been rewritten.
Midway(p, q) ==
  /\ DOMAIN p = DOMAIN q /\ p.queue = q.queue /\ p.f = q.f /\ p.todo = q.todo /\ p.kills = q.kills
  /\ p.in = q.in /\ p.out = q.out
  /\ DOMAIN p.funcs = DOMAIN q.funcs /\ DOMAIN Func(p) = DOMAIN Func(q)
  /\ Func(p).params = Func(q).params /\ Func(p).dec = Func(q).dec /\ Func(p).succ = Func(q).succ
  /\ Blocks(p) = Blocks(q)
  /\ \A b \in Blocks(q) :
       /\ DOMAIN Func(p).blocks[b] = DOMAIN Func(q).blocks[b]
       /\ Func(p).blocks[b].stmts = IF b < p.block THEN Rewritten(q, b) ELSE Func(q).blocks[b].stmts
  /\ p.block \in 1 .. Len(Func(q).blocks) + 1

PassInv(A, p, q) == Underway(q, A) /\ (q.queue # <<>> => p = q) /\ Midway(p, q)

\* Before the first rewriting nothing has changed.
LEMMA MidwaySelf ==
  ASSUME NEW q, NEW A, Underway(q, A)
  PROVE  Midway(q, q)
<1>1. Blocks(q) = 1 .. Len(Func(q).blocks) /\ Len(Func(q).blocks) \in Nat /\ q.block = 1
  BY BlocksAre DEF Underway, Prepared
<1>2. \A b \in Blocks(q) : ~(b < q.block)
  BY <1>1
<1>3. q.block \in 1 .. Len(Func(q).blocks) + 1
  BY <1>1
<1>4. QED
  BY <1>2, <1>3 DEF Midway

\* What a block becomes is found from the facts and from the block as it was.
LEMMA MidwayRewritten ==
  ASSUME NEW p, NEW q, Midway(p, q), NEW b, Func(p).blocks[b].stmts = Func(q).blocks[b].stmts
  PROVE  Rewritten(p, b) = Rewritten(q, b)
<1>1. Analysis(p) = Analysis(q) /\ p.kills = q.kills /\ p.in = q.in /\ p.out = q.out
  BY DEF Midway, Analysis
<1>2. Ordered(p, b) = Ordered(q, b) /\ StartFact(p, b) = StartFact(q, b)
  BY <1>1 DEF Ordered, StartFact
<1>3. Rewritings(p, b) = Rewritings(q, b)
  BY <1>1, <1>2, RewritingsIs
<1>4. QED
  BY <1>1, <1>3 DEF Rewritten

\* RewriteBlock changes the statements of the block, and moves on to the next.
LEMMA RewriteBlockIs ==
  ASSUME NEW p, Parts \subseteq DOMAIN p, p.f \in DOMAIN p.funcs,
         {"params", "dec", "blocks", "succ"} \subseteq DOMAIN Func(p),
         p.block \in Blocks(p), "stmts" \in DOMAIN Func(p).blocks[p.block]
  PROVE  LET q == RewriteBlock(p)
         IN  /\ DOMAIN q = DOMAIN p /\ q.queue = p.queue /\ q.f = p.f /\ q.todo = p.todo /\ q.kills = p.kills
             /\ q.in = p.in /\ q.out = p.out /\ q.block = p.block + 1
             /\ DOMAIN q.funcs = DOMAIN p.funcs /\ DOMAIN Func(q) = DOMAIN Func(p)
             /\ Func(q).params = Func(p).params /\ Func(q).dec = Func(p).dec /\ Func(q).succ = Func(p).succ
             /\ Blocks(q) = Blocks(p)
             /\ \A b \in Blocks(p) :
                  /\ DOMAIN Func(q).blocks[b] = DOMAIN Func(p).blocks[b]
                  /\ Func(q).blocks[b].stmts = IF b = p.block THEN Rewritten(p, b) ELSE Func(p).blocks[b].stmts
<1> DEFINE q == RewriteBlock(p)
           c == p.block
           kept == Rewritten(p, c)
           u == p.updated \/ (Analysis(p) = "live" /\ Len(kept) < Len(Func(p).blocks[c].stmts))
           new == [Func(p).blocks[c] EXCEPT !.stmts = kept]
           bs == [Func(p).blocks EXCEPT ![c] = new]
           fn == [Func(p) EXCEPT !.blocks = bs]
           fs == [p.funcs EXCEPT ![p.f] = fn]
<1>1. q = [p EXCEPT !.funcs = fs, !.block = c + 1, !.updated = u]
  BY DEF RewriteBlock, Func
<1> HIDE DEF kept
<1>2. DOMAIN new = DOMAIN Func(p).blocks[c] /\ new.stmts = kept
  OBVIOUS
<1> HIDE DEF new
<1>3. DOMAIN bs = Blocks(p) /\ bs[c] = new /\ \A b \in Blocks(p) : b # c => bs[b] = Func(p).blocks[b]
  BY DEF Blocks
<1> HIDE DEF bs
<1>4. /\ DOMAIN fn = DOMAIN Func(p) /\ fn.blocks = bs
      /\ fn.params = Func(p).params /\ fn.dec = Func(p).dec /\ fn.succ = Func(p).succ
  OBVIOUS
<1> HIDE DEF fn
<1>5. DOMAIN fs = DOMAIN p.funcs /\ fs[p.f] = fn
  OBVIOUS
<1> HIDE DEF fs, q, u
<1>6. /\ DOMAIN q = DOMAIN p /\ q.queue = p.queue /\ q.f = p.f /\ q.todo = p.todo /\ q.kills = p.kills
      /\ q.in = p.in /\ q.out = p.out /\ q.block = p.block + 1 /\ q.funcs = fs
  BY <1>1 DEF Parts
<1>7. Func(q) = fn
  BY <1>5, <1>6 DEF Func
<1>8. Blocks(q) = Blocks(p)
  BY <1>3, <1>4, <1>7 DEF Blocks
<1>9. \A b \in Blocks(p) :
        /\ DOMAIN Func(q).blocks[b] = DOMAIN Func(p).blocks[b]
        /\ Func(q).blocks[b].stmts = IF b = c THEN kept ELSE Func(p).blocks[b].stmts
  BY <1>2, <1>3, <1>4, <1>7
<1>10. QED
  BY <1>4, <1>5, <1>6, <1>7, <1>8, <1>9 DEF kept, q

\* Rewriting the next block with the same facts.
LEMMA MidwaySteps ==
  ASSUME NEW p, NEW q, NEW A, Underway(q, A), Midway(p, q), p.block \in Blocks(p)
  PROVE  Midway(RewriteBlock(p), q)
<1> DEFINE z == RewriteBlock(p)
<1>1. Prepared(q, A) /\ Ready(q) /\ Formed(Func(q))
  BY DEF Underway, Prepared
<1>2. Blocks(q) = 1 .. Len(Func(q).blocks) /\ Len(Func(q).blocks) \in Nat
  BY <1>1, BlocksAre
<1>3. p.block \in Blocks(q) /\ Blocks(p) = Blocks(q)
  BY DEF Midway
<1>4. Parts \subseteq DOMAIN p /\ p.f \in DOMAIN p.funcs
  BY <1>1 DEF Midway, Prepared, Ready
<1>5. {"params", "dec", "blocks", "succ"} \subseteq DOMAIN Func(p)
  BY <1>1 DEF Midway, Formed
<1>6. "stmts" \in DOMAIN Func(p).blocks[p.block]
  BY <1>1, <1>3 DEF Midway, Formed, Blocks
<1>7. /\ DOMAIN z = DOMAIN p /\ z.queue = p.queue /\ z.f = p.f /\ z.todo = p.todo /\ z.kills = p.kills
      /\ z.in = p.in /\ z.out = p.out /\ z.block = p.block + 1
      /\ DOMAIN z.funcs = DOMAIN p.funcs /\ DOMAIN Func(z) = DOMAIN Func(p)
      /\ Func(z).params = Func(p).params /\ Func(z).dec = Func(p).dec /\ Func(z).succ = Func(p).succ
      /\ Blocks(z) = Blocks(p)
      /\ \A b \in Blocks(p) :
           /\ DOMAIN Func(z).blocks[b] = DOMAIN Func(p).blocks[b]
           /\ Func(z).blocks[b].stmts = IF b = p.block THEN Rewritten(p, b) ELSE Func(p).blocks[b].stmts
  BY <1>3, <1>4, <1>5, <1>6, RewriteBlockIs
<1> HIDE DEF z
<1>8. Func(p).blocks[p.block].stmts = Func(q).blocks[p.block].stmts
  <2>1. ~(p.block < p.block)
    BY <1>2, <1>3
  <2>2. QED
    BY <1>3, <2>1 DEF Midway
<1>9. Rewritten(p, p.block) = Rewritten(q, p.block)
  BY <1>8, MidwayRewritten
<1>10. ASSUME NEW b \in Blocks(q)
       PROVE  /\ DOMAIN Func(z).blocks[b] = DOMAIN Func(q).blocks[b]
              /\ Func(z).blocks[b].stmts = IF b < z.block THEN Rewritten(q, b) ELSE Func(q).blocks[b].stmts
  <2>1. DOMAIN Func(z).blocks[b] = DOMAIN Func(q).blocks[b]
    BY <1>3, <1>7 DEF Midway
  <2>2. b < z.block <=> b < p.block \/ b = p.block
    BY <1>2, <1>3, <1>7
  <2>3. b = p.block => ~(b < p.block)
    BY <1>2, <1>3
  <2>4. Func(p).blocks[b].stmts = IF b < p.block THEN Rewritten(q, b) ELSE Func(q).blocks[b].stmts
    BY DEF Midway
  <2>5. QED
    BY <1>3, <1>7, <1>9, <2>1, <2>2, <2>3, <2>4
<1>11. z.block \in 1 .. Len(Func(q).blocks) + 1
  BY <1>2, <1>3, <1>7
<1>12. Midway(z, q)
  BY <1>3, <1>7, <1>10, <1>11 DEF Midway
<1>13. QED
  BY <1>12 DEF z

\* When all blocks have been rewritten the function has become what its facts make of it.
LEMMA PassDone ==
  ASSUME Arithmetic, NEW p, NEW q, NEW A, PassInv(A, p, q), p.block \notin Blocks(p), Traced(q)
  PROVE  Keeps(Func(q), Func(p))
<1>1. Underway(q, A) /\ Midway(p, q) /\ Prepared(q, A) /\ Ready(q)
  BY DEF PassInv, Underway, Prepared
<1>2. Blocks(q) = 1 .. Len(Func(q).blocks) /\ Len(Func(q).blocks) \in Nat /\ 1 \in Blocks(q)
  BY <1>1, BlocksAre DEF Prepared, Formed, Blocks
<1>3. q.queue = <<>>
  <2>1. q.block \in Blocks(q)
    BY <1>1, <1>2 DEF Underway
  <2>2. QED
    BY <2>1 DEF PassInv
<1>4. p.block = Len(Func(q).blocks) + 1
  BY <1>1, <1>2 DEF Midway
<1>5. \A b \in Blocks(q) : b < p.block
  BY <1>2, <1>4
<1>6. Became(q, Func(p))
  BY <1>1, <1>5 DEF Midway, Became
<1>7. Usable(q, A)
  BY <1>1, <1>3 DEF Usable
<1>8. QED
  BY <1>6, <1>7, BecameKeeps

\* A pass of the optimizer (lab5/Code/src/IR_optimize) preserves what a function does: for constant
\* propagation, available expressions, copy propagation and live variables, when the worklist is
\* done and RewriteBlock has been through all blocks, every run of the old function has a run of the
\* new one with the same inputs and the same world, which ends when it ends.
THEOREM PassesPreserve == Arithmetic => (PassSpec => PassKeeps)
<1> SUFFICES ASSUME Arithmetic PROVE PassSpec => PassKeeps
  OBVIOUS
<1> DEFINE Inv == \E A : PassInv(A, o, old)
<1>1. PassInit => Inv
  <2>1. SUFFICES ASSUME NEW p, NEW A, Prepared(p, A), o = Initialize(p), old = o PROVE PassInv(A, o, old)
    BY DEF PassInit
  <2>2. Underway(o, A)
    BY <2>1, UnderwayStarts
  <2>3. QED
    BY <2>1, <2>2, MidwaySelf DEF PassInv
<1>2. Inv /\ [Solve \/ Rewrite]_<<o, old>> => Inv'
  <2>1. SUFFICES ASSUME NEW A, PassInv(A, o, old), [Solve \/ Rewrite]_<<o, old>> PROVE PassInv(A, o, old)'
    OBVIOUS
  <2>2. CASE Solve
    <3>1. o.queue # <<>> /\ o' = worklistDoSolve(o) /\ old' = o'
      BY <2>2 DEF Solve, Next
    <3>2. o = old /\ Underway(o, A)
      BY <2>1, <3>1 DEF PassInv, Midway
    <3>3. Underway(o', A)
      BY <3>1, <3>2, UnderwaySteps
    <3>4. Midway(o', o')
      BY <3>3, MidwaySelf
    <3>5. QED
      BY <3>1, <3>3, <3>4 DEF PassInv
  <2>3. CASE Rewrite
    <3>1. o.queue = <<>> /\ o.block \in Blocks(o) /\ o' = RewriteBlock(o) /\ old' = old
      BY <2>3 DEF Rewrite
    <3>2. Underway(old, A) /\ Midway(o, old) /\ old.queue = <<>>
      BY <2>1, <3>1 DEF PassInv, Midway
    <3>3. Midway(o', old)
      BY <3>1, <3>2, MidwaySteps
    <3>4. PassInv(A, o', old)
      BY <3>2, <3>3 DEF PassInv
    <3>5. QED
      BY <3>1, <3>4
  <2>4. CASE UNCHANGED <<o, old>>
    BY <2>1, <2>4
  <2>5. QED
    BY <2>1, <2>2, <2>3, <2>4
<1>3. Inv => (o.block \notin Blocks(o) /\ Traced(old) => Keeps(Func(old), Func(o)))
  BY PassDone
<1>4. QED
  BY <1>1, <1>2, <1>3, PTL DEF PassSpec, PassKeeps
=============================================================================
