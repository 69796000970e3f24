-------------------------- MODULE CpuEngineProofs --------------------------
(***************************************************************************)
(* A thread of the CPU engine, for any jobs, batches, panels and hashes.   *)
(*                                                                         *)
(* The sweep is in order: what has been hashed lies before the position,   *)
(* and unless the thread was stopped everything before the position has    *)
(* been.  From the moment the flag is set, the tiles hashed are at most    *)
(* one quad and as many as the remainder of the row group's number.        *)
(***************************************************************************)
EXTENDS CpuEngine, SequenceTheorems, TLAPS

Sweeping == pc \in {"quads", "rest", "column", "panel"}

End == PanelEnd(panel_start, RowGroups)

Pairs == (0..RowGroups - 1) \X (0..ColGroups - 1)

(* The pairs that the sweep passes on its way to a position.               *)
Before(start, column, row) ==
  {y \in Pairs : \/ y[1] < start
                 \/ y[1] < PanelEnd(start, RowGroups) /\ y[2] < column
                 \/ y[2] = column /\ y[1] < row}

TypeInv ==
  /\ grid \in Grids /\ slot \in JobSpecs /\ stop \in BOOLEAN
  /\ pc \in {"top", "setup", "quads", "rest", "column", "panel", "done"}
  /\ setups \in Nat
  /\ setups > 0 => job \in JobSpecs
  /\ pc = "setup" => setups > 0
  /\ panel_start \in Nat /\ cg \in Nat /\ rg \in Nat
  /\ local \in Nat /\ attempts \in Nat /\ total \in Nat /\ late \in Nat
  /\ swept \in Seq(Nat \X Nat)

CountInv == attempts + local = total /\ (~Sweeping => local = 0)

LateInv ==
  /\ ~stop => late = 0
  /\ pc \in {"setup", "quads"} => late = 0
  /\ pc = "rest" => late <= 4 + (rg % CheckEvery)
  /\ late <= 4 + CheckEvery

PlaceInv ==
  Sweeping =>
    /\ setups > 0
    /\ panel_start < RowGroups /\ panel_start <= rg /\ rg <= End
    /\ cg < ColGroups
    /\ ~stop /\ pc \in {"column", "panel"} => rg = End
    /\ ~stop /\ pc = "panel" => cg + 1 = ColGroups

SweptInv ==
  /\ IsInjective(swept)
  /\ Sweeping => /\ Range(swept) \subseteq Before(panel_start, cg, rg)
                 /\ ~stop => Before(panel_start, cg, rg) \subseteq Range(swept)
  /\ pc = "top" /\ setups > 0 /\ ~stop => Range(swept) = Pairs

(* The matrices being swept were made under the key of the job held.       *)
SeedInv == Sweeping => a_seed = job.job_key

IndInv == TypeInv /\ CountInv /\ LateInv /\ PlaceInv /\ SweptInv /\ SeedInv

-----------------------------------------------------------------------------
(* Arithmetic and sequences.                                               *)

LEMMA DivPositive == ASSUME NEW m \in Nat, NEW h \in Nat \ {0}, h <= m PROVE m \div h \in Nat \ {0}
OBVIOUS

LEMMA ModBounded == ASSUME NEW n \in Nat, NEW d \in Nat \ {0} PROVE n % d \in 0..d - 1
OBVIOUS

LEMMA ModCounts ==
  ASSUME NEW n \in Nat, NEW d \in Nat \ {0}, (n + 1) % d # 0
  PROVE  (n + 1) % d = (n % d) + 1
<1>1. ASSUME NEW x \in Nat
      PROVE  x % d \in 0..d - 1 /\ x \div d \in Nat /\ x = (d * (x \div d)) + (x % d)
  OBVIOUS
<1>2. PICK q, r, p, s : q = n \div d /\ r = n % d /\ p = (n + 1) \div d /\ s = (n + 1) % d
  OBVIOUS
<1>3. /\ r \in 0..d - 1 /\ q \in Nat /\ n = d * q + r
      /\ s \in 1..d - 1 /\ p \in Nat /\ n + 1 = d * p + s
  BY <1>1, <1>2
<1>4. PICK e \in Int : e = p - q
  BY <1>3
<1>5. d * e = d * p - d * q
  BY <1>3, <1>4
<1>6. d * e = r + 1 - s
  BY <1>3, <1>5
<1>7. e >= 1 => d * e >= d
  BY <1>4
<1>8. e <= -1 => d * e <= -d
  BY <1>4
<1>9. e = 0
  BY <1>3, <1>4, <1>6, <1>7, <1>8
<1>10. d * e = 0
  BY <1>4, <1>9
<1>11. s = r + 1
  BY <1>3, <1>6, <1>10
<1> QED BY <1>2, <1>11

(* One sequence behind another with which it has nothing in common.        *)
LEMMA AppendApart ==
  ASSUME NEW S, NEW s \in Seq(S), NEW u \in Seq(S), IsInjective(s), IsInjective(u),
         \A y \in Range(u) : y \notin Range(s)
  PROVE  s \o u \in Seq(S) /\ IsInjective(s \o u) /\ Range(s \o u) = Range(s) \cup Range(u)
<1>1. PICK t : t = s \o u
  OBVIOUS
<1>2. /\ t \in Seq(S) /\ Len(t) = Len(s) + Len(u)
      /\ \A i \in 1..Len(s) + Len(u) : t[i] = IF i <= Len(s) THEN s[i] ELSE u[i - Len(s)]
  BY <1>1, ConcatProperties
<1>3. /\ Len(s) \in Nat /\ DOMAIN s = 1..Len(s) /\ Len(u) \in Nat /\ DOMAIN u = 1..Len(u)
      /\ DOMAIN t = 1..Len(s) + Len(u)
  BY <1>2
<1>4. \A i \in 1..Len(s) : t[i] = s[i] /\ s[i] \in Range(s)
  BY <1>2, <1>3 DEF Range
<1>5. ASSUME NEW i \in 1..Len(s) + Len(u), i \notin 1..Len(s)
      PROVE  i - Len(s) \in 1..Len(u) /\ t[i] = u[i - Len(s)] /\ t[i] \in Range(u)
  <2>1. i - Len(s) \in 1..Len(u) /\ t[i] = u[i - Len(s)]
    BY <1>2, <1>3, <1>5
  <2> QED BY <1>3, <2>1 DEF Range
<1>6. IsInjective(t)
  <2> SUFFICES ASSUME NEW i \in 1..Len(s) + Len(u), NEW j \in 1..Len(s) + Len(u), t[i] = t[j] PROVE i = j
    BY <1>3 DEF IsInjective
  <2>1. CASE i \in 1..Len(s) /\ j \in 1..Len(s)
    BY <1>3, <1>4, <2>1 DEF IsInjective
  <2>2. CASE i \in 1..Len(s) /\ j \notin 1..Len(s)
    BY <1>4, <1>5, <2>2
  <2>3. CASE i \notin 1..Len(s) /\ j \in 1..Len(s)
    BY <1>4, <1>5, <2>3
  <2>4. CASE i \notin 1..Len(s) /\ j \notin 1..Len(s)
    <3>1. i - Len(s) = j - Len(s)
      BY <1>3, <1>5, <2>4 DEF IsInjective
    <3> QED BY <1>3, <3>1
  <2> QED BY <2>1, <2>2, <2>3, <2>4
<1>7. Range(t) = Range(s) \cup Range(u)
  BY <1>1, RangeConcatenation
<1> QED BY <1>1, <1>2, <1>6, <1>7

(* There is a group of either kind, and a panel has at least one.          *)
LEMMA Dimensions ==
  ASSUME NEW g \in Grids, NEW j \in JobSpecs
  PROVE  /\ g.m_batch \div j.h \in Nat \ {0} /\ g.n_batch \div j.w \in Nat \ {0}
         /\ g.panel_rg \in Nat \ {0}
<1>1. /\ g.m_batch \in Nat \ {0} /\ g.n_batch \in Nat \ {0} /\ g.panel_rg \in Nat \ {0}
      /\ j.h \in 1..g.m_batch /\ j.w \in 1..g.n_batch
  BY EngineAssumption
<1>2. j.h \in Nat \ {0} /\ j.w \in Nat \ {0} /\ j.h <= g.m_batch /\ j.w <= g.n_batch
  BY <1>1
<1> QED BY <1>1, <1>2, DivPositive

LEMMA Panels ==
  ASSUME TypeInv, setups > 0
  PROVE  /\ RowGroups \in Nat \ {0} /\ ColGroups \in Nat \ {0} /\ grid.panel_rg \in Nat \ {0}
         /\ \A start \in Nat :
              /\ PanelEnd(start, RowGroups) \in Nat
              /\ start < RowGroups => start < PanelEnd(start, RowGroups)
              /\ PanelEnd(start, RowGroups) <= RowGroups
              /\ start + grid.panel_rg < RowGroups => PanelEnd(start, RowGroups) = start + grid.panel_rg
              /\ ~(start + grid.panel_rg < RowGroups) => PanelEnd(start, RowGroups) = RowGroups
<1>1. job \in JobSpecs /\ grid \in Grids
  BY DEF TypeInv
<1>2. RowGroups \in Nat \ {0} /\ ColGroups \in Nat \ {0} /\ grid.panel_rg \in Nat \ {0}
  BY <1>1, Dimensions DEF RowGroups, ColGroups
<1> QED BY <1>2 DEF PanelEnd

-----------------------------------------------------------------------------
(* Steps.                                                                  *)

LEMMA InitInv == EngineInit => IndInv
<1> SUFFICES ASSUME EngineInit PROVE IndInv
  OBVIOUS
<1>1. TypeInv /\ ~Sweeping /\ setups = 0
  <2>1. swept \in Seq(Nat \X Nat)
    BY DEF EngineInit
  <2>2. setups = 0 /\ pc = "top"
    BY DEF EngineInit
  <2>3. /\ panel_start \in Nat /\ cg \in Nat /\ rg \in Nat
        /\ local \in Nat /\ attempts \in Nat /\ total \in Nat /\ late \in Nat
    BY DEF EngineInit
  <2>4. grid \in Grids /\ slot \in JobSpecs /\ stop \in BOOLEAN
    BY DEF EngineInit
  <2> QED BY <2>1, <2>2, <2>3, <2>4 DEF TypeInv, Sweeping
<1>2. LateInv /\ CountInv
  BY <1>1, EngineAssumption DEF EngineInit, LateInv, CountInv
<1>3. IsInjective(swept)
  BY DEF EngineInit, IsInjective
<1> QED BY <1>1, <1>2, <1>3 DEF IndInv, PlaceInv, SweptInv, SeedInv

(* Nothing of the sweep depends on the slot, and setting the flag only     *)
(* asks for less.                                                          *)
LEMMA PoolInv ==
  ASSUME IndInv, (\E j \in JobSpecs : Publish(j)) \/ Halt PROVE IndInv'
<1>1. /\ slot' \in JobSpecs /\ stop' \in BOOLEAN /\ (stop => stop')
      /\ UNCHANGED <<grid, pc, job, setups, position, local, a_seed, attempts, swept, total, late>>
  BY DEF IndInv, TypeInv, Publish, Halt
<1>2. TypeInv' /\ CountInv' /\ LateInv'
  BY <1>1 DEF IndInv, TypeInv, CountInv, LateInv, Sweeping, position
<1>3. /\ Sweeping' <=> Sweeping
      /\ RowGroups' = RowGroups /\ ColGroups' = ColGroups /\ End' = End /\ Pairs' = Pairs
      /\ Before(panel_start, cg, rg)' = Before(panel_start, cg, rg)
  BY <1>1 DEF Sweeping, RowGroups, ColGroups, End, PanelEnd, Pairs, Before, position
<1>4. PlaceInv'
  BY <1>1, <1>3 DEF IndInv, PlaceInv, position
<1>5. SweptInv' /\ SeedInv'
  BY <1>1, <1>3 DEF IndInv, SweptInv, SeedInv
<1> QED BY <1>2, <1>4, <1>5 DEF IndInv

(* Nothing is swept yet with the job just adopted.                         *)
LEMMA AdoptInv == ASSUME IndInv, Adopt PROVE IndInv'
<1>1. /\ ~Sweeping /\ ~Sweeping' /\ ~stop /\ pc' = "setup" /\ setups' = setups + 1 /\ job' = slot
      /\ UNCHANGED <<grid, slot, stop, position, local, a_seed, attempts, swept, total, late>>
  BY DEF Adopt, Silent, Sweeping
<1>2. TypeInv'
  BY <1>1 DEF IndInv, TypeInv, position
<1>3. CountInv' /\ LateInv'
  BY <1>1 DEF IndInv, CountInv, LateInv, position
<1>4. PlaceInv' /\ SweptInv' /\ SeedInv'
  BY <1>1 DEF IndInv, PlaceInv, SweptInv, SeedInv
<1> QED BY <1>2, <1>3, <1>4 DEF IndInv

(* A sweep starts with nothing before it.                                  *)
LEMMA PrepareInv == ASSUME IndInv, Prepare PROVE IndInv'
<1>1. TypeInv'
  BY DEF IndInv, TypeInv, Prepare, Silent
<1>2. CountInv' /\ LateInv'
  BY <1>1 DEF IndInv, TypeInv, CountInv, LateInv, Sweeping, Prepare, Silent
<1>3. setups' > 0 /\ Sweeping'
  BY DEF IndInv, TypeInv, Prepare, Sweeping
<1>4. PICK rows, cols : rows = RowGroups' /\ cols = ColGroups'
  OBVIOUS
<1>5. rows \in Nat \ {0} /\ cols \in Nat \ {0} /\ grid'.panel_rg \in Nat \ {0}
  <2>1. job' \in JobSpecs /\ grid' \in Grids
    BY <1>1, <1>3 DEF TypeInv
  <2> QED BY <1>4, <2>1, Dimensions DEF RowGroups, ColGroups
<1>6. End' \in Nat /\ 0 < End' /\ panel_start' = 0 /\ cg' = 0 /\ rg' = 0 /\ swept' = <<>> /\ pc' = "quads"
  BY <1>4, <1>5 DEF End, PanelEnd, Prepare
<1>7. PlaceInv'
  BY <1>3, <1>4, <1>5, <1>6 DEF PlaceInv
<1>8. Range(swept') = {} /\ IsInjective(swept')
  BY <1>6 DEF Range, IsInjective
<1>9. Before(panel_start, cg, rg)' = {}
  <2> SUFFICES ASSUME NEW y \in (0..rows - 1) \X (0..cols - 1),
                      y[1] < 0 \/ y[2] < 0 \/ (y[2] = 0 /\ y[1] < 0)
               PROVE  FALSE
    BY <1>4, <1>6 DEF Before, Pairs
  <2>1. y[1] \in 0..rows - 1 /\ y[2] \in 0..cols - 1
    OBVIOUS
  <2> QED BY <1>5, <2>1
<1>10. SeedInv'
  BY DEF Prepare, SeedInv
<1> QED BY <1>1, <1>2, <1>6, <1>7, <1>8, <1>9, <1>10 DEF IndInv, SweptInv

(* n tiles of the row groups left in the panel.                            *)
LEMMA HashedInv ==
  ASSUME IndInv, Sweeping, pc' \in {"quads", "rest", "column"}, NEW n \in Nat \ {0}, NEW hashes,
         Hashed(n, hashes), rg + n <= End, pc' = "column" => stop,
         UNCHANGED <<grid, slot, stop, job, setups, panel_start, cg, attempts>>
  PROVE  TypeInv' /\ CountInv' /\ PlaceInv' /\ SweptInv'
<1>1. PICK rows, cols, e : rows = RowGroups /\ cols = ColGroups /\ e = End
  OBVIOUS
<1>2. /\ setups > 0 /\ panel_start < rows /\ panel_start <= rg /\ rg <= e /\ cg < cols
      /\ panel_start \in Nat /\ cg \in Nat /\ rg \in Nat
  BY <1>1 DEF IndInv, TypeInv, PlaceInv
<1>3. rows \in Nat \ {0} /\ cols \in Nat \ {0} /\ e \in Nat /\ e <= rows
  BY <1>1, <1>2, Panels DEF IndInv, End
<1>4. rg' = rg + n /\ Sweeping' /\ RowGroups' = rows /\ ColGroups' = cols /\ End' = e
  BY <1>1 DEF Hashed, Sweeping, RowGroups, ColGroups, End, PanelEnd
<1>5. \A y : y \in Before(panel_start, cg, rg) <=>
              /\ y \in (0..rows - 1) \X (0..cols - 1)
              /\ y[1] < panel_start \/ (y[1] < e /\ y[2] < cg) \/ (y[2] = cg /\ y[1] < rg)
  BY <1>1 DEF Before, Pairs, End
<1>6. \A y : y \in Before(panel_start, cg, rg)' <=>
              /\ y \in (0..rows - 1) \X (0..cols - 1)
              /\ y[1] < panel_start \/ (y[1] < e /\ y[2] < cg) \/ (y[2] = cg /\ y[1] < rg + n)
  BY <1>1, <1>4 DEF Before, Pairs, End
<1>7. /\ swept' \in Seq(Nat \X Nat) /\ IsInjective(swept')
      /\ \A y : y \in Range(swept') <=> y \in Range(swept) \/ \E x \in 1..n : y = <<rg + x - 1, cg>>
  <2>1. \A x \in 1..n : <<rg + x - 1, cg>> \notin Range(swept)
    <3> SUFFICES ASSUME NEW x \in 1..n PROVE <<rg + x - 1, cg>> \notin Before(panel_start, cg, rg)
      BY DEF IndInv, SweptInv
    <3>1. PICK l \in Nat : l = rg + x - 1 /\ l >= rg
      BY <1>2
    <3>2. ~(l < panel_start \/ (l < e /\ cg < cg) \/ (cg = cg /\ l < rg))
      BY <1>2, <3>1
    <3> QED BY <1>5, <3>1, <3>2
  <2>2. PICK u : u = [x \in 1..n |-> <<rg + x - 1, cg>>] /\ swept' = swept \o u
    BY DEF Hashed
  <2>3. /\ u \in Seq(Nat \X Nat) /\ DOMAIN u = 1..n
        /\ \A x \in 1..n : u[x] = <<rg + x - 1, cg>>
    BY <1>2, <2>2
  <2>4. IsInjective(u)
    <3> SUFFICES ASSUME NEW x \in 1..n, NEW y \in 1..n, u[x] = u[y] PROVE x = y
      BY <2>3 DEF IsInjective
    <3>1. rg + x - 1 = rg + y - 1
      BY <2>3
    <3> QED BY <1>2, <3>1
  <2>5. \A y : y \in Range(u) <=> \E x \in 1..n : y = <<rg + x - 1, cg>>
    BY <2>3 DEF Range
  <2>6. \A y \in Range(u) : y \notin Range(swept)
    BY <2>1, <2>5
  <2>7. swept \in Seq(Nat \X Nat) /\ IsInjective(swept)
    BY DEF IndInv, TypeInv, SweptInv
  <2>8. PICK s : s = swept
    OBVIOUS
  <2>9. s \o u \in Seq(Nat \X Nat) /\ IsInjective(s \o u) /\ Range(s \o u) = Range(s) \cup Range(u)
    <3>1. s \in Seq(Nat \X Nat) /\ IsInjective(s) /\ \A y \in Range(u) : y \notin Range(s)
      BY <2>6, <2>7, <2>8
    <3>2. u \in Seq(Nat \X Nat)
      BY <2>3
    <3> QED BY <2>4, <3>1, <3>2, AppendApart
  <2> QED BY <2>2, <2>5, <2>8, <2>9
<1>8. TypeInv' /\ CountInv'
  BY <1>4, <1>7 DEF IndInv, TypeInv, CountInv, Hashed, Sweeping
<1>9. PlaceInv'
  BY <1>1, <1>2, <1>3, <1>4 DEF PlaceInv
<1>10. Range(swept)' \subseteq Before(panel_start, cg, rg)'
  <2>1. ASSUME NEW y \in Range(swept) PROVE y \in Before(panel_start, cg, rg)'
    <3>1. y \in Before(panel_start, cg, rg)
      BY DEF IndInv, SweptInv
    <3>2. y[1] \in Nat /\ (y[1] < rg => y[1] < rg + n)
      BY <1>2, <1>3, <1>5, <3>1
    <3> QED BY <1>5, <1>6, <3>1, <3>2
  <2>2. ASSUME NEW x \in 1..n PROVE <<rg + x - 1, cg>> \in Before(panel_start, cg, rg)'
    <3>1. PICK l \in Nat : l = rg + x - 1 /\ l < rg + n /\ l \in 0..rows - 1 /\ cg \in 0..cols - 1
      BY <1>1, <1>2, <1>3
    <3> QED BY <1>6, <3>1
  <2> QED BY <1>7, <2>1, <2>2
<1>11. ASSUME ~stop PROVE Before(panel_start, cg, rg)' \subseteq Range(swept)'
  <2> SUFFICES ASSUME NEW y \in Before(panel_start, cg, rg)', y \notin Before(panel_start, cg, rg)
               PROVE  \E x \in 1..n : y = <<rg + x - 1, cg>>
    BY <1>7, <1>11 DEF IndInv, SweptInv
  <2>1. y \in (0..rows - 1) \X (0..cols - 1) /\ y[2] = cg /\ ~(y[1] < rg) /\ y[1] < rg + n
    BY <1>5, <1>6
  <2>2. PICK l \in Nat : l = y[1] /\ y = <<l, cg>> /\ l >= rg /\ l < rg + n
    BY <1>2, <1>3, <2>1
  <2>3. l - rg + 1 \in 1..n /\ rg + (l - rg + 1) - 1 = l
    BY <1>2, <2>2
  <2> QED BY <2>2, <2>3
<1>12. SweptInv'
  BY <1>7, <1>10, <1>11 DEF SweptInv
<1> QED BY <1>8, <1>9, <1>12

(* A quad only follows one that was hashed before the flag was set.        *)
LEMMA QuadsInv == ASSUME IndInv, NEW hashes, Quads(hashes) PROVE IndInv'
<1>1. /\ Sweeping /\ pc' \in {"quads", "rest", "column"} /\ pc' # "column" /\ Hashed(4, hashes) /\ rg + 4 <= End
      /\ UNCHANGED <<grid, slot, stop, job, setups, panel_start, cg, a_seed, attempts>>
  BY DEF Quads, QuadFits, Sweeping, End
<1>2. TypeInv' /\ CountInv' /\ PlaceInv' /\ SweptInv'
  BY <1>1, HashedInv
<1>3. /\ late = 0 /\ late' = (IF stop THEN 4 ELSE 0) /\ stop' = stop
      /\ pc' = IF stop THEN "rest" ELSE "quads"
  BY DEF IndInv, LateInv, Quads, Hashed
<1>4. rg' % CheckEvery \in Nat /\ CheckEvery \in Nat \ {0}
  <2>1. rg' \in Nat /\ CheckEvery \in Nat \ {0}
    BY <1>2, EngineAssumption DEF TypeInv
  <2>2. \A x \in Nat : x % CheckEvery \in Nat
    BY <2>1, ModBounded
  <2> QED BY <2>1, <2>2
<1>5. LateInv'
  BY <1>3, <1>4 DEF LateInv
<1>6. SeedInv'
  BY <1>1 DEF IndInv, SeedInv
<1> QED BY <1>2, <1>5, <1>6 DEF IndInv

(* What is hashed after the flag is set goes with the remainder: it ends   *)
(* where that becomes 0.                                                   *)
LEMMA RestInv == ASSUME IndInv, NEW hash, Rest({hash}) PROVE IndInv'
<1>1. /\ Sweeping /\ pc = "rest" /\ Hashed(1, {hash}) /\ rg < End
      /\ UNCHANGED <<grid, slot, stop, job, setups, panel_start, cg, a_seed, attempts>>
      /\ pc' = IF (rg + 1) % CheckEvery = 0 /\ stop THEN "column" ELSE "rest"
  BY DEF Rest, LooksAfter, Sweeping, End
<1>2. rg + 1 <= End
  <2>1. rg \in Nat /\ End \in Nat
    BY <1>1, Panels DEF IndInv, TypeInv, PlaceInv, End
  <2> QED BY <1>1, <2>1
<1>3. TypeInv' /\ CountInv' /\ PlaceInv' /\ SweptInv'
  <2>1. pc' \in {"quads", "rest", "column"} /\ (pc' = "column" => stop)
    BY <1>1
  <2> QED BY <1>1, <1>2, <2>1, HashedInv
<1>4. rg' = rg + 1 /\ late' = (IF stop THEN late + 1 ELSE late) /\ stop' = stop
  BY <1>1 DEF Hashed
<1>5. rg \in Nat /\ late \in Nat /\ CheckEvery \in Nat \ {0}
  BY EngineAssumption DEF IndInv, TypeInv
<1>6. rg % CheckEvery \in 0..CheckEvery - 1 /\ (rg + 1) % CheckEvery \in 0..CheckEvery - 1
  BY <1>5, ModBounded
<1>7. (rg + 1) % CheckEvery # 0 => (rg + 1) % CheckEvery = (rg % CheckEvery) + 1
  BY <1>5, ModCounts
<1>8. late <= 4 + (rg % CheckEvery) /\ (~stop => late = 0)
  BY <1>1 DEF IndInv, LateInv
<1>9. LateInv'
  <2> DEFINE now == rg % CheckEvery
             next == (rg + 1) % CheckEvery
  <2>1. now \in 0..CheckEvery - 1 /\ next \in 0..CheckEvery - 1 /\ (next # 0 => next = now + 1) /\ late <= 4 + now
    BY <1>6, <1>7, <1>8
  <2>2. rg' % CheckEvery = next /\ pc' = IF next = 0 /\ stop THEN "column" ELSE "rest"
    BY <1>1, <1>4
  <2> HIDE DEF now, next
  <2> QED BY <1>4, <1>5, <1>8, <2>1, <2>2 DEF LateInv
<1>10. SeedInv'
  BY <1>1 DEF IndInv, SeedInv
<1> QED BY <1>3, <1>9, <1>10 DEF IndInv

LEMMA DoneInv == ASSUME IndInv, Quit \/ QuadsDone \/ RestDone PROVE IndInv'
<1>1. /\ UNCHANGED <<grid, slot, stop, job, setups, position, local, a_seed, attempts, swept, total, late>>
      /\ \/ pc = "top" /\ pc' = "done" /\ stop
         \/ pc = "quads" /\ pc' = "rest"
         \/ pc = "rest" /\ pc' = "column" /\ rg >= End
  BY DEF Quit, QuadsDone, RestDone, Silent, End
<1>2. rg \in Nat /\ CheckEvery \in Nat \ {0} /\ rg % CheckEvery \in Nat
  BY ModBounded, EngineAssumption DEF IndInv, TypeInv
<1>3. TypeInv' /\ CountInv'
  BY <1>1 DEF IndInv, TypeInv, CountInv, Sweeping, position
<1>4. LateInv'
  BY <1>1, <1>2 DEF IndInv, LateInv, position
<1>5. /\ Sweeping' <=> Sweeping
      /\ RowGroups' = RowGroups /\ ColGroups' = ColGroups /\ End' = End
      /\ Before(panel_start, cg, rg)' = Before(panel_start, cg, rg)
  BY <1>1 DEF Sweeping, RowGroups, ColGroups, End, PanelEnd, Pairs, Before, position
<1>6. PlaceInv'
  <2> SUFFICES ASSUME Sweeping PROVE PlaceInv'
    BY <1>5 DEF PlaceInv
  <2>1. End \in Nat
    BY Panels DEF IndInv, TypeInv, PlaceInv, End
  <2> QED BY <1>1, <1>2, <1>5, <2>1 DEF IndInv, PlaceInv, position
<1>7. SweptInv' /\ SeedInv'
  BY <1>1, <1>5 DEF IndInv, SweptInv, SeedInv
<1> QED BY <1>3, <1>4, <1>6, <1>7 DEF IndInv

(* The pairs before the head of a column, or of a panel, are those before  *)
(* the end of the one before it.                                           *)
LEMMA BeforeColumn ==
  ASSUME TypeInv, PlaceInv, Sweeping, rg = End
  PROVE  Before(panel_start, cg + 1, panel_start) = Before(panel_start, cg, rg)
<1>1. PICK rows, cols, e : rows = RowGroups /\ cols = ColGroups /\ e = End
  OBVIOUS
<1>2. rows \in Nat /\ cols \in Nat /\ e \in Nat /\ panel_start \in Nat /\ cg \in Nat /\ panel_start <= e
  BY <1>1, Panels DEF TypeInv, PlaceInv, End
<1>3. \A y : y \in Pairs => y[1] \in Nat /\ y[2] \in Nat
  BY <1>1, <1>2 DEF Pairs
<1>4. ASSUME NEW x \in Nat, NEW z \in Nat
      PROVE  (x < panel_start \/ (x < e /\ z < cg + 1) \/ (z = cg + 1 /\ x < panel_start))
               <=> (x < panel_start \/ (x < e /\ z < cg) \/ (z = cg /\ x < e))
  BY <1>2
<1> QED BY <1>1, <1>3, <1>4 DEF Before, End

LEMMA BeforePanel ==
  ASSUME TypeInv, PlaceInv, Sweeping, rg = End, cg + 1 = ColGroups
  PROVE  /\ panel_start + grid.panel_rg < RowGroups =>
              Before(panel_start + grid.panel_rg, 0, panel_start + grid.panel_rg) = Before(panel_start, cg, rg)
         /\ ~(panel_start + grid.panel_rg < RowGroups) => Before(panel_start, cg, rg) = Pairs
<1>1. PICK rows, cols, e, next : /\ rows = RowGroups /\ cols = ColGroups /\ e = End
                                 /\ next = panel_start + grid.panel_rg
  OBVIOUS
<1>2. /\ rows \in Nat /\ cols \in Nat /\ e \in Nat /\ panel_start \in Nat /\ cg \in Nat /\ next \in Nat
      /\ panel_start <= e
      /\ next < rows => e = next
      /\ ~(next < rows) => e = rows
  <2>1. setups > 0 /\ panel_start \in Nat /\ cg \in Nat /\ panel_start <= e
    BY <1>1 DEF TypeInv, PlaceInv
  <2>2. rows \in Nat /\ cols \in Nat /\ e \in Nat /\ next \in Nat
    BY <1>1, <2>1, Panels DEF End
  <2>3. (next < rows => e = next) /\ (~(next < rows) => e = rows)
    BY <1>1, <2>1, Panels DEF End
  <2> QED BY <2>1, <2>2, <2>3
<1>3. \A y : y \in Pairs => y[1] \in 0..rows - 1 /\ y[2] \in 0..cols - 1
  BY <1>1, <1>2 DEF Pairs
<1>4. ASSUME NEW y \in Pairs
      PROVE  (y[1] < panel_start \/ (y[1] < e /\ y[2] < cg) \/ (y[2] = cg /\ y[1] < e)) <=> y[1] < e
  <2>1. PICK x \in Nat, z \in Nat : x = y[1] /\ z = y[2] /\ z <= cg
    BY <1>1, <1>2, <1>3
  <2>2. (x < panel_start \/ (x < e /\ z < cg) \/ (z = cg /\ x < e)) <=> x < e
    BY <1>2, <2>1
  <2> QED BY <2>1, <2>2
<1>5. Before(panel_start, cg, rg) = {y \in Pairs : y[1] < e}
  BY <1>1, <1>4 DEF Before, End
<1>6. ASSUME next < rows PROVE Before(next, 0, next) = {y \in Pairs : y[1] < e}
  <2>1. \A y \in Pairs : (y[1] < next \/ (y[1] < PanelEnd(next, RowGroups) /\ y[2] < 0)
                            \/ (y[2] = 0 /\ y[1] < next)) <=> y[1] < e
    <3> SUFFICES ASSUME NEW y \in Pairs PROVE ~(y[2] < 0) /\ e = next
      OBVIOUS
    <3> QED BY <1>2, <1>3, <1>6
  <2> QED BY <2>1 DEF Before
<1>7. ASSUME ~(next < rows) PROVE Pairs = {y \in Pairs : y[1] < e}
  BY <1>2, <1>3, <1>7
<1> QED BY <1>1, <1>5, <1>6, <1>7

LEMMA ColumnInv == ASSUME IndInv, Column PROVE IndInv'
<1>1. /\ Sweeping /\ Sweeping' /\ pc = "column"
      /\ attempts' = attempts + local /\ local' = 0
      /\ UNCHANGED <<grid, slot, stop, job, setups, panel_start, a_seed, swept, total, late>>
      /\ \/ ~stop /\ cg + 1 < ColGroups /\ pc' = "quads" /\ cg' = cg + 1 /\ rg' = panel_start
         \/ ~(~stop /\ cg + 1 < ColGroups) /\ pc' = "panel" /\ cg' = cg /\ rg' = rg
  BY DEF Column, Silent, Sweeping
<1>2. TypeInv' /\ CountInv'
  BY <1>1 DEF IndInv, TypeInv, CountInv
<1>3. LateInv'
  BY <1>1 DEF IndInv, LateInv
<1>4. /\ RowGroups' = RowGroups /\ ColGroups' = ColGroups /\ End' = End
      /\ Before(panel_start, cg, rg)' = Before(panel_start, cg', rg')
  BY <1>1 DEF RowGroups, ColGroups, End, PanelEnd, Pairs, Before
<1>5. /\ setups > 0 /\ panel_start < RowGroups /\ panel_start <= rg /\ rg <= End /\ cg < ColGroups
      /\ panel_start \in Nat /\ cg \in Nat /\ rg \in Nat
      /\ ~stop => rg = End
  BY <1>1 DEF IndInv, TypeInv, PlaceInv
<1>6. RowGroups \in Nat /\ ColGroups \in Nat /\ End \in Nat
  BY <1>5, Panels DEF IndInv, End
<1>7. PlaceInv'
  BY <1>1, <1>4, <1>5, <1>6 DEF PlaceInv
<1>8. Before(panel_start, cg, rg)' = Before(panel_start, cg, rg)
  BY <1>1, <1>4, <1>5, BeforeColumn DEF IndInv
<1>9. SweptInv' /\ SeedInv'
  BY <1>1, <1>8 DEF IndInv, SweptInv, SeedInv
<1> QED BY <1>2, <1>3, <1>7, <1>9 DEF IndInv

LEMMA PanelInv == ASSUME IndInv, Panel PROVE IndInv'
<1> DEFINE next == panel_start + grid.panel_rg
<1>1. /\ Sweeping /\ pc = "panel"
      /\ attempts' = attempts + local /\ local' = 0
      /\ UNCHANGED <<grid, slot, stop, job, setups, a_seed, swept, total, late>>
      /\ \/ ~stop /\ next < RowGroups /\ pc' = "quads" /\ panel_start' = next /\ cg' = 0 /\ rg' = next
         \/ /\ ~(~stop /\ next < RowGroups) /\ pc' = "top"
            /\ panel_start' = panel_start /\ cg' = cg /\ rg' = rg
  BY DEF Panel, Silent, Sweeping, position
<1>2. /\ RowGroups \in Nat \ {0} /\ ColGroups \in Nat \ {0} /\ next \in Nat /\ End \in Nat
      /\ PanelEnd(next, RowGroups) \in Nat
      /\ next < RowGroups => next < PanelEnd(next, RowGroups)
  <2>1. setups > 0 /\ panel_start \in Nat
    BY <1>1 DEF IndInv, TypeInv, PlaceInv
  <2>2. next \in Nat
    BY <2>1, Panels DEF IndInv
  <2> QED BY <2>1, <2>2, Panels DEF IndInv, End
<1>3. TypeInv'
  BY <1>1, <1>2 DEF IndInv, TypeInv
<1>4. CountInv' /\ LateInv'
  BY <1>1 DEF IndInv, TypeInv, CountInv, LateInv, Sweeping
<1>5. /\ RowGroups' = RowGroups /\ ColGroups' = ColGroups /\ Pairs' = Pairs
      /\ End' = PanelEnd(panel_start', RowGroups)
      /\ Before(panel_start, cg, rg)' = Before(panel_start', cg', rg')
  BY <1>1 DEF RowGroups, ColGroups, End, PanelEnd, Pairs, Before
<1>6. PlaceInv'
  <2>1. CASE pc' = "top"
    BY <2>1 DEF PlaceInv, Sweeping
  <2>2. CASE pc' = "quads"
    <3>1. ~stop /\ next < RowGroups /\ panel_start' = next /\ cg' = 0 /\ rg' = next /\ setups' = setups
      BY <1>1, <2>2
    <3>2. setups > 0
      BY <1>1 DEF IndInv, PlaceInv
    <3> QED BY <1>2, <1>5, <2>2, <3>1, <3>2 DEF PlaceInv
  <2> QED BY <1>1, <2>1, <2>2
<1>7. ~stop => rg = End /\ cg + 1 = ColGroups
  BY <1>1 DEF IndInv, PlaceInv
<1>8. ASSUME ~stop
      PROVE  /\ Range(swept) = Before(panel_start, cg, rg)
             /\ next < RowGroups => Before(next, 0, next) = Before(panel_start, cg, rg)
             /\ ~(next < RowGroups) => Before(panel_start, cg, rg) = Pairs
  BY <1>1, <1>7, <1>8, BeforePanel DEF IndInv, SweptInv
<1>9. SweptInv'
  <2>1. CASE ~stop /\ next < RowGroups
    BY <1>1, <1>5, <1>8, <2>1 DEF IndInv, SweptInv, Sweeping
  <2>2. CASE ~stop /\ ~(next < RowGroups)
    BY <1>1, <1>5, <1>8, <2>2 DEF IndInv, SweptInv, Sweeping
  <2>3. CASE stop
    BY <1>1, <2>3 DEF IndInv, SweptInv, Sweeping
  <2> QED BY <2>1, <2>2, <2>3
<1>10. SeedInv'
  BY <1>1 DEF IndInv, SeedInv
<1> QED BY <1>3, <1>4, <1>6, <1>9, <1>10 DEF IndInv

LEMMA NextInv == IndInv /\ [EngineNext]_engineVars => IndInv'
<1> SUFFICES ASSUME IndInv, [EngineNext]_engineVars PROVE IndInv'
  OBVIOUS
<1>1. CASE (\E j \in JobSpecs : Publish(j)) \/ Halt
  BY <1>1, PoolInv
<1>2. CASE Prepare
  BY <1>2, PrepareInv
<1>9. CASE Adopt
  BY <1>9, AdoptInv
<1>3. CASE Quit \/ QuadsDone \/ RestDone
  BY <1>3, DoneInv
<1>4. CASE Column
  BY <1>4, ColumnInv
<1>5. CASE Panel
  BY <1>5, PanelInv
<1>6. CASE \E hashes \in SUBSET Hashes \ {{}} : Quads(hashes)
  BY <1>6, QuadsInv
<1>7. CASE \E hash \in Hashes : Rest({hash})
  BY <1>7, RestInv
<1>8. CASE UNCHANGED engineVars
  <2>1. UNCHANGED <<grid, slot, stop, pc, job, setups, panel_start, cg, rg, local, a_seed, attempts, swept, total, late>>
    BY <1>8 DEF engineVars, position
  <2>2. TypeInv' /\ CountInv' /\ LateInv'
    BY <2>1 DEF IndInv, TypeInv, CountInv, LateInv, Sweeping
  <2>3. /\ Sweeping' <=> Sweeping
        /\ RowGroups' = RowGroups /\ ColGroups' = ColGroups /\ End' = End /\ Pairs' = Pairs
        /\ Before(panel_start, cg, rg)' = Before(panel_start, cg, rg)
    BY <2>1 DEF Sweeping, RowGroups, ColGroups, End, PanelEnd, Pairs, Before
  <2>4. PlaceInv' /\ SweptInv' /\ SeedInv'
    BY <2>1, <2>3 DEF IndInv, PlaceInv, SweptInv, SeedInv
  <2> QED BY <2>2, <2>4 DEF IndInv
<1> QED BY <1>1, <1>2, <1>3, <1>4, <1>5, <1>6, <1>7, <1>8, <1>9 DEF EngineNext

LEMMA EngineInvariant == EngineSpec => []IndInv
BY InitInv, NextInv, PTL DEF EngineSpec

-----------------------------------------------------------------------------
(* Whatever the batches, the panel and the processor - whatever is done in *)
(* quads, and what is left of panels and of batches - no pair of groups is *)
(* hashed twice, none is left out unless the thread is stopped, and the    *)
(* attempts published are the tiles hashed.                                *)
THEOREM EngineSweepOnce == EngineSpec => []SweepOnce
<1>1. IndInv => SweepOnce
  BY DEF IndInv, TypeInv, CountInv, SweptInv, SweepOnce, Sweeping, Pairs
<1> QED BY <1>1, EngineInvariant, PTL

(* The flag is honoured after one quad and one round of the last loop, at  *)
(* the most, whatever the panel.                                           *)
THEOREM EngineStopIsHonoured == EngineSpec => []StopIsHonoured
<1>1. IndInv => StopIsHonoured
  BY DEF IndInv, LateInv, StopIsHonoured
<1> QED BY <1>1, EngineInvariant, PTL

(* A hit is of the job whose key seeded the matrices, wherever the slot    *)
(* moved while they were made and swept: the job held stays the one whose  *)
(* key they were made under (SeedInv).                                     *)
THEOREM EngineHitIsOfItsJob == EngineSpec => []HitIsOfItsJob
<1>1. EngineInit => HitIsOfItsJob
  BY DEF EngineInit, HitIsOfItsJob
<1>2. IndInv /\ HitIsOfItsJob /\ [EngineNext]_engineVars => HitIsOfItsJob'
  <2> SUFFICES ASSUME IndInv, HitIsOfItsJob, [EngineNext]_engineVars PROVE HitIsOfItsJob'
    OBVIOUS
  <2>1. ASSUME NEW hashes, hits' = HitsOf(hashes), Sweeping PROVE HitIsOfItsJob'
    <3>1. job \in JobSpecs /\ a_seed = job.job_key
      BY <2>1 DEF IndInv, TypeInv, PlaceInv, SeedInv
    <3>2. ASSUME NEW hit \in hits'
          PROVE  \E j \in JobSpecs : /\ hit.job_id = j.job_id /\ hit.seed = j.job_key
                                     /\ hit.hash < j.share_target /\ (hit.is_block <=> hit.hash < j.target)
      <4>1. PICK x : hit = [job_id |-> job.job_id, is_block |-> x < job.target, hash |-> x, seed |-> a_seed]
                     /\ x < job.share_target
        BY <2>1, <3>2 DEF HitsOf
      <4>2. /\ hit.job_id = job.job_id /\ hit.seed = a_seed /\ hit.hash = x
            /\ hit.is_block <=> x < job.target
        BY <4>1
      <4> QED BY <3>1, <4>1, <4>2
    <3> QED BY <3>2 DEF HitIsOfItsJob
  <2>2. CASE \E hashes \in SUBSET Hashes \ {{}} : Quads(hashes)
    BY <2>1, <2>2 DEF Quads, Hashed, Sweeping
  <2>3. CASE \E hash \in Hashes : Rest({hash})
    BY <2>1, <2>3 DEF Rest, Hashed, Sweeping
  <2>4. CASE hits' = {}
    BY <2>4 DEF HitIsOfItsJob
  <2>5. CASE hits' = hits
    BY <2>5 DEF HitIsOfItsJob
  <2>6. hits' = {} \/ hits' = hits \/ (\E hashes \in SUBSET Hashes \ {{}} : Quads(hashes))
          \/ \E hash \in Hashes : Rest({hash})
    BY DEF EngineNext, engineVars, Publish, Halt, Adopt, Prepare, Quit, QuadsDone, RestDone, Column, Panel, Silent
  <2> QED BY <2>2, <2>3, <2>4, <2>5, <2>6
<1> QED BY <1>1, <1>2, EngineInvariant, PTL DEF EngineSpec

=============================================================================
