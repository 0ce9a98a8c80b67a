---------------------------- MODULE LLMCallsProofs ----------------------------
(***************************************************************************)
(* What holds of LLMCalls for every set of callers, timers and models,     *)
(* every cap, cooldown, delay and number of retries.                       *)
(***************************************************************************)
EXTENDS LLMCalls, FiniteSetTheorems, TLAPS

\* With one slot, a sleeper that wakes finds the cooldown over: what it
\* still sleeps makes up for what is missing, because nobody else finishes.
SleeperWaits ==
    cap = 1 => \A p \in Procs : pc[p] = "sleep" => gap + left[p] >= Cooldown

\* Nobody works on the host and nothing is leased at first.
LEMMA InitTypeOK == Init => TypeOK
  BY LLMAssumption DEF Init, TypeOK, Procs, Inside

\* Every action keeps the type of every variable; the slots are held by
\* exactly the processes between AcquireSlot and Finish.
LEMMA NextTypeOK == TypeOK /\ [Next]_vars => TypeOK'
<1> SUFFICES ASSUME TypeOK, [Next]_vars PROVE TypeOK'
  OBVIOUS
<1> USE LLMAssumption DEF TypeOK, Procs, Inside, gateVars, leaseVars, config
<1>1. ASSUME NEW c \in Callers, Use(c) PROVE TypeOK'
  <2>1. ASSUME NEW m \in Models, Begin(c, m) PROVE TypeOK'
    BY <2>1 DEF Begin, Reset
  <2>2. CASE BeginUnleased(c)
    BY <2>2 DEF BeginUnleased
  <2>3. CASE Call(c)
    BY <2>3 DEF Call
  <2>4. QED
    BY <1>1, <2>1, <2>2, <2>3 DEF Use
<1>2. ASSUME NEW c \in Callers, Release(c) PROVE TypeOK'
  <2>1. CASE ReleaseUnleased(c)
    BY <2>1 DEF ReleaseUnleased, Free
  <2>2. CASE ReleaseShared(c)
    BY <2>2 DEF ReleaseShared, Free, Lower
  <2>3. CASE ReleaseAndStop(c)
    BY <2>3 DEF ReleaseAndStop, Lower
  <2>4. ASSUME NEW t \in Timers, ReleaseAndArm(c, t) PROVE TypeOK'
    BY <2>4 DEF ReleaseAndArm, Lower
  <2>5. QED
    BY <1>2, <2>1, <2>2, <2>3, <2>4 DEF Release
<1>3. ASSUME NEW t \in Timers, Fire(t) \/ Recheck(t) PROVE TypeOK'
  BY <1>3 DEF Fire, Recheck, Free
<1>4. ASSUME NEW p \in Procs, AcquireSlot(p) PROVE TypeOK'
  BY <1>4 DEF AcquireSlot
<1>5. ASSUME NEW p \in Procs, ReadCooldown(p) PROVE TypeOK'
  BY <1>5 DEF ReadCooldown
<1>6. ASSUME NEW p \in Procs, Send(p) PROVE TypeOK'
  BY <1>6 DEF Send, SendFirst, SendAgain, Attempt
<1>7. ASSUME NEW p \in Procs, Retry(p) PROVE TypeOK'
  BY <1>7 DEF Retry
<1>8. ASSUME NEW p \in Procs, Finish(p) PROVE TypeOK'
  BY <1>8 DEF Finish, Free
<1>9. CASE Tick
  BY <1>9 DEF Tick, Least
<1>10. CASE UNCHANGED vars
  BY <1>10 DEF vars
<1>11. QED
  BY <1>1, <1>2, <1>3, <1>4, <1>5, <1>6, <1>7, <1>8, <1>9, <1>10 DEF Next

\* Every variable stays in its type (gate.go:70, backend.go:60).
THEOREM TypeCorrect == Spec => []TypeOK
  BY InitTypeOK, NextTypeOK, PTL DEF Spec

(***************************************************************************)
(* The gate.                                                               *)
(***************************************************************************)

\* Only AcquireSlot adds a holder.
LEMMA HoldersOfStep ==
  ASSUME TypeOK, [Next]_vars, \A p \in Procs : ~AcquireSlot(p)
  PROVE  slots' \subseteq slots
<1> USE DEF gateVars, leaseVars, config
<1>1. ASSUME NEW c \in Callers, Use(c) \/ Release(c) PROVE slots' \subseteq slots
  BY <1>1 DEF Use, Begin, BeginUnleased, Call, Release, ReleaseUnleased, ReleaseShared,
              ReleaseAndStop, ReleaseAndArm
<1>2. ASSUME NEW t \in Timers, Fire(t) \/ Recheck(t) PROVE slots' \subseteq slots
  BY <1>2 DEF Fire, Recheck
<1>3. ASSUME NEW p \in Procs, ReadCooldown(p) \/ Send(p) \/ Retry(p) \/ Finish(p)
      PROVE  slots' \subseteq slots
  BY <1>3 DEF ReadCooldown, Send, SendFirst, SendAgain, Attempt, Retry, Finish
<1>4. CASE Tick \/ UNCHANGED vars
  BY <1>4 DEF Tick, vars
<1>5. QED
  BY <1>1, <1>2, <1>3, <1>4 DEF Next

\* Finitely many goroutines exist, so the holders can be counted.
LEMMA FiniteSlots == TypeOK => IsFiniteSet(slots) /\ slots \subseteq Procs
<1> SUFFICES ASSUME TypeOK PROVE IsFiniteSet(slots) /\ slots \subseteq Procs
  OBVIOUS
<1>1. IsFiniteSet(Procs)
  BY LLMAssumption, FS_Union DEF Procs
<1>2. slots \subseteq Procs
  BY DEF TypeOK
<1>3. QED
  BY <1>1, <1>2, FS_Subset

\* The configuration is fixed.
LEMMA SameCap == [Next]_vars => cap' = cap
<1> USE DEF config
<1> SUFFICES ASSUME [Next]_vars PROVE cap' = cap
  OBVIOUS
<1>1. ASSUME NEW c \in Callers, Use(c) \/ Release(c) PROVE cap' = cap
  BY <1>1 DEF Use, Begin, BeginUnleased, Call, Release, ReleaseUnleased, ReleaseShared,
              ReleaseAndStop, ReleaseAndArm
<1>2. ASSUME NEW t \in Timers, Fire(t) \/ Recheck(t) PROVE cap' = cap
  BY <1>2 DEF Fire, Recheck
<1>3. ASSUME NEW p \in Procs, AcquireSlot(p) \/ ReadCooldown(p) \/ Send(p) \/ Retry(p) \/ Finish(p)
      PROVE  cap' = cap
  BY <1>3 DEF AcquireSlot, ReadCooldown, Send, SendFirst, SendAgain, Attempt, Retry, Finish
<1>4. CASE Tick \/ UNCHANGED vars
  BY <1>4 DEF Tick, vars
<1>5. QED
  BY <1>1, <1>2, <1>3, <1>4 DEF Next

\* A free slot is seen before one is taken.
LEMMA NextSlotBound == TypeOK /\ SlotBound /\ [Next]_vars => SlotBound'
<1> SUFFICES ASSUME TypeOK, SlotBound, [Next]_vars, cap' > 0
             PROVE  Cardinality(slots') <= cap'
  BY NextTypeOK DEF SlotBound, TypeOK
<1>1. IsFiniteSet(slots) /\ Cardinality(slots) \in Nat
  BY FiniteSlots, FS_CardinalityType
<1>2. cap' = cap /\ cap \in Nat /\ Cardinality(slots) <= cap
  BY SameCap, LLMAssumption DEF TypeOK, SlotBound
<1>3. ASSUME NEW p \in Procs, AcquireSlot(p) PROVE Cardinality(slots') <= cap'
  <2>1. slots' = slots \cup {p} /\ Cardinality(slots) < cap
    BY <1>2, <1>3 DEF AcquireSlot
  <2>2. Cardinality(slots') <= Cardinality(slots) + 1
    BY <1>1, <2>1, FS_AddElement
  <2>3. Cardinality(slots') \in Nat
    BY <1>1, <2>1, FS_AddElement, FS_CardinalityType
  <2>4. QED
    BY <1>1, <1>2, <2>1, <2>2, <2>3
<1>4. CASE \A p \in Procs : ~AcquireSlot(p)
  <2>1. Cardinality(slots') <= Cardinality(slots) /\ IsFiniteSet(slots')
    BY <1>1, <1>4, HoldersOfStep, FS_Subset
  <2>2. Cardinality(slots') \in Nat
    BY <2>1, FS_CardinalityType
  <2>3. QED
    BY <1>1, <1>2, <2>1, <2>2
<1>5. QED
  BY <1>3, <1>4

\* The backend never works on more requests than the cap, for every number
\* of callers, timers and retries (gate.go:14).
THEOREM SlotsBoundWork == Spec => []SlotBound
<1>1. Init => SlotBound
  <2> SUFFICES ASSUME Init PROVE cap > 0 => Cardinality({p \in Procs : pc[p] \in Inside}) <= cap
    BY DEF SlotBound
  <2>1. {p \in Procs : pc[p] \in Inside} = {}
    BY DEF Init, Inside
  <2>2. QED
    BY <2>1, FS_EmptySet, LLMAssumption DEF Init
<1>2. QED
  BY <1>1, NextSlotBound, TypeCorrect, PTL DEF Spec

(***************************************************************************)
(* The cooldown.  lastFinish is read once and slept for without the lock:  *)
(* with one slot nobody else is past it, so no request finishes meanwhile. *)
(***************************************************************************)

\* One slot, one holder.
LEMMA OnlyHolder ==
  ASSUME TypeOK, SlotBound, cap = 1, NEW p \in Procs, NEW q \in Procs,
         pc[p] \in Inside, pc[q] \in Inside
  PROVE  p = q
<1> SUFFICES ASSUME p # q PROVE FALSE
  OBVIOUS
<1>1. IsFiniteSet(slots) /\ Cardinality(slots) <= 1 /\ p \in slots /\ q \in slots
  BY FiniteSlots DEF TypeOK, SlotBound
<1>2. Cardinality({p}) = 1 /\ IsFiniteSet({p})
  BY FS_Singleton
<1>3. Cardinality({p} \cup {q}) = 2
  BY <1>2, FS_AddElement
<1>4. {p} \cup {q} \subseteq slots
  BY <1>1
<1>5. Cardinality({p} \cup {q}) <= Cardinality(slots)
  BY <1>1, <1>4, FS_Subset
<1>6. Cardinality(slots) \in Nat
  BY <1>1, FS_CardinalityType
<1>7. QED
  BY <1>1, <1>3, <1>5, <1>6

LEMMA NextSleeperWaits ==
  TypeOK /\ SlotBound /\ SleeperWaits /\ [Next]_vars => SleeperWaits'
<1> SUFFICES ASSUME TypeOK, SlotBound, SleeperWaits, [Next]_vars, cap' = 1,
                    NEW p \in Procs, pc'[p] = "sleep"
             PROVE  gap' + left'[p] >= Cooldown
  BY DEF SleeperWaits
<1>1. cap = 1
  BY SameCap
<1>2. /\ gap \in 0 .. Cooldown /\ left \in [Procs -> Nat] /\ Cooldown \in Nat
      /\ pc[p] = "sleep" => gap + left[p] >= Cooldown
  BY <1>1, LLMAssumption DEF TypeOK, SleeperWaits
<1> USE <1>2 DEF gateVars, leaseVars, config, TypeOK
<1>3. ASSUME NEW c \in Callers, Use(c) PROVE gap' + left'[p] >= Cooldown
  <2>1. ASSUME NEW m \in Models, Begin(c, m) PROVE gap' + left'[p] >= Cooldown
    BY <2>1 DEF Begin, Reset
  <2>2. CASE BeginUnleased(c) \/ Call(c)
    BY <2>2 DEF BeginUnleased, Call
  <2>3. QED
    BY <1>3, <2>1, <2>2 DEF Use
<1>4. ASSUME NEW c \in Callers, Release(c) PROVE gap' + left'[p] >= Cooldown
  <2>1. CASE ReleaseUnleased(c) \/ ReleaseShared(c) \/ ReleaseAndStop(c)
    BY <2>1 DEF ReleaseUnleased, ReleaseShared, ReleaseAndStop, Free
  <2>2. ASSUME NEW t \in Timers, ReleaseAndArm(c, t) PROVE gap' + left'[p] >= Cooldown
    BY <2>2 DEF ReleaseAndArm
  <2>3. QED
    BY <1>4, <2>1, <2>2 DEF Release
<1>5. ASSUME NEW t \in Timers, Fire(t) \/ Recheck(t) PROVE gap' + left'[p] >= Cooldown
  BY <1>5 DEF Fire, Recheck, Free
<1>6. ASSUME NEW q \in Procs, AcquireSlot(q) \/ Send(q) \/ Retry(q)
      PROVE  gap' + left'[p] >= Cooldown
  BY <1>6 DEF AcquireSlot, Send, SendFirst, SendAgain, Attempt, Retry
<1>7. ASSUME NEW q \in Procs, ReadCooldown(q) PROVE gap' + left'[p] >= Cooldown
  BY <1>7 DEF ReadCooldown
<1>8. ASSUME NEW q \in Procs, Finish(q) PROVE gap' + left'[p] >= Cooldown
  <2>1. pc[p] = "sleep" /\ pc[q] = "sent" /\ p # q
    BY <1>8 DEF Finish, Free
  <2>2. QED
    BY <1>1, <2>1, OnlyHolder DEF Inside
<1>9. CASE Tick
  BY <1>9 DEF Tick, Least
<1>10. CASE UNCHANGED vars
  BY <1>10 DEF vars
<1>11. QED
  BY <1>3, <1>4, <1>5, <1>6, <1>7, <1>8, <1>9, <1>10 DEF Next

\* With one slot the first attempt of a request starts no sooner than the
\* cooldown after the end of the one before (gate.go:15), for every cooldown.
THEOREM CooldownHolds == Spec => CooldownKept
<1>1. Init => SleeperWaits
  BY DEF Init, SleeperWaits
<1>2. TypeOK /\ SleeperWaits /\ [Next]_vars
        => [\A p \in Procs : cap = 1 /\ SendFirst(p) => gap = Cooldown]_vars
  <2> SUFFICES ASSUME TypeOK, SleeperWaits, NEW p \in Procs, cap = 1, SendFirst(p)
               PROVE  gap = Cooldown
    OBVIOUS
  <2>1. pc[p] = "sleep" /\ left[p] = 0
    BY DEF SendFirst, Attempt
  <2>2. QED
    BY <2>1, LLMAssumption DEF SleeperWaits, TypeOK
<1>3. QED
  BY <1>1, <1>2, NextSleeperWaits, TypeCorrect, SlotsBoundWork, PTL DEF Spec, CooldownKept
===============================================================================
