------------------------- MODULE StartDetector_proofs -------------------------
(***************************************************************************)
(* Proofs about brick::shmem::StartDetector, for any finite number of      *)
(* threads that an unsigned short can count.  The inductive invariant is   *)
(* IInv: the type invariant with the three phases of a round.              *)
(***************************************************************************)
EXTENDS StartDetector, FiniteSetTheorems, TLAPS

IInv == TypeOK /\ RoundsDoNotMix

\* The bound is a number, and nothing else of it is used.
LEMMA MaxPeersType == MaxPeers \in Nat
  BY SMT DEF MaxPeers

\* A sum or a difference that stays in range does not wrap around.
LEMMA NoWrap == \A x \in 0 .. MaxPeers : x % Width = x
  <1>1. ASSUME NEW n \in Nat PROVE \A x \in 0 .. n : x % (n + 1) = x
    BY SMT
  <1>. QED BY <1>1, MaxPeersType DEF Width

\* Peers is a number that an unsigned short holds.
LEMMA PeersType == Peers \in 1 .. MaxPeers /\ IsFiniteSet(Threads)
  BY ThreadsAssumption DEF Peers

\* The threads at a label are finitely many, at most Peers, and Peers only if
\* they are all of them.
LEMMA AtFinite ==
  ASSUME NEW S \in SUBSET Threads
  PROVE  /\ IsFiniteSet(S)
         /\ Cardinality(S) \in Nat
         /\ Cardinality(S) <= Peers
         /\ Cardinality(S) = Peers => S = Threads
         /\ Cardinality(S) = 0 <=> S = {}
  <1>1. IsFiniteSet(S) /\ Cardinality(S) <= Peers /\ (Cardinality(S) = Peers => S = Threads)
    BY ThreadsAssumption, FS_Subset DEF Peers
  <1>2. Cardinality(S) \in Nat
    BY <1>1, FS_CardinalityType
  <1>3. Cardinality(S) = 0 <=> S = {}
    BY <1>1, FS_EmptySet
  <1>. QED BY <1>1, <1>2, <1>3

LEMMA InitIInv == Init => IInv
  <1> SUFFICES ASSUME Init PROVE IInv
    OBVIOUS
  <1>1. TypeOK
    BY PeersType, MaxPeersType DEF Init, TypeOK
  <1>2. At("wait") \cup At("setGuard") = {}
    BY DEF Init, At
  <1>3. Gathering
    BY <1>2, FS_EmptySet DEF Init, Gathering, At
  <1>. QED BY <1>1, <1>3 DEF IInv, RoundsDoNotMix

LEMMA StepIInv == IInv /\ [Next]_vars => IInv'
  <1> SUFFICES ASSUME IInv, [Next]_vars PROVE IInv'
    OBVIOUS
  <1> USE DEF IInv
  <1>p. Peers \in 1 .. MaxPeers /\ IsFiniteSet(Threads) /\ MaxPeers \in Nat
    BY PeersType, MaxPeersType
  <1>t. /\ counter \in 0 .. Peers
        /\ leaveGuard \in 0 .. Peers
        /\ pc \in [Threads -> {"out", "guard", "arrive", "setGuard", "reset", "wait", "leave"}]
    BY DEF TypeOK
  <1>1. ASSUME NEW t \in Threads, Call(t)
        PROVE  IInv'
    <2>1. TypeOK'
      BY <1>1, <1>t DEF TypeOK, Call, Goto
    <2>2. \A l \in {"wait", "setGuard", "leave", "reset"} : At(l)' = At(l)
      BY <1>1, <1>t DEF Call, Goto, At
    <2>3. CASE Gathering
      BY <1>1, <1>t, <2>1, <2>2, <2>3 DEF Call, Goto, Gathering, RoundsDoNotMix, Peers, At
    <2>4. CASE Opening
      BY <1>1, <1>t, <2>4 DEF Call, Goto, Opening
    <2>5. CASE Leaving
      BY <1>1, <1>t, <2>1, <2>2, <2>5 DEF Call, Goto, Leaving, RoundsDoNotMix
    <2>. QED BY <2>3, <2>4, <2>5 DEF RoundsDoNotMix
  <1>2. ASSUME NEW t \in Threads, PassGuard(t)
        PROVE  IInv'
    <2>1. TypeOK'
      BY <1>2, <1>t DEF TypeOK, PassGuard, Goto
    <2>2. \A l \in {"wait", "setGuard", "leave", "reset"} : At(l)' = At(l)
      BY <1>2, <1>t DEF PassGuard, Goto, At
    <2>3. Gathering
      BY <1>2, <1>p DEF PassGuard, Opening, Leaving, RoundsDoNotMix
    <2>4. Gathering'
      BY <1>2, <1>t, <2>2, <2>3 DEF PassGuard, Goto, Gathering, Peers, At
    <2>. QED BY <2>1, <2>4 DEF RoundsDoNotMix
  <1>3. ASSUME NEW t \in Threads, Arrive(t)
        PROVE  IInv'
    <2> DEFINE In == At("wait") \cup At("setGuard")
    <2>1. pc[t] = "arrive" /\ leaveGuard' = leaveGuard
      BY <1>3 DEF Arrive, Goto
    <2>2. Gathering
      BY <2>1 DEF Opening, Leaving, RoundsDoNotMix
    <2>3. In \in SUBSET Threads /\ t \notin In
      BY <2>1 DEF At
    <2>4. counter = Cardinality(In) /\ counter # Peers /\ counter < Peers
      BY <2>2, <2>3, AtFinite, <1>p DEF Gathering
    <2>5. counter' = counter + 1 /\ counter' \in 1 .. Peers
      <3>1. counter + 1 \in 1 .. Peers /\ counter + 1 \in 0 .. MaxPeers
        BY <1>p, <1>t, <2>4
      <3>. QED BY <1>3, <1>p, <3>1, NoWrap DEF Arrive
    <2>6. At("setGuard") = {}
      BY <2>2, <2>4 DEF Gathering
    <2>7. pc' = [pc EXCEPT ![t] = IF counter' = Peers THEN "setGuard" ELSE "wait"]
      BY <1>3 DEF Arrive, Goto
    <2>8. In' = In \cup {t} /\ At("leave")' = At("leave") /\ At("reset")' = At("reset")
      BY <2>1, <2>7, <1>t DEF At
    <2>9. Cardinality(In') = counter'
      <3>1. IsFiniteSet(In)
        BY <2>3, AtFinite
      <3>2. Cardinality(In \cup {t}) = Cardinality(In) + 1
        BY <2>3, <3>1, FS_AddElement
      <3>. QED BY <2>4, <2>5, <2>8, <3>2
    <2>10. TypeOK'
      BY <2>1, <2>5, <2>7, <1>t DEF TypeOK
    <2>11. ASSUME NEW s \in At("setGuard")'
           PROVE  counter' = Peers /\ \A u \in Threads \ {s} : pc'[u] = "wait"
      <3>1. s = t /\ counter' = Peers
        BY <2>6, <2>7, <1>t DEF At
      <3>2. In' = Threads
        BY <2>3, <2>8, <2>9, <3>1, AtFinite
      <3>3. \A u \in Threads \ {t} : u \in In
        BY <3>2, <2>8
      <3>. QED BY <3>1, <3>3, <2>6, <2>7, <1>t DEF At
    <2>12. Gathering'
      BY <2>1, <2>2, <2>8, <2>9, <2>11 DEF Gathering, Peers
    <2>. QED BY <2>10, <2>12 DEF RoundsDoNotMix
  <1>4. ASSUME NEW t \in Threads, SetGuard(t)
        PROVE  IInv'
    <2>1. pc[t] = "setGuard" /\ pc' = [pc EXCEPT ![t] = "reset"]
          /\ leaveGuard' = Peers /\ counter' = counter
      BY <1>4 DEF SetGuard, Goto
    <2>2. Gathering
      BY <2>1 DEF Opening, Leaving, RoundsDoNotMix
    <2>3. counter = Peers /\ \A u \in Threads \ {t} : pc[u] = "wait"
      BY <2>1, <2>2 DEF Gathering, At
    <2>4. Opening'
      BY <2>1, <2>3, <1>t DEF Opening, Peers
    <2>5. TypeOK'
      BY <2>1, <1>p, <1>t DEF TypeOK
    <2>. QED BY <2>4, <2>5 DEF RoundsDoNotMix
  <1>5. ASSUME NEW t \in Threads, Reset(t)
        PROVE  IInv'
    <2>1. pc[t] = "reset" /\ pc' = [pc EXCEPT ![t] = "wait"]
          /\ leaveGuard' = leaveGuard /\ counter' = 0
      BY <1>5 DEF Reset, Goto
    <2>2. Opening
      BY <2>1 DEF Gathering, At, Leaving, RoundsDoNotMix
    <2>3. \A u \in Threads : pc'[u] = "wait"
      BY <2>1, <2>2, <1>t DEF Opening
    <2>4. (At("wait") \cup At("leave"))' = Threads
      BY <2>3 DEF At
    <2>5. leaveGuard' # 0 /\ leaveGuard' = Cardinality(Threads)
      BY <2>1, <2>2, <1>p DEF Opening, Peers
    <2>6. Leaving'
      BY <2>1, <2>3, <2>4, <2>5 DEF Leaving
    <2>7. TypeOK'
      BY <2>1, <1>p, <1>t DEF TypeOK
    <2>. QED BY <2>6, <2>7 DEF RoundsDoNotMix
  <1>6. ASSUME NEW t \in Threads, PassCounter(t)
        PROVE  IInv'
    <2>1. pc[t] = "wait" /\ pc' = [pc EXCEPT ![t] = "leave"] /\ counter = 0
          /\ leaveGuard' = leaveGuard /\ counter' = 0
      BY <1>6 DEF PassCounter, Goto
    <2>2. Leaving
      <3>1. ASSUME Gathering PROVE FALSE
        <4>1. At("wait") \cup At("setGuard") \in SUBSET Threads
              /\ t \in At("wait") \cup At("setGuard")
          BY <2>1 DEF At
        <4>2. At("wait") \cup At("setGuard") # {}
          BY <4>1
        <4>3. Cardinality(At("wait") \cup At("setGuard")) # 0
          BY <4>1, <4>2, AtFinite
        <4>. QED BY <3>1, <4>3, <2>1 DEF Gathering
      <3>. QED BY <3>1, <2>1, <1>p DEF Opening, RoundsDoNotMix
    <2>3. (At("wait") \cup At("leave"))' = At("wait") \cup At("leave")
      BY <2>1, <1>t DEF At
    <2>4. Leaving'
      BY <2>1, <2>2, <2>3, <1>t DEF Leaving
    <2>5. TypeOK'
      BY <2>1, <1>t DEF TypeOK
    <2>. QED BY <2>4, <2>5 DEF RoundsDoNotMix
  <1>7. ASSUME NEW t \in Threads, Leave(t)
        PROVE  IInv'
    <2> DEFINE In == At("wait") \cup At("leave")
    <2>1. pc[t] = "leave" /\ pc' = [pc EXCEPT ![t] = "out"]
          /\ leaveGuard' = (leaveGuard - 1) % Width /\ counter' = counter
      BY <1>7 DEF Leave, Goto
    <2>2. Leaving
      BY <2>1 DEF Gathering, Opening, At, RoundsDoNotMix
    <2>3. leaveGuard' = leaveGuard - 1 /\ leaveGuard' \in 0 .. Peers
      <3>1. leaveGuard - 1 \in 0 .. Peers /\ leaveGuard - 1 \in 0 .. MaxPeers
        BY <2>2, <1>t, <1>p DEF Leaving
      <3>2. (leaveGuard - 1) % Width = leaveGuard - 1
        BY <3>1, NoWrap
      <3>. QED BY <2>1, <3>1, <3>2
    <2>4. In' = In \ {t} /\ t \in In /\ In \in SUBSET Threads
      BY <2>1, <1>t DEF At
    <2>5. Cardinality(In') = leaveGuard'
      BY <2>2, <2>3, <2>4, AtFinite, FS_RemoveElement DEF Leaving
    <2>6. TypeOK'
      BY <2>1, <2>3, <1>t DEF TypeOK
    <2>7. \A u \in Threads : pc'[u] \in {"out", "guard", "wait", "leave"}
      BY <2>1, <2>2, <1>t DEF Leaving
    <2>8. CASE leaveGuard' # 0
      <3>1. Leaving'
        BY <2>1, <2>2, <2>5, <2>7, <2>8 DEF Leaving
      <3>. QED BY <3>1, <2>6 DEF RoundsDoNotMix
    <2>9. CASE leaveGuard' = 0
      <3>1. In' = {} /\ In' \in SUBSET Threads
        BY <2>4, <2>5, <2>9, AtFinite
      <3>2. At("wait")' = {} /\ At("leave")' = {}
        BY <3>1
      <3>3. At("setGuard")' = {} /\ At("reset")' = {}
        BY <2>7 DEF At
      <3>4. Cardinality((At("wait") \cup At("setGuard"))') = 0
        BY <3>2, <3>3, FS_EmptySet
      <3>5. Gathering'
        BY <2>1, <2>2, <2>9, <3>2, <3>3, <3>4 DEF Gathering, Leaving
      <3>. QED BY <3>5, <2>6 DEF RoundsDoNotMix
    <2>. QED BY <2>8, <2>9
  <1>8. CASE UNCHANGED vars
    BY <1>8 DEF vars, TypeOK, RoundsDoNotMix, Gathering, Opening, Leaving, At, Peers
  <1>. QED
    BY <1>1, <1>2, <1>3, <1>4, <1>5, <1>6, <1>7, <1>8 DEF Next, WaitForAll

\* While a round gathers, what the barrier holds is who has arrived.
LEMMA HeldGathering ==
  ASSUME Gathering
  PROVE  Held = At("wait") \cup At("setGuard")
  <1>1. At("wait") \cup At("setGuard") \in SUBSET Threads
    BY DEF At
  <1>2. counter = 0 => At("wait") \cup At("setGuard") = {}
    BY <1>1, AtFinite DEF Gathering
  <1>. QED BY <1>2 DEF Held, Gathering

\* Each step of a thread is a step of the abstract barrier, or leaves it alone.
LEMMA StepRefines == IInv /\ IInv' /\ [Next]_vars => [Abstract!Next]_Held
  <1> SUFFICES ASSUME IInv, IInv', [Next]_vars PROVE [Abstract!Next]_Held
    OBVIOUS
  <1>t. pc \in [Threads -> {"out", "guard", "arrive", "setGuard", "reset", "wait", "leave"}]
    BY DEF IInv, TypeOK
  <1>p. Peers \in 1 .. MaxPeers /\ MaxPeers \in Nat
    BY PeersType, MaxPeersType
  <1>1. ASSUME NEW t \in Threads, Call(t) \/ PassGuard(t)
        PROVE  Held' = Held
    <2>1. \A l \in {"wait", "setGuard", "reset"} : At(l)' = At(l)
      BY <1>1, <1>t DEF Call, PassGuard, Goto, At
    <2>. QED BY <1>1, <2>1 DEF Call, PassGuard, Held
  <1>2. ASSUME NEW t \in Threads, Arrive(t)
        PROVE  Abstract!Enter(t)
    <2>1. pc[t] = "arrive"
          /\ pc' = [pc EXCEPT ![t] = IF counter' = Peers THEN "setGuard" ELSE "wait"]
      BY <1>2 DEF Arrive, Goto
    <2>2. Gathering
      BY <2>1 DEF IInv, RoundsDoNotMix, Opening, Leaving
    <2>3. pc'[t] \in {"setGuard", "wait"} /\ At("leave")' = At("leave")
          /\ At("reset")' = At("reset")
      BY <2>1, <1>t DEF At
    <2>4. leaveGuard' = 0 /\ At("reset")' = {}
      BY <1>2, <2>2, <2>3 DEF Arrive, Gathering
    <2>5. Gathering'
      BY <2>4, <1>p DEF IInv, RoundsDoNotMix, Opening, Leaving, At
    <2>6. (At("wait") \cup At("setGuard"))' = (At("wait") \cup At("setGuard")) \cup {t}
          /\ t \notin At("wait") \cup At("setGuard")
      BY <2>1, <1>t DEF At
    <2>7. Held' = (At("wait") \cup At("setGuard"))'
      <3>1. (At("wait") \cup At("setGuard"))' # {}
        BY <2>6
      <3>2. counter' # 0
        <4>1. (At("wait") \cup At("setGuard"))' \in SUBSET Threads
          BY DEF At
        <4>. QED BY <3>1, <4>1, <2>5, AtFinite DEF Gathering
      <3>. QED BY <3>2, <2>4 DEF Held
    <2>. QED BY <2>2, <2>6, <2>7, HeldGathering DEF Abstract!Enter
  <1>3. ASSUME NEW t \in Threads, SetGuard(t)
        PROVE  Held' = Held
    <2>1. pc[t] = "setGuard" /\ pc' = [pc EXCEPT ![t] = "reset"] /\ counter' = counter
      BY <1>3 DEF SetGuard, Goto
    <2>2. (At("wait") \cup At("setGuard") \cup At("reset"))'
            = At("wait") \cup At("setGuard") \cup At("reset")
      BY <2>1, <1>t DEF At
    <2>. QED BY <2>1, <2>2 DEF Held
  <1>4. ASSUME NEW t \in Threads, Reset(t)
        PROVE  Abstract!Release
    <2>1. pc[t] = "reset" /\ counter' = 0
      BY <1>4 DEF Reset, Goto
    <2>2. Opening
      BY <2>1 DEF IInv, RoundsDoNotMix, Gathering, Leaving, At
    <2>3. At("wait") \cup At("setGuard") \cup At("reset") = Threads
      BY <2>1, <2>2 DEF Opening, At
    <2>4. Held = Threads
      BY <2>2, <2>3, <1>p DEF Opening, Held
    <2>. QED BY <2>1, <2>4 DEF Abstract!Release, Held
  <1>5. ASSUME NEW t \in Threads, PassCounter(t) \/ Leave(t)
        PROVE  Held' = Held
    <2>1. counter = 0 /\ counter' = 0
      <3>1. CASE PassCounter(t)
        BY <3>1 DEF PassCounter
      <3>2. CASE Leave(t)
        <4>1. Leaving
          BY <3>2 DEF Leave, Goto, IInv, RoundsDoNotMix, Gathering, Opening, At
        <4>. QED BY <3>2, <4>1 DEF Leave, Leaving
      <3>. QED BY <1>5, <3>1, <3>2
    <2>. QED BY <2>1 DEF Held
  <1>6. CASE UNCHANGED vars
    BY <1>6 DEF vars, Held, At
  <1>. QED
    BY <1>1, <1>2, <1>3, <1>4, <1>5, <1>6 DEF Next, WaitForAll, Abstract!Next

-----------------------------------------------------------------------------
\* The two atomics and the positions of the threads always form one of the
\* three phases of a round, for any number of threads.
THEOREM Rounds == Spec => [](TypeOK /\ RoundsDoNotMix)
  <1>1. Init => IInv
    BY InitIInv
  <1>2. IInv /\ [Next]_vars => IInv'
    BY StepIInv
  <1>3. IInv => TypeOK /\ RoundsDoNotMix
    BY DEF IInv
  <1>. QED BY <1>1, <1>2, <1>3, PTL DEF Spec

\* The counter never exceeds the number of threads, nor does the guard, although
\* both are unsigned shorts that are added to and subtracted from without a lock.
THEOREM TypesKept == Spec => []TypeOK
  BY Rounds, PTL

\* waitForAll implements the abstract barrier: no thread gets out of a round
\* before all of them have come.
THEOREM Refinement == Spec => ImplementsBarrier
  <1>1. Init => Abstract!Init
    BY DEF Init, Abstract!Init, Held
  <1>2. IInv /\ IInv' /\ [Next]_vars => [Abstract!Next]_Held
    BY StepRefines
  <1>3. Spec => []IInv
    BY Rounds, PTL DEF IInv
  <1>. QED BY <1>1, <1>2, <1>3, PTL DEF Spec, ImplementsBarrier, Abstract!Spec
=============================================================================
