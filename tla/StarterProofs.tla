---------------------------- MODULE StarterProofs ----------------------------
(***************************************************************************)
(* Proofs about Starter, for every file and every core count.              *)
(***************************************************************************)
EXTENDS Starter, FiniteSetTheorems, TLAPS

\* Who holds the mutex, and that what was loaded inside a section is still the
\* value of the counter when it is stored.
MutexInv ==
  /\ pc = "store" <=> mutex = Main
  /\ pc = "store" => tmp[Main] = nThreadsRunning
  /\ \A l \in LineNo : thr[l] = "store" <=> mutex = l
  /\ \A l \in LineNo : thr[l] = "store" => tmp[l] = nThreadsRunning

\* The sample the main thread acted on is stale, but only on the safe side.
RoomInv ==
  /\ pc \in {"incr", "store"} => nThreadsRunning < nCores - 1
  /\ nThreadsRunning > 0 => nThreadsRunning <= nCores - 1

\* Exactly the commands read so far have a thread.
ProgressInv ==
  /\ \A l \in LineNo : thr[l] # "none" <=> (l < line /\ l \in Wanted)
  /\ pc \in {"check", "scan"} => line = 1
  /\ pc \in {"sample", "incr", "store", "create"} => line \in Wanted
  /\ pc = "drain" => line = NLines + 1
  /\ pc = "scan" => nCores >= MinCores /\ named

\* Why a call may be back.
ReturnInv ==
  pc = "return" =>
    /\ Counted = {}
    /\ \/ line = NLines + 1
       \/ /\ line = 1
          /\ nCores < MinCores \/ (named /\ \E l \in LineNo : kind[l] = "missing")

\* The inductive invariant.
IInv == /\ TypeOK /\ MutexInv /\ CounterExact /\ RoomInv /\ ProgressInv
        /\ ReturnInv

-----------------------------------------------------------------------------
(* The number of counted commands. *)

LEMMA LineNoFinite == IsFiniteSet(LineNo)
  BY ConstantsOK, FS_Interval DEF LineNo

LEMMA CountedFinite ==
  /\ IsFiniteSet(Counted)
  /\ Cardinality(Counted) \in Nat
  BY LineNoFinite, FS_Subset, FS_CardinalityType DEF Counted

\* Starting a command adds one to what the counter stands for.
LEMMA CountedGrows ==
  ASSUME NEW l \in LineNo, thr \in [LineNo -> ThrPcs], thr[l] = "none",
         thr' = [thr EXCEPT ![l] = "system"]
  PROVE  Cardinality(Counted') = Cardinality(Counted) + 1
<1>1. Counted' = Counted \union {l} /\ l \notin Counted
  BY DEF Counted
<1> QED
  BY <1>1, CountedFinite, FS_AddElement

\* A thread that exits takes one away.
LEMMA CountedShrinks ==
  ASSUME NEW l \in LineNo, thr \in [LineNo -> ThrPcs], thr[l] = "store",
         thr' = [thr EXCEPT ![l] = "exit"]
  PROVE  Cardinality(Counted') = Cardinality(Counted) - 1
<1>1. Counted' = Counted \ {l} /\ l \in Counted
  BY DEF Counted
<1> QED
  BY <1>1, CountedFinite, FS_RemoveElement

\* Moving between two counted places leaves the number as it is.
LEMMA CountedSame ==
  ASSUME NEW l \in LineNo, NEW to \in {"decr", "store"},
         thr \in [LineNo -> ThrPcs], thr[l] \in {"system", "decr"},
         thr' = [thr EXCEPT ![l] = to]
  PROVE  Counted' = Counted
  BY DEF Counted

LEMMA CountedZero ==
  ASSUME Cardinality(Counted) = 0
  PROVE  Counted = {}
  BY CountedFinite, FS_EmptySet

-----------------------------------------------------------------------------
\* The initial states satisfy the inductive invariant.
LEMMA InitIInv == Init => IInv
<1> SUFFICES ASSUME Init PROVE IInv
  OBVIOUS
<1> USE ConstantsOK
<1>1. TypeOK
  BY DEF Init, TypeOK, LineNo, Main, Free, Kinds, MainPcs, ThrPcs
<1>2. Counted = {}
  BY DEF Init, Counted
<1>3. CounterExact
  BY <1>2, FS_EmptySet DEF Init, CounterExact
<1>4. MutexInv
  BY DEF Init, MutexInv, LineNo, Main, Free
<1>5. RoomInv /\ ProgressInv /\ ReturnInv
  BY DEF Init, RoomInv, ProgressInv, ReturnInv, LineNo
<1> QED
  BY <1>1, <1>3, <1>4, <1>5 DEF IInv

\* Every step keeps it.
LEMMA NextIInv == IInv /\ [Next]_vars => IInv'
<1> SUFFICES ASSUME IInv, [Next]_vars PROVE IInv'
  OBVIOUS
<1> USE ConstantsOK DEF IInv
<1>c. CountedFinite!1 /\ CountedFinite!2
  BY CountedFinite
<1>1. CASE CheckCores
  <2>1. Counted' = Counted
    BY <1>1 DEF CheckCores, Counted
  <2>2. Counted = {} 
    BY <1>1 DEF CheckCores, Counted, ProgressInv, LineNo
  <2> QED
    BY <1>1, <2>1, <2>2 DEF CheckCores, file, shared, TypeOK, MutexInv, CounterExact,
       RoomInv, ProgressInv, ReturnInv, MainPcs, Wanted
<1>2. CASE ScanNames
  <2>1. Counted' = Counted
    BY <1>2 DEF ScanNames, Counted
  <2>2. Counted = {}
    BY <1>2 DEF ScanNames, Counted, ProgressInv, LineNo
  <2> QED
    BY <1>2, <2>1, <2>2 DEF ScanNames, file, shared, TypeOK, MutexInv, CounterExact,
       RoomInv, ProgressInv, ReturnInv, MainPcs, Wanted
<1>3. CASE ReadLine
  <2>1. Counted' = Counted
    BY <1>3 DEF ReadLine, Counted
  <2> QED
    BY <1>3, <2>1 DEF ReadLine, file, shared, TypeOK, MutexInv, CounterExact,
       RoomInv, ProgressInv, ReturnInv, MainPcs, Wanted, LineNo
<1>4. CASE SampleCounter
  <2>1. Counted' = Counted
    BY <1>4 DEF SampleCounter, Counted
  <2> QED
    BY <1>4, <2>1 DEF SampleCounter, file, shared, TypeOK, MutexInv, CounterExact,
       RoomInv, ProgressInv, ReturnInv, MainPcs, Wanted
<1>5. CASE IncrLoad
  <2>1. Counted' = Counted
    BY <1>5 DEF IncrLoad, Counted
  <2> QED
    BY <1>5, <2>1 DEF IncrLoad, file, TypeOK, MutexInv, CounterExact,
       RoomInv, ProgressInv, ReturnInv, MainPcs, Wanted, LineNo, Main, Free
<1>6. CASE IncrStore
  <2>1. Counted' = Counted
    BY <1>6 DEF IncrStore, Counted
  <2> QED
    BY <1>6, <2>1, <1>c DEF IncrStore, file, TypeOK, MutexInv, CounterExact,
       RoomInv, ProgressInv, ReturnInv, MainPcs, Wanted, LineNo, Main, Free
<1>7. CASE CreateThread
  <2>1. line \in LineNo /\ thr[line] = "none"
    BY <1>7 DEF CreateThread, ProgressInv, Wanted, TypeOK, LineNo
  <2>2. Cardinality(Counted') = Cardinality(Counted) + 1
    BY <1>7, <2>1, CountedGrows DEF CreateThread, TypeOK
  <2>3. TypeOK' /\ MutexInv'
    BY <1>7, <2>1 DEF CreateThread, file, shared, TypeOK, MutexInv, MainPcs, ThrPcs, LineNo
  <2>4. ProgressInv' /\ ReturnInv'
    BY <1>7, <2>1 DEF CreateThread, file, shared, TypeOK, ProgressInv, ReturnInv, Wanted, LineNo
  <2>5. CounterExact' /\ RoomInv'
    BY <1>7, <2>2, <1>c DEF CreateThread, file, shared, CounterExact, RoomInv
  <2> QED
    BY <2>3, <2>4, <2>5
<1>8. CASE Drain
  <2>1. Counted' = Counted
    BY <1>8 DEF Drain, Counted
  <2>2. nThreadsRunning = 0 => Counted = {}
    BY <1>8, CountedZero, CountedFinite DEF Drain, CounterExact
  <2> QED
    BY <1>8, <2>1, <2>2 DEF Drain, file, shared, TypeOK, MutexInv, CounterExact,
       RoomInv, ProgressInv, ReturnInv, MainPcs, Wanted
<1>9. CASE \E l \in LineNo : ThreadStep(l)
  <2> PICK l \in LineNo : ThreadStep(l)
    BY <1>9
  <2>1. CASE SystemReturns(l)
    <3>1. Counted' = Counted
      BY <2>1, CountedSame DEF SystemReturns, TypeOK
    <3> QED
      BY <2>1, <3>1 DEF SystemReturns, file, shared, TypeOK, MutexInv, CounterExact,
         RoomInv, ProgressInv, ReturnInv, ThrPcs, Wanted
  <2>2. CASE DecrLoad(l)
    <3>1. Counted' = Counted
      BY <2>2, CountedSame DEF DecrLoad, TypeOK
    <3> QED
      BY <2>2, <3>1 DEF DecrLoad, file, TypeOK, MutexInv, CounterExact,
         RoomInv, ProgressInv, ReturnInv, ThrPcs, Wanted, LineNo, Main, Free
  <2>3. CASE DecrStore(l)
    <3>1. Cardinality(Counted') = Cardinality(Counted) - 1
      BY <2>3, CountedShrinks DEF DecrStore, TypeOK
    <3>2. TypeOK' /\ MutexInv'
      BY <2>3 DEF DecrStore, file, TypeOK, MutexInv, ThrPcs, LineNo, Main, Free
    <3>3. ProgressInv'
      BY <2>3 DEF DecrStore, file, TypeOK, ProgressInv, Wanted
    <3>4. pc # "return"
      BY <2>3 DEF DecrStore, ReturnInv, Counted
    <3>5. CounterExact' /\ RoomInv' /\ ReturnInv'
      BY <2>3, <3>1, <3>4, <1>c DEF DecrStore, file, TypeOK, MutexInv, CounterExact,
         RoomInv, ReturnInv
    <3> QED
      BY <3>2, <3>3, <3>5
  <2> QED
    BY <2>1, <2>2, <2>3 DEF ThreadStep
<1>10. CASE CallAgain
  <2>1. Counted' = {} /\ Counted = {}
    BY <1>10 DEF CallAgain, Counted, ReturnInv
  <2>2. nThreadsRunning = 0 /\ nThreadsRunning' = 0
    BY <1>10, <2>1, FS_EmptySet DEF CallAgain, shared, CounterExact
  <2>3. \A l \in LineNo : thr[l] # "store"
    BY <2>1 DEF Counted
  <2>4. TypeOK'
    BY <1>10 DEF CallAgain, shared, TypeOK, MainPcs, ThrPcs
  <2>5. MutexInv'
    BY <1>10, <2>3 DEF CallAgain, shared, MutexInv
  <2>6. CounterExact' /\ RoomInv' /\ ReturnInv'
    BY <1>10, <2>1, <2>2, FS_EmptySet DEF CallAgain, CounterExact, RoomInv, ReturnInv
  <2>7. ProgressInv'
    BY <1>10 DEF CallAgain, ProgressInv, LineNo
  <2> QED
    BY <2>4, <2>5, <2>6, <2>7
<1>11. CASE UNCHANGED vars
  BY <1>11 DEF vars, TypeOK, MutexInv, CounterExact, RoomInv, ProgressInv,
     ReturnInv, Counted, Wanted
<1> QED
  BY <1>1, <1>2, <1>3, <1>4, <1>5, <1>6, <1>7, <1>8, <1>9, <1>10, <1>11
     DEF Next, MainStep

LEMMA Inductive == Spec => []IInv
  BY InitIInv, NextIInv, PTL DEF Spec

-----------------------------------------------------------------------------
\* Every variable keeps its type (Starter's TypeOK).
THEOREM TypeCorrect == Spec => []TypeOK
<1>1. IInv => TypeOK
  BY DEF IInv
<1> QED
  BY <1>1, Inductive, PTL

\* The counter is exact in every state: the sections of the main thread and of
\* the command threads lose no update, over any number of calls.
THEOREM CounterIsExact == Spec => []CounterExact
<1>1. IInv => CounterExact
  BY DEF IInv
<1> QED
  BY <1>1, Inductive, PTL

\* At most nCores - 1 commands run at any time.
THEOREM CommandsBounded == Spec => []CoreBound
<1>1. IInv => CoreBound
  <2> SUFFICES ASSUME IInv, InSystem # {}
               PROVE  Cardinality(InSystem) <= nCores - 1
    BY DEF CoreBound
  <2>1. InSystem \subseteq Counted /\ Counted # {}
    BY DEF InSystem, Counted
  <2>2. Cardinality(InSystem) <= Cardinality(Counted) /\ Cardinality(InSystem) \in Nat
    BY <2>1, CountedFinite, FS_Subset, FS_CardinalityType
  <2>3. Cardinality(Counted) # 0
    BY <2>1, CountedZero
  <2> QED
    BY <2>2, <2>3, CountedFinite, ConstantsOK DEF IInv, TypeOK, CounterExact, RoomInv
<1> QED
  BY <1>1, Inductive, PTL

\* A call that is back has run its whole file, or nothing of it.
THEOREM AllOrNothingRun == Spec => []AllOrNothing
<1>1. IInv => AllOrNothing
  <2> SUFFICES ASSUME IInv, pc = "return"
               PROVE  \/ \A l \in Wanted : thr[l] = "exit"
                      \/ /\ \A l \in LineNo : thr[l] = "none"
                         /\ nCores < MinCores \/ (named /\ \E l \in LineNo : kind[l] = "missing")
    BY DEF AllOrNothing
  <2>1. \A l \in LineNo : thr[l] \in {"none", "exit"}
    BY DEF IInv, ReturnInv, Counted
  <2>2. CASE line = NLines + 1
    BY <2>1, <2>2, ConstantsOK DEF IInv, ProgressInv, Wanted, LineNo
  <2>3. CASE line = 1 /\ (nCores < MinCores \/ (named /\ \E l \in LineNo : kind[l] = "missing"))
    BY <2>1, <2>3 DEF IInv, ProgressInv, LineNo
  <2> QED
    BY <2>2, <2>3 DEF IInv, ReturnInv
<1> QED
  BY <1>1, Inductive, PTL

-----------------------------------------------------------------------------
(* The starter implements the launcher. *)

LEMMA InitRefines == Init => L!LInit
  BY DEF Init, L!LInit, L!LineNo, LineNo, Wanted, StatusBar, CallBar, Kinds

LEMMA RunningBar == L!Running = InSystem
  BY DEF L!Running, L!LineNo, LineNo, StatusBar, InSystem

\* Both modules take Cardinality from FiniteSets.
LEMMA CardinalityBar == \A S : L!Cardinality(S) = Cardinality(S)
  BY Zenon DEF L!Cardinality, Cardinality

\* A thread is created only while the launcher has a core left.
LEMMA RoomToStart ==
  ASSUME IInv, pc = "create"
  PROVE  Cardinality(InSystem) < nCores - 1
<1>1. InSystem \subseteq Counted
  BY DEF InSystem, Counted
<1>2. Cardinality(InSystem) <= Cardinality(Counted) /\ Cardinality(InSystem) \in Nat
  BY <1>1, CountedFinite, FS_Subset, FS_CardinalityType
<1>3. nThreadsRunning = Cardinality(Counted) + 1 /\ nThreadsRunning <= nCores - 1
  BY CountedFinite DEF IInv, CounterExact, RoomInv
<1> QED
  BY <1>2, <1>3, CountedFinite, ConstantsOK DEF IInv, TypeOK

LEMMA NextRefines == IInv /\ [Next]_vars => [L!LNext]_(L!lvars)
<1> SUFFICES ASSUME IInv, [Next]_vars PROVE [L!LNext]_(L!lvars)
  OBVIOUS
<1> USE ConstantsOK
<1> DEFINE Stutter == UNCHANGED <<Wanted, nCores, StatusBar, CallBar>>
<1>s. Stutter => UNCHANGED L!lvars
  BY DEF L!lvars
<1>r. L!Return => L!LNext
  BY DEF L!LNext
<1>1. CASE CheckCores \/ ScanNames
  <2>1. \A l \in LineNo : thr[l] = "none"
    BY <1>1 DEF CheckCores, ScanNames, IInv, ProgressInv, LineNo
  <2>2. pc' = "return" => L!Return
    BY <1>1, <2>1 DEF CheckCores, ScanNames, file, L!Return, L!LineNo, LineNo, StatusBar,
       CallBar, Wanted
  <2>3. pc' # "return" => Stutter
    BY <1>1 DEF CheckCores, ScanNames, file, StatusBar, CallBar, Wanted
  <2> QED
    BY <2>2, <2>3, <1>s, <1>r
<1>2. CASE ReadLine \/ SampleCounter \/ IncrLoad \/ IncrStore
  <2>1. Stutter
    BY <1>2 DEF ReadLine, SampleCounter, IncrLoad, IncrStore, file, StatusBar, CallBar, Wanted
  <2> QED
    BY <2>1, <1>s
<1>3. CASE CreateThread
  <2>1. /\ line \in LineNo /\ line \in Wanted /\ thr[line] = "none"
        /\ \A k \in Wanted : k < line => thr[k] # "none"
    BY <1>3 DEF CreateThread, IInv, ProgressInv, Wanted, TypeOK, LineNo
  <2>2. L!Cardinality(L!Running) < nCores - 1
    BY <1>3, RunningBar, RoomToStart, CardinalityBar DEF CreateThread
  <2>3. StatusBar' = [StatusBar EXCEPT ![line] = "run"]
    BY <1>3, <2>1 DEF CreateThread, StatusBar, IInv, TypeOK
  <2>4. StatusBar[line] = "wait" /\ \A k \in Wanted : k < line => StatusBar[k] # "wait"
    BY <2>1 DEF StatusBar, Wanted
  <2>5. CallBar = "open" /\ UNCHANGED <<Wanted, nCores, CallBar>>
    BY <1>3 DEF CreateThread, file, CallBar, Wanted
  <2>6. L!Start(line)
    BY <2>1, <2>2, <2>3, <2>4, <2>5 DEF L!Start
  <2> QED
    BY <2>1, <2>6 DEF L!LNext, L!LineNo, LineNo
<1>4. CASE Drain
  <2>1. pc' # "return" => Stutter
    BY <1>4 DEF Drain, file, StatusBar, CallBar, Wanted
  <2>2. ASSUME pc' = "return" PROVE L!Return
    <3>1. Counted = {}
      BY <1>4, <2>2, CountedZero, CountedFinite DEF Drain, IInv, CounterExact
    <3>2. \A l \in Wanted : thr[l] = "exit"
      BY <1>4, <3>1 DEF Drain, Counted, IInv, ProgressInv, Wanted, LineNo
    <3> QED
      BY <1>4, <2>2, <3>2 DEF Drain, file, L!Return, L!LineNo, LineNo, StatusBar, CallBar,
         Wanted
  <2> QED
    BY <2>1, <2>2, <1>s, <1>r
<1>5. CASE \E l \in LineNo : ThreadStep(l)
  <2> PICK l \in LineNo : ThreadStep(l)
    BY <1>5
  <2>1. CASE SystemReturns(l)
    <3>1. StatusBar' = [StatusBar EXCEPT ![l] = "over"]
      BY <2>1 DEF SystemReturns, StatusBar, IInv, TypeOK
    <3>2. L!Finish(l)
      BY <2>1, <3>1 DEF SystemReturns, file, L!Finish, StatusBar, CallBar, Wanted
    <3> QED
      BY <3>2 DEF L!LNext, L!LineNo, LineNo
  <2>2. CASE DecrLoad(l) \/ DecrStore(l)
    <3>1. Stutter
      BY <2>2 DEF DecrLoad, DecrStore, file, StatusBar, CallBar, Wanted, IInv, TypeOK
    <3> QED
      BY <3>1, <1>s
  <2> QED
    BY <2>1, <2>2 DEF ThreadStep
<1>6. CASE CallAgain
  <2>1. L!NewCall
    BY <1>6 DEF CallAgain, L!NewCall, L!LineNo, LineNo, StatusBar, CallBar, Wanted
  <2> QED
    BY <2>1 DEF L!LNext
<1>7. CASE UNCHANGED vars
  BY <1>7, <1>s DEF vars, StatusBar, CallBar, Wanted
<1> QED
  BY <1>1, <1>2, <1>3, <1>4, <1>5, <1>6, <1>7 DEF Next, MainStep

\* Every behaviour of the starter is one the launcher allows: commands in the
\* order of the file, each once, within the cores, and a return only when
\* they are over.
THEOREM StarterKeepsPromise == Spec => KeepsPromise
  BY InitRefines, NextRefines, Inductive, PTL DEF Spec, KeepsPromise, L!LSpec
=============================================================================
