------------------------- MODULE KernelRegistryProofs -------------------------
(***************************************************************************)
(* The registry is safe for any number of calls, cubins and entries: the   *)
(* reference count of an entry is the number of states that refer to it,   *)
(* and slots and loaded entries lead to one another.                       *)
(***************************************************************************)
EXTENDS KernelRegistry, FiniteSetTheorems, TLAPS

SlotsLoaded == \A c \in Cubins : slot[c] \in Entries => library[slot[c]] = c

LoadedInSlots ==
  \A e \in Entries : library[e] # NoLibrary => slot[library[e]] = e

StatesBound ==
  \A s \in Calls :
    IF Idle(s) THEN entry[s] = Null
    ELSE /\ entry[s] \in Entries /\ cubinId[s] \in Cubins
         /\ library[entry[s]] = cubinId[s]

\* The count is exact, and an entry without a count is not loaded.
CountExact ==
  \A e \in Entries : /\ refcount[e] = Cardinality(States(e))
                     /\ library[e] # NoLibrary => refcount[e] > 0

IndInv == /\ TypeOK /\ SlotsLoaded /\ LoadedInSlots /\ StatesBound
          /\ CountExact /\ ExecutesOwnKernel

-----------------------------------------------------------------------------
(* Lemmas *)

\* The states of an entry are finitely many, none when it is not loaded.
LEMMA StatesFinite ==
  ASSUME NEW e
  PROVE  IsFiniteSet(States(e)) /\ Cardinality(States(e)) \in Nat
<1>1. States(e) \subseteq Calls  BY DEF States
<1> QED BY <1>1, RegistryAssumption, FS_Subset, FS_CardinalityType

\* A freed entry has no states and no count.
LEMMA FreedUnused ==
  ASSUME IndInv, NEW e \in Freed
  PROVE  States(e) = {} /\ refcount[e] = 0
<1>1. States(e) = {}
  BY RegistryAssumption DEF IndInv, StatesBound, TypeOK, States, Freed
<1> QED BY <1>1, FS_EmptySet DEF IndInv, CountExact, Freed

\* A state that is attached to e adds itself to the states of e alone.
LEMMA AttachStates ==
  ASSUME TypeOK, NEW s \in Calls, NEW e \in Entries, entry[s] = Null,
         entry' = [entry EXCEPT ![s] = e]
  PROVE  /\ Cardinality(States(e)') = Cardinality(States(e)) + 1
         /\ \A x \in Entries \ {e} : States(x)' = States(x)
<1>1. s \notin States(e)  BY RegistryAssumption DEF States
<1>2. States(e)' = States(e) \cup {s}  BY DEF States, TypeOK
<1>3. Cardinality(States(e) \cup {s}) = Cardinality(States(e)) + 1
  BY <1>1, StatesFinite, FS_AddElement
<1>4. \A x \in Entries \ {e} : States(x)' = States(x)
  BY RegistryAssumption DEF States, TypeOK
<1> QED BY <1>2, <1>3, <1>4

\* A state that is deleted leaves the states of its entry.
LEMMA DetachStates ==
  ASSUME TypeOK, NEW s \in Calls, NEW e \in Entries, entry[s] = e,
         entry' = [entry EXCEPT ![s] = Null]
  PROVE  /\ Cardinality(States(e)') = Cardinality(States(e)) - 1
         /\ Cardinality(States(e)) > 0
         /\ \A x \in Entries \ {e} : States(x)' = States(x)
<1>1. s \in States(e)  BY DEF States
<1>2. States(e)' = States(e) \ {s}  BY RegistryAssumption DEF States, TypeOK
<1>3. Cardinality(States(e) \ {s}) = Cardinality(States(e)) - 1
  BY <1>1, StatesFinite, FS_RemoveElement
<1>4. Cardinality(States(e)) # 0
  BY <1>1, StatesFinite, FS_EmptySet
<1>5. \A x \in Entries \ {e} : States(x)' = States(x)
  BY RegistryAssumption DEF States, TypeOK
<1> QED BY <1>2, <1>3, <1>4, <1>5, StatesFinite

-----------------------------------------------------------------------------
(* Each action preserves IndInv *)

\* The invariant holds before the first load.
LEMMA InitIndInv == Init => IndInv
<1> SUFFICES ASSUME Init PROVE IndInv
  OBVIOUS
<1>1. TypeOK  BY DEF Init, TypeOK
<1>2. SlotsLoaded /\ LoadedInSlots
  BY RegistryAssumption DEF Init, SlotsLoaded, LoadedInSlots
<1>3. StatesBound /\ ExecutesOwnKernel
  BY DEF Init, StatesBound, ExecutesOwnKernel, Idle
<1>4. CountExact
  <2>1. \A e \in Entries : States(e) = {}
    BY RegistryAssumption DEF Init, States
  <2> QED BY <2>1, FS_EmptySet DEF Init, CountExact
<1> QED BY <1>1, <1>2, <1>3, <1>4 DEF IndInv

\* Finding a module in the registry keeps it.
LEMMA FoundIndInv ==
  ASSUME IndInv, NEW s \in Calls, NEW c \in Cubins, InstantiateFound(s, c)
  PROVE  IndInv'
<1>e. PICK e : e = slot[c]
  OBVIOUS
<1>1. /\ e \in Entries /\ library[e] = c
      /\ entry[s] = Null /\ Idle(s)
      /\ refcount' = [refcount EXCEPT ![e] = @ + 1]
      /\ entry' = [entry EXCEPT ![s] = e]
      /\ cubinId' = [cubinId EXCEPT ![s] = c]
      /\ stage' = [stage EXCEPT ![s] = "instantiated"]
      /\ UNCHANGED <<function, slot, library>>
  BY <1>e DEF IndInv, InstantiateFound, Found, Counted, Attach, SlotsLoaded,
              StatesBound
<1>t. TypeOK  BY DEF IndInv
<1>2. TypeOK'  BY <1>1, <1>t DEF TypeOK
<1>3. SlotsLoaded' /\ LoadedInSlots'
  BY <1>1 DEF IndInv, SlotsLoaded, LoadedInSlots
<1>4. StatesBound'
  BY <1>1, <1>t DEF IndInv, StatesBound, Idle, TypeOK
<1>5. CountExact'
  <2>1. /\ Cardinality(States(e)') = Cardinality(States(e)) + 1
        /\ \A x \in Entries \ {e} : States(x)' = States(x)
    BY <1>1, <1>t, AttachStates
  <2>2. /\ refcount'[e] = refcount[e] + 1
        /\ \A x \in Entries \ {e} : refcount'[x] = refcount[x]
        /\ refcount[e] \in Nat
    BY <1>1, <1>t DEF TypeOK
  <2> QED BY <1>1, <2>1, <2>2 DEF IndInv, CountExact
<1>6. ExecutesOwnKernel'
  BY <1>1, <1>t DEF IndInv, ExecutesOwnKernel, TypeOK, Idle
<1> QED BY <1>2, <1>3, <1>4, <1>5, <1>6 DEF IndInv

\* So does loading a module.
LEMMA LoadIndInv ==
  ASSUME IndInv, NEW s \in Calls, NEW c \in Cubins, InstantiateLoad(s, c)
  PROVE  IndInv'
<1>0. PICK e \in Freed :
        /\ library' = [library EXCEPT ![e] = c]
        /\ refcount' = [refcount EXCEPT ![e] = 1]
        /\ slot' = Filled(c, e)
        /\ Attach(s, c, e)
  BY DEF InstantiateLoad
<1>t. TypeOK  BY DEF IndInv
<1>1. /\ e \in Entries /\ library[e] = NoLibrary
      /\ slot[c] \notin Entries
      /\ entry[s] = Null /\ Idle(s)
      /\ entry' = [entry EXCEPT ![s] = e]
      /\ cubinId' = [cubinId EXCEPT ![s] = c]
      /\ stage' = [stage EXCEPT ![s] = "instantiated"]
      /\ UNCHANGED function
  BY <1>0 DEF IndInv, InstantiateLoad, Found, Attach, StatesBound, Freed
<1>s. slot' = [slot EXCEPT ![c] = e]
  BY <1>0, <1>1, <1>t DEF Filled, Inserted, TypeOK
<1>f. States(e) = {} /\ refcount[e] = 0
  BY FreedUnused
<1>2. TypeOK'  BY <1>0, <1>1, <1>s, <1>t DEF TypeOK
<1>3. SlotsLoaded'
  <2>1. \A d \in Cubins : slot[d] # e
    BY <1>1, RegistryAssumption DEF IndInv, SlotsLoaded
  <2> QED BY <1>0, <1>1, <1>s, <1>t, <2>1 DEF IndInv, SlotsLoaded, TypeOK
<1>4. LoadedInSlots'
  BY <1>0, <1>1, <1>s, <1>t DEF IndInv, LoadedInSlots, TypeOK
<1>5. StatesBound'
  <2>1. \A u \in Calls \ {s} : ~Idle(u) => entry[u] # e
    BY <1>f DEF States
  <2> QED BY <1>0, <1>1, <1>t, <2>1 DEF IndInv, StatesBound, Idle, TypeOK
<1>6. CountExact'
  <2>1. /\ Cardinality(States(e)') = Cardinality(States(e)) + 1
        /\ \A x \in Entries \ {e} : States(x)' = States(x)
    BY <1>1, <1>t, AttachStates
  <2>2. Cardinality(States(e)) = 0  BY <1>f, FS_EmptySet
  <2>3. /\ refcount'[e] = 1
        /\ \A x \in Entries \ {e} : /\ refcount'[x] = refcount[x]
                                    /\ library'[x] = library[x]
    BY <1>0, <1>1, <1>t DEF TypeOK
  <2> QED BY <2>1, <2>2, <2>3 DEF IndInv, CountExact
<1>7. ExecutesOwnKernel'
  BY <1>1, <1>t DEF IndInv, ExecutesOwnKernel, TypeOK, Idle
<1> QED BY <1>2, <1>3, <1>4, <1>5, <1>6, <1>7 DEF IndInv

\* So does a load that fails.
LEMMA RefusedIndInv ==
  ASSUME IndInv, NEW s \in Calls, NEW c \in Cubins, InstantiateRefused(s, c)
  PROVE  IndInv'
<1>0. UNCHANGED <<library, refcount, entry, cubinId, function, stage>>
  BY DEF InstantiateRefused, Refused
<1>t. TypeOK  BY DEF IndInv
<1>s. \/ slot' = slot
      \/ slot[c] \notin Entries /\ slot' = [slot EXCEPT ![c] = Null]
  <2>1. CASE Found(c)
    BY <2>1 DEF InstantiateRefused, Refused
  <2>2. CASE ~Found(c)
    BY <2>2 DEF InstantiateRefused, Refused, Found
  <2> QED BY <2>1, <2>2
<1>1. TypeOK'  BY <1>0, <1>s, <1>t DEF TypeOK
<1>2. SlotsLoaded'
  BY <1>0, <1>s, <1>t, RegistryAssumption DEF IndInv, SlotsLoaded, TypeOK
<1>3. LoadedInSlots'
  BY <1>0, <1>s, <1>t DEF IndInv, LoadedInSlots, TypeOK
<1>4. StatesBound' /\ CountExact' /\ ExecutesOwnKernel'
  BY <1>0 DEF IndInv, StatesBound, Idle, CountExact, States, ExecutesOwnKernel
<1> QED BY <1>1, <1>2, <1>3, <1>4 DEF IndInv

\* A call that runs finds its own library loaded.
LEMMA RunIndInv ==
  ASSUME IndInv, NEW s \in Calls, Initialize(s) \/ Execute(s)
  PROVE  IndInv'
<1>t. TypeOK  BY DEF IndInv
<1>0. /\ stage[s] # "none"
      /\ stage' = [stage EXCEPT ![s] = "initialized"]
      /\ function' = [function EXCEPT ![s] = library[entry[s]]]
      /\ UNCHANGED <<slot, library, refcount, entry, cubinId>>
  BY <1>t DEF Initialize, Execute, TypeOK
<1>1. library[entry[s]] = cubinId[s] /\ cubinId[s] \in Cubins
  BY <1>0 DEF IndInv, StatesBound, Idle
<1>2. TypeOK'  BY <1>0, <1>1, <1>t DEF TypeOK
<1>3. SlotsLoaded' /\ LoadedInSlots' /\ CountExact'
  BY <1>0 DEF IndInv, SlotsLoaded, LoadedInSlots, CountExact, States
<1>4. StatesBound'
  BY <1>0, <1>t DEF IndInv, StatesBound, Idle, TypeOK
<1>5. ExecutesOwnKernel'
  BY <1>0, <1>1, <1>t DEF IndInv, ExecutesOwnKernel, TypeOK
<1> QED BY <1>2, <1>3, <1>4, <1>5 DEF IndInv

\* So does deleting a state.
LEMMA DeleteIndInv ==
  ASSUME IndInv, NEW s \in Calls, Delete(s)
  PROVE  IndInv'
<1>e. PICK e : e = entry[s]
  OBVIOUS
<1>d. PICK c : c = cubinId[s]
  OBVIOUS
<1>t. TypeOK  BY DEF IndInv
<1>0. /\ ~Idle(s) /\ e \in Entries /\ c \in Cubins /\ library[e] = c
      /\ slot[c] = e
      /\ Release(e, c)
      /\ entry' = [entry EXCEPT ![s] = Null]
      /\ cubinId' = [cubinId EXCEPT ![s] = NoCubin]
      /\ function' = [function EXCEPT ![s] = NoLibrary]
      /\ stage' = [stage EXCEPT ![s] = "none"]
  BY <1>e, <1>d, RegistryAssumption
     DEF IndInv, Delete, StatesBound, LoadedInSlots
<1>n. /\ Cardinality(States(e)') = Cardinality(States(e)) - 1
      /\ Cardinality(States(e)) > 0
      /\ \A x \in Entries \ {e} : States(x)' = States(x)
      /\ Cardinality(States(e)) \in Nat
      /\ refcount[e] = Cardinality(States(e))
  <2>1. refcount[e] = Cardinality(States(e))
    BY <1>0 DEF IndInv, CountExact
  <2> QED BY <2>1, <1>0, <1>e, <1>t, DetachStates, StatesFinite
\* the states that are left refer to it still
<1>o. refcount[e] = 1 => \A u \in Calls \ {s} : entry[u] # e
  <2> SUFFICES ASSUME refcount[e] = 1, NEW u \in Calls \ {s}, entry[u] = e
               PROVE  FALSE
    OBVIOUS
  <2>1. u \in States(e)'
    BY <1>0, <1>t DEF States, TypeOK
  <2>2. Cardinality(States(e)') = 0
    BY <1>n
  <2>3. IsFiniteSet(States(e)')
    <3>1. States(e)' \subseteq Calls  BY DEF States
    <3> QED BY <3>1, RegistryAssumption, FS_Subset
  <2>4. States(e)' = {}
    BY <2>2, <2>3, FS_EmptySet
  <2> QED BY <2>1, <2>4
<1>r. refcount' = [refcount EXCEPT ![e] = @ - 1]
  BY <1>0 DEF Release
<1>c. \/ /\ refcount[e] = 1
         /\ library' = [library EXCEPT ![e] = NoLibrary]
         /\ slot' = [slot EXCEPT ![c] = Null]
      \/ refcount[e] # 1 /\ UNCHANGED <<library, slot>>
  BY <1>0, RegistryAssumption DEF Release, Last, Cleared
<1>1. TypeOK'  BY <1>0, <1>n, <1>r, <1>c, <1>t DEF TypeOK
<1>2. SlotsLoaded'
  BY <1>0, <1>c, <1>t, RegistryAssumption DEF IndInv, SlotsLoaded, TypeOK
<1>3. LoadedInSlots'
  BY <1>0, <1>c, <1>t DEF IndInv, LoadedInSlots, TypeOK
<1>4. StatesBound'
  BY <1>0, <1>c, <1>o, <1>t DEF IndInv, StatesBound, Idle, TypeOK
<1>5. CountExact'
  <2> SUFFICES ASSUME NEW x \in Entries
               PROVE  /\ refcount'[x] = Cardinality(States(x)')
                      /\ library'[x] # NoLibrary => refcount'[x] > 0
    BY DEF CountExact
  <2>1. CASE x = e
    BY <2>1, <1>0, <1>n, <1>r, <1>c, <1>t DEF TypeOK
  <2>2. CASE x # e
    BY <2>2, <1>0, <1>n, <1>r, <1>c, <1>t DEF TypeOK, IndInv, CountExact
  <2> QED BY <2>1, <2>2
<1>6. ExecutesOwnKernel'
  BY <1>0, <1>t DEF IndInv, ExecutesOwnKernel, TypeOK
<1> QED BY <1>1, <1>2, <1>3, <1>4, <1>5, <1>6 DEF IndInv

\* Every step keeps the invariant.
LEMMA NextIndInv ==
  ASSUME IndInv, [Next]_vars
  PROVE  IndInv'
<1>1. CASE Next
  BY <1>1, FoundIndInv, LoadIndInv, RefusedIndInv, RunIndInv, DeleteIndInv
     DEF Next
<1>2. CASE UNCHANGED vars
  BY <1>2 DEF vars, IndInv, TypeOK, SlotsLoaded, LoadedInSlots, StatesBound,
              CountExact, ExecutesOwnKernel, States, Idle
<1> QED BY <1>1, <1>2

-----------------------------------------------------------------------------
(* The theorems *)

\* The strengthened invariant holds in every reachable state.
THEOREM Inductive == Spec => []IndInv
BY InitIndInv, NextIndInv, PTL DEF Spec

\* Every variable keeps its type; above all no count becomes negative.
THEOREM TypeCorrect == Spec => []TypeOK
<1>1. IndInv => TypeOK  BY DEF IndInv
<1> QED BY <1>1, Inductive, PTL

\* The library that a call can execute is loaded, and what it has executed was
\* the kernel of its own cubin.
THEOREM NeverUnloadedInUse == Spec => []NoUseAfterUnload /\ []ExecutesOwnKernel
<1>1. IndInv => NoUseAfterUnload /\ ExecutesOwnKernel
  BY DEF IndInv, StatesBound, NoUseAfterUnload
<1> QED BY <1>1, Inductive, PTL

\* No library stays loaded without a call that can use it, and no cubin is
\* loaded twice.
THEOREM LoadedExactly == Spec => []LoadedWhileUsed
<1>1. IndInv => NoLeak
  <2> SUFFICES ASSUME IndInv, NEW e \in Entries, library[e] # NoLibrary,
                      States(e) = {}
               PROVE  FALSE
    BY DEF NoLeak
  <2> QED BY FS_EmptySet DEF IndInv, CountExact
<1>2. IndInv => LoadedOnce
  BY DEF IndInv, LoadedInSlots, LoadedOnce
<1>3. IndInv => LoadedWhileUsed
  BY <1>1, <1>2 DEF LoadedWhileUsed
<1> QED BY <1>3, Inductive, PTL
=============================================================================
