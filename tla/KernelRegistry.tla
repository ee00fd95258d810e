---------------------------- MODULE KernelRegistry ----------------------------
(***************************************************************************)
(* The kernels that XLA calls share, cext/xla_ffi.cpp.  Each call of a     *)
(* compiled JAX program has a CutileCallState, made when the program is    *)
(* instantiated and deleted by XLA with the program.  The states of one    *)
(* cubin share a KernelEntry, which owns the loaded library and counts the *)
(* states; the registry's slot of the cubin leads to it.  The last state   *)
(* unloads the library and nulls the slot, which a later call fills again. *)
(*                                                                         *)
(* Instantiating and deleting hold the GIL, or the registry's mutex in a   *)
(* free-threaded build, from beginning to end; initializing and executing  *)
(* hold no lock and use whatever the entry of their state leads to.        *)
(***************************************************************************)
EXTENDS Integers, FiniteSets

CONSTANTS Calls,      \* CutileCallState objects
          Cubins,     \* values of cubin_id
          Entries,    \* addresses of KernelEntry objects
          Absent,     \* no slot for the cubin
          Null,       \* the slot's value, or the entry of a call, is nullptr
          NoLibrary, NoCubin

ASSUME RegistryAssumption ==
  /\ IsFiniteSet(Calls)
  /\ Absent \notin Entries \cup {Null}
  /\ Null \notin Entries
  /\ NoLibrary \notin Cubins
  /\ NoCubin \notin Cubins

VARIABLES
  slot,       \* g_kernel_registry->map
  library,    \* library[e]: the cubin loaded in the entry at e, if there is one
  refcount,
  entry,      \* entry[s] and cubinId[s] of each call state
  cubinId,
  function,   \* function[s]: what the last initialize or execute of s found
  stage       \* of each call: "none", "instantiated", "initialized"

vars == <<slot, library, refcount, entry, cubinId, function, stage>>

Freed == {e \in Entries : library[e] = NoLibrary}

States(e) == {s \in Calls : entry[s] = e}

Init ==
  /\ slot = [c \in Cubins |-> Absent]
  /\ library = [e \in Entries |-> NoLibrary]
  /\ refcount = [e \in Entries |-> 0]
  /\ entry = [s \in Calls |-> Null]
  /\ cubinId = [s \in Calls |-> NoCubin]
  /\ function = [s \in Calls |-> NoLibrary]
  /\ stage = [s \in Calls |-> "none"]

-----------------------------------------------------------------------------
(* cutile_call_instantiate *)

Idle(s) == stage[s] = "none"

Found(c) == slot[c] \in Entries

Attach(s, c, e) ==
  /\ entry' = [entry EXCEPT ![s] = e]
  /\ cubinId' = [cubinId EXCEPT ![s] = c]
  /\ stage' = [stage EXCEPT ![s] = "instantiated"]
  /\ UNCHANGED function

Counted(e) == [refcount EXCEPT ![e] = @ + 1]

\* the kernel is there: one more state refers to it
InstantiateFound(s, c) ==
  /\ Idle(s)
  /\ Found(c)
  /\ refcount' = Counted(slot[c])
  /\ Attach(s, c, slot[c])
  /\ UNCHANGED <<slot, library>>

\* HashMap::insert leaves a slot that exists as it is
Inserted(c, e) == IF slot[c] = Absent THEN [slot EXCEPT ![c] = e] ELSE slot

\* a dead slot is resurrected, an absent one inserted
Filled(c, e) == IF slot[c] = Null THEN [slot EXCEPT ![c] = e]
                                  ELSE Inserted(c, e)

\* load_kernel
InstantiateLoad(s, c) ==
  /\ Idle(s)
  /\ ~Found(c)
  /\ \E e \in Freed :
       /\ library' = [library EXCEPT ![e] = c]
       /\ refcount' = [refcount EXCEPT ![e] = 1]
       /\ slot' = Filled(c, e)
       /\ Attach(s, c, e)

\* ~CutileCallState with the entry e and the cubin c, which only deletes the
\* entry when no other state is left
\* Mutant: the library is unloaded for every state.
Last_Always(e) == TRUE

Cleared(c) == IF slot[c] = Absent THEN slot ELSE [slot EXCEPT ![c] = Null]
Last(e) == refcount[e] = 1

Release(e, c) ==
  /\ refcount' = [refcount EXCEPT ![e] = @ - 1]
  /\ IF Last(e)
     THEN library' = [library EXCEPT ![e] = NoLibrary] /\ slot' = Cleared(c)
     ELSE UNCHANGED <<library, slot>>

\* Mutant: a state that was not handed to XLA keeps its reference.
Refused_Kept(c) ==
  /\ refcount' = IF Found(c) THEN Counted(slot[c]) ELSE refcount
  /\ UNCHANGED <<library, slot>>

\* Nothing changes when the kernel cannot be loaded.
\* set_state fails: the state is deleted at once.  A kernel loaded for it is
\* unloaded again, which leaves a dead slot; a kernel that was found keeps its
\* count.
Refused(c) ==
  IF Found(c) THEN UNCHANGED <<slot, library, refcount>>
  ELSE /\ slot' = [slot EXCEPT ![c] = Null]
       /\ UNCHANGED <<library, refcount>>

InstantiateRefused(s, c) ==
  /\ Idle(s)
  /\ Refused(c)
  /\ UNCHANGED <<entry, cubinId, function, stage>>

-----------------------------------------------------------------------------
\* cutile_call_initialize puts the kernel into the context of the caller
Initialize(s) ==
  /\ stage[s] \in {"instantiated", "initialized"}
  /\ function' = [function EXCEPT ![s] = library[entry[s]]]
  /\ stage' = [stage EXCEPT ![s] = "initialized"]
  /\ UNCHANGED <<slot, library, refcount, entry, cubinId>>

\* cutile_call_execute
Execute(s) ==
  /\ stage[s] = "initialized"
  /\ function' = [function EXCEPT ![s] = library[entry[s]]]
  /\ UNCHANGED <<slot, library, refcount, entry, cubinId, stage>>

\* the deleter of kCutileCallStateTypeInfo
Delete(s) ==
  /\ ~Idle(s)
  /\ Release(entry[s], cubinId[s])
  /\ entry' = [entry EXCEPT ![s] = Null]
  /\ cubinId' = [cubinId EXCEPT ![s] = NoCubin]
  /\ function' = [function EXCEPT ![s] = NoLibrary]
  /\ stage' = [stage EXCEPT ![s] = "none"]

Next == \E s \in Calls :
          \/ \E c \in Cubins : \/ InstantiateFound(s, c)
                               \/ InstantiateLoad(s, c)
                               \/ InstantiateRefused(s, c)
          \/ Initialize(s)
          \/ Execute(s)
          \/ Delete(s)

Spec == Init /\ [][Next]_vars

-----------------------------------------------------------------------------
(* Properties *)

TypeOK ==
  /\ slot \in [Cubins -> Entries \cup {Null, Absent}]
  /\ library \in [Entries -> Cubins \cup {NoLibrary}]
  /\ refcount \in [Entries -> Nat]
  /\ entry \in [Calls -> Entries \cup {Null}]
  /\ cubinId \in [Calls -> Cubins \cup {NoCubin}]
  /\ function \in [Calls -> Cubins \cup {NoLibrary}]
  /\ stage \in [Calls -> {"none", "instantiated", "initialized"}]

\* A library that some call can still execute is loaded, and is the library of
\* that call's own cubin.
NoUseAfterUnload ==
  \A s \in Calls : ~Idle(s) => library[entry[s]] = cubinId[s]

\* What a call puts on a stream is its own kernel, never one that was unloaded.
ExecutesOwnKernel ==
  \A s \in Calls : stage[s] = "initialized" => function[s] = cubinId[s]

\* A library is loaded exactly as long as a call refers to it: nothing leaks,
\* however many programs come and go, fail to load or are refused.
NoLeak == \A e \in Entries : library[e] # NoLibrary => States(e) # {}

\* The calls of one cubin share one library.
LoadedOnce ==
  \A e1, e2 \in Entries :
    library[e1] # NoLibrary /\ library[e1] = library[e2] => e1 = e2

\* A cubin is loaded once, and exactly as long as a call refers to it.
LoadedWhileUsed == NoLeak /\ LoadedOnce
=============================================================================
