--------------------------- MODULE TokenOrderProofs ---------------------------
(***************************************************************************)
(* The order of memory operations, for any alias groups, any kernel and    *)
(* any number of operations and nested blocks.                             *)
(*                                                                         *)
(* The properties speak of the input tokens that operations got.  What     *)
(* makes them right is what the token map knows: the token of LAST_OP of   *)
(* an alias set waits for every operation on it so far, that of LAST_STORE *)
(* for every store, the acquire token for every acquire (Knows).  A loop   *)
(* or branch goes back to the tokens from before it, except for those it   *)
(* carries, so the maps of the blocks around have to know everything but   *)
(* what their block's summary speaks of; and what a loop stores in         *)
(* parallel it does not touch otherwise.                                   *)
(***************************************************************************)
EXTENDS TokenOrder, TLAPS

\* the operations so far on an alias set, the stores among them, the acquires
Done(A) == {i \in 1..Len(events) : events[i].alias = A}
Stores(A) == {i \in Done(A) : events[i].kind # "load"}
Acquires == {i \in 1..Len(events) : "acquire" \in events[i].order}

\* m waits for all of it, but for what a block carries
Knows(m, touched, stored, acquire) ==
  /\ \A A \in AliasSets : A \notin touched => Done(A) \subseteq m.op[A]
  /\ \A A \in AliasSets : A \notin stored => Stores(A) \subseteq m.store[A]
  /\ ~acquire => Acquires \subseteq m.acquire

\* m waits for operations of the past, LAST_OP for at least as much
Sound(m) ==
  /\ \A A \in AliasSets : /\ m.op[A] \subseteq 1..Len(events)
                          /\ m.store[A] \subseteq m.op[A]
  /\ m.acquire \subseteq 1..Len(events)

\* tokens only get to wait for more
Grows(m, n) == \A A \in AliasSets : m.op[A] \subseteq n.op[A]

\* f's stores in parallel are the loop's only operations on their alias sets
Apart(f) ==
  \A A \in ParallelSets(f) : \A i \in Done(A) :
    i \in f.saved.op[A] \/ (events[i].parallel /\ events[i].since = f.since)

FrameInv(f) ==
  /\ f.stored \subseteq f.touched
  /\ ParallelSets(f) \subseteq f.stored
  /\ Sound(f.saved)
  /\ Knows(f.saved, f.touched, f.stored, f.acquire)
  /\ Grows(f.saved, token)
  /\ Apart(f)

\* g is a block in f
Inside(f, g) ==
  /\ g.touched \subseteq f.touched /\ g.stored \subseteq f.stored
  /\ g.acquire => f.acquire
  /\ g.touched \cap ParallelSets(f) = {}
  /\ Grows(f.saved, g.saved)

Prints == \A i \in 1..Len(events) :
            events[i].kind = "print" => events[i].alias = Universe

Types ==
  /\ events \in Seq(Events)
  /\ after \in Seq(SUBSET Nat) /\ Len(after) = Len(events)
  /\ token \in TokenMap
  /\ frames \in Seq(Frames)

IndInv ==
  /\ Types
  /\ Prints
  /\ \A j \in 1..Len(events) : after[j] \subseteq 1..(j - 1)
  /\ Sound(token)
  /\ Knows(token, {}, {}, FALSE)
  /\ \A k \in 1..Len(frames) : FrameInv(frames[k])
  /\ \A k, l \in 1..Len(frames) : k < l => Inside(frames[k], frames[l])

\* The inductive invariant contains the type invariant.
LEMMA IndTypeOK == IndInv => TypeOK
BY DEF IndInv, TypeOK, Types, Sound

\* It holds before the first operation.
LEMMA InitInd == Init => IndInv
<1> SUFFICES ASSUME Init PROVE IndInv
  OBVIOUS
<1>1. Len(events) = 0 /\ Len(frames) = 0 /\ Len(after) = 0
  BY DEF Init
<1>2. Types
  BY DEF Init, Types, Root, TokenMap
<1>3. Prints /\ Sound(token) /\ Knows(token, {}, {}, FALSE)
  BY <1>1 DEF Init, Prints, Sound, Knows, Root, Done, Stores, Acquires
<1>4. 1..Len(events) = {} /\ 1..Len(frames) = {}
  BY <1>1
<1> QED BY <1>2, <1>3, <1>4 DEF IndInv

-----------------------------------------------------------------------------
(* Operations *)

\* frames stay what they are, but for what their loops have stored
SameFrames ==
  /\ Len(frames') = Len(frames)
  /\ \A k \in 1..Len(frames) :
       /\ frames'[k].touched = frames[k].touched
       /\ frames'[k].stored = frames[k].stored
       /\ frames'[k].acquire = frames[k].acquire
       /\ frames'[k].parallel = frames[k].parallel
       /\ frames'[k].saved = frames[k].saved
       /\ frames'[k].since = frames[k].since

\* what the four kinds of operations have in common
Executes(A, e, input) ==
  /\ e.alias = A /\ (e.kind = "print" => A = Universe)
  /\ events' = Append(events, e)
  /\ after' = Append(after, input)
  /\ input \subseteq 1..Len(events)
  /\ token' \in TokenMap /\ frames' \in Seq(Frames)
  /\ token.op[A] \cup {Id} \subseteq token'.op[A]
  /\ token'.op[A] \subseteq 1..Id
  /\ token.store[A] \subseteq token'.store[A]
  /\ e.kind # "load" => Id \in token'.store[A]
  /\ token'.store[A] \subseteq token'.op[A]
  /\ \A B \in AliasSets \ {A} : /\ token'.op[B] = token.op[B]
                                /\ token'.store[B] = token.store[B]
  /\ token.acquire \subseteq token'.acquire /\ token'.acquire \subseteq 1..Id
  /\ "acquire" \in e.order => Id \in token'.acquire
  /\ SameFrames
  /\ frames # <<>> =>
       /\ A \in Top.touched
       /\ e.kind # "load" => A \in Top.stored
       /\ "acquire" \in e.order => Top.acquire
       /\ A \in ParallelSets(Top) => e.parallel /\ e.since = Top.since

\* The sets of operations grow by the new one.
LEMMA DoneGrows ==
  ASSUME NEW A, NEW e, events \in Seq(Events), e.alias = A,
         events' = Append(events, e)
  PROVE  /\ Len(events') = Id /\ Id \in Nat
         /\ \A i \in 1..Len(events) : events'[i] = events[i]
         /\ events'[Id] = e
         /\ \A B : Done(B)' = IF B = A THEN Done(B) \cup {Id} ELSE Done(B)
         /\ \A B : Stores(B)' = IF B = A /\ e.kind # "load"
                                THEN Stores(B) \cup {Id} ELSE Stores(B)
         /\ Acquires' = IF "acquire" \in e.order
                        THEN Acquires \cup {Id} ELSE Acquires
<1>1. /\ Len(events') = Id /\ Id \in Nat
      /\ \A i \in 1..Len(events) : events'[i] = events[i]
      /\ events'[Id] = e
  BY DEF Id
<1>2. 1..Id = 1..Len(events) \cup {Id} /\ Id \notin 1..Len(events)
  BY DEF Id
<1>3. \A B : Done(B)' = IF B = A THEN Done(B) \cup {Id} ELSE Done(B)
  BY <1>1, <1>2 DEF Done
<1>4. \A B : Stores(B)' = IF B = A /\ e.kind # "load"
                          THEN Stores(B) \cup {Id} ELSE Stores(B)
  BY <1>1, <1>2, <1>3 DEF Stores, Done
<1>5. Acquires' = IF "acquire" \in e.order
                  THEN Acquires \cup {Id} ELSE Acquires
  BY <1>1, <1>2 DEF Acquires
<1> QED BY <1>1, <1>3, <1>4, <1>5

\* An operation keeps it.
LEMMA ExecuteInd ==
  ASSUME IndInv, NEW A \in AliasSets, NEW e \in Events,
         NEW input \in SUBSET Nat, Executes(A, e, input)
  PROVE  IndInv'
<1>e. Executes(A, e, input)  OBVIOUS
<1>t. Types /\ Types'
  BY DEF IndInv, Types, Executes
<1>d. /\ Len(events') = Id /\ Id \in Nat
      /\ \A i \in 1..Len(events) : events'[i] = events[i]
      /\ events'[Id] = e
      /\ \A B : Done(B)' = IF B = A THEN Done(B) \cup {Id} ELSE Done(B)
      /\ \A B : Stores(B)' = IF B = A /\ e.kind # "load"
                             THEN Stores(B) \cup {Id} ELSE Stores(B)
      /\ Acquires' = IF "acquire" \in e.order
                     THEN Acquires \cup {Id} ELSE Acquires
  BY DoneGrows, <1>e, <1>t DEF Types, Executes
<1>n. 1..Id = 1..Len(events) \cup {Id} /\ Id = Len(events) + 1
  BY <1>t DEF Id, Types
<1>1. Prints'
  BY <1>d, <1>n, <1>e DEF IndInv, Prints, Executes
<1>2. \A j \in 1..Len(events') : after'[j] \subseteq 1..(j - 1)
  <2>1. /\ after'[Id] = input
        /\ \A j \in 1..Len(events) : after'[j] = after[j]
    BY <1>e, <1>t, <1>n DEF Types, Executes
  <2> SUFFICES ASSUME NEW j \in 1..Len(events')
               PROVE  after'[j] \subseteq 1..(j - 1)
    OBVIOUS
  <2>2. CASE j = Id
    <3>1. input \subseteq 1..(Id - 1)
      BY <1>n, <1>e, <1>t DEF Executes, Types
    <3> QED BY <3>1, <2>1, <2>2
  <2>3. CASE j \in 1..Len(events)
    BY <2>1, <2>3 DEF IndInv
  <2> QED BY <2>2, <2>3, <1>d, <1>n
<1>3. Sound(token)'
  BY <1>d, <1>n, <1>e DEF IndInv, Sound, Executes
<1>4. Knows(token, {}, {}, FALSE)'
  <2>1. \A B \in AliasSets : /\ Done(B)' \subseteq token'.op[B]
                             /\ Stores(B)' \subseteq token'.store[B]
    BY <1>d, <1>e DEF IndInv, Knows, Executes
  <2>2. Acquires' \subseteq token'.acquire
    BY <1>d, <1>e DEF IndInv, Knows, Executes
  <2> QED BY <2>1, <2>2 DEF Knows
<1>5. \A k \in 1..Len(frames) : A \in frames[k].touched
      /\ (e.kind # "load" => A \in frames[k].stored)
      /\ ("acquire" \in e.order => frames[k].acquire)
      /\ (A \in ParallelSets(frames[k])
            => e.parallel /\ e.since = frames[k].since)
  <2> SUFFICES ASSUME NEW k \in 1..Len(frames)
               PROVE  /\ A \in frames[k].touched
                      /\ e.kind # "load" => A \in frames[k].stored
                      /\ "acquire" \in e.order => frames[k].acquire
                      /\ A \in ParallelSets(frames[k])
                           => e.parallel /\ e.since = frames[k].since
    OBVIOUS
  <2>1. Len(frames) \in Nat /\ frames # <<>>
    BY <1>t DEF Types
  <2>2. CASE k = Len(frames)
    BY <2>2, <2>1, <1>e DEF Executes, Top
  <2>3. CASE k < Len(frames)
    <3>1. Inside(frames[k], Top)
      BY <2>3, <2>1 DEF IndInv, Top
    <3> QED BY <3>1, <2>1, <1>e DEF Executes, Inside
  <2> QED BY <2>1, <2>2, <2>3
<1>6. \A k \in 1..Len(frames') : FrameInv(frames[k])'
  <2> SUFFICES ASSUME NEW k \in 1..Len(frames)
               PROVE  FrameInv(frames[k])'
    BY <1>e DEF Executes, SameFrames
  <2>i. FrameInv(frames[k])  BY DEF IndInv
  <2>s. /\ frames'[k].touched = frames[k].touched
        /\ frames'[k].stored = frames[k].stored
        /\ frames'[k].acquire = frames[k].acquire
        /\ frames'[k].saved = frames[k].saved
        /\ frames'[k].since = frames[k].since
        /\ ParallelSets(frames[k])' = ParallelSets(frames[k])
    BY <1>e DEF Executes, SameFrames, ParallelSets
  <2>1. Sound(frames[k].saved)'
    BY <2>i, <2>s, <1>d, <1>n DEF FrameInv, Sound
  <2>2. Knows(frames[k].saved, frames[k].touched, frames[k].stored,
              frames[k].acquire)'
    BY <2>i, <2>s, <1>d, <1>5 DEF FrameInv, Knows
  <2>3. Grows(frames[k].saved, token)'
    BY <2>i, <2>s, <1>e DEF FrameInv, Grows, Executes
  <2>4. Apart(frames[k])'
    <3> SUFFICES ASSUME NEW B \in ParallelSets(frames[k]), NEW i \in Done(B)'
                 PROVE  \/ i \in frames[k].saved.op[B]
                        \/ /\ events'[i].parallel
                           /\ events'[i].since = frames[k].since
      BY <2>s DEF Apart
    <3>1. CASE i \in Done(B)
      BY <3>1, <2>i, <1>d DEF FrameInv, Apart, Done
    <3>2. CASE i = Id /\ B = A
      BY <3>2, <1>d, <1>5
    <3> QED BY <3>1, <3>2, <1>d
  <2> QED BY <2>i, <2>s, <2>1, <2>2, <2>3, <2>4 DEF FrameInv
<1>7. \A k, l \in 1..Len(frames') : k < l => Inside(frames[k], frames[l])'
  <2> SUFFICES ASSUME NEW k \in 1..Len(frames), NEW l \in 1..Len(frames), k < l
               PROVE  Inside(frames[k], frames[l])'
    BY <1>e DEF Executes, SameFrames
  <2>i. Inside(frames[k], frames[l])  BY DEF IndInv
  <2>s. /\ frames'[k].touched = frames[k].touched
        /\ frames'[k].stored = frames[k].stored
        /\ frames'[k].acquire = frames[k].acquire
        /\ frames'[k].saved = frames[k].saved
        /\ ParallelSets(frames[k])' = ParallelSets(frames[k])
        /\ frames'[l].touched = frames[l].touched
        /\ frames'[l].stored = frames[l].stored
        /\ frames'[l].acquire = frames[l].acquire
        /\ frames'[l].saved = frames[l].saved
    BY <1>e DEF Executes, SameFrames, ParallelSets
  <2> QED BY <2>i, <2>s DEF Inside, Grows
<1> QED BY <1>t, <1>1, <1>2, <1>3, <1>4, <1>6, <1>7 DEF IndInv

\* what the new operation has to wait for
Ordered(e, input) ==
  \A i \in 1..Len(events) :
    /\ Conflict(events[i], e) /\ (e.parallel => events[i].alias = e.alias)
         => i \in input
    /\ "acquire" \in events[i].order => i \in input
    /\ "release" \in e.order /\ ~e.parallel => i \in input

\* An input token waits for operations of the past, for every acquire, for what
\* the tokens of overlapping alias sets wait for, and with a release for all.
LEMMA InputWaits ==
  ASSUME IndInv, NEW A \in AliasSets, NEW order,
         NEW last \in {token.op, token.store}
  PROVE  /\ Input(last, A, order) \subseteq 1..Len(events)
         /\ Acquires \subseteq Input(last, A, order)
         /\ \A B \in AliasSets : Overlap(B, A)
                                   => last[B] \subseteq Input(last, A, order)
         /\ "release" \in order => 1..Len(events) \subseteq Input(last, A, order)
<1>1. /\ \A B \in AliasSets : /\ last[B] \subseteq 1..Len(events)
                              /\ token.op[B] \subseteq 1..Len(events)
                              /\ Done(B) \subseteq token.op[B]
      /\ token.acquire \subseteq 1..Len(events)
      /\ Acquires \subseteq token.acquire
  BY DEF IndInv, Sound, Knows
<1>2. Input(last, A, order) \subseteq 1..Len(events)
  BY <1>1 DEF Input, Aliased, Released
<1>3. \A B \in AliasSets : Overlap(B, A)
                             => last[B] \subseteq Input(last, A, order)
  BY DEF Input, Aliased, Overlap
<1>4. ASSUME "release" \in order
      PROVE  1..Len(events) \subseteq Input(last, A, order)
  <2> SUFFICES ASSUME NEW i \in 1..Len(events) PROVE i \in Input(last, A, order)
    OBVIOUS
  <2>1. events[i].alias \in AliasSets /\ i \in Done(events[i].alias)
    <3>1. events[i] \in Events
      BY DEF IndInv, Types
    <3> QED BY <3>1 DEF Events, Done
  <2>2. i \in token.op[events[i].alias]
    BY <2>1, <1>1
  <2> QED BY <2>1, <2>2, <1>4 DEF Input, Released
<1> QED BY <1>1, <1>2, <1>3, <1>4 DEF Input

\* An operation conflicts with what has its alias set overlapping, a load with
\* the stores there.
LEMMA InputOrders ==
  ASSUME IndInv, NEW e \in Events, ~e.parallel,
         e.kind = "print" => e.alias = Universe,
         NEW last, last = IF e.kind = "load" THEN token.store ELSE token.op
  PROVE  Ordered(e, Input(last, e.alias, e.order))
<1> DEFINE input == Input(last, e.alias, e.order)
<1> SUFFICES ASSUME NEW i \in 1..Len(events)
             PROVE  /\ Conflict(events[i], e) => i \in input
                    /\ "acquire" \in events[i].order => i \in input
                    /\ "release" \in e.order => i \in input
  BY DEF Ordered
<1>a. e.alias \in AliasSets /\ last \in {token.op, token.store}
  BY DEF Events
<1>1. /\ Acquires \subseteq input
      /\ \A B \in AliasSets : Overlap(B, e.alias) => last[B] \subseteq input
      /\ "release" \in e.order => 1..Len(events) \subseteq input
  BY <1>a, InputWaits
<1> HIDE DEF input
<1>2. "acquire" \in events[i].order => i \in input
  BY <1>1 DEF Acquires
<1>3. events[i].alias \in AliasSets
  <2>1. events[i] \in Events
    BY DEF IndInv, Types
  <2> QED BY <2>1 DEF Events
<1>4. ASSUME Conflict(events[i], e) PROVE i \in input
  <2>1. Overlap(events[i].alias, e.alias)
    <3>1. CASE events[i].kind = "print" /\ e.kind = "print"
      <4>1. events[i].alias = Universe /\ e.alias = Universe
        BY <3>1 DEF IndInv, Prints
      <4> QED BY <4>1, TokenAssumption DEF Overlap, Universe
    <3> QED BY <3>1, <1>4 DEF Conflict
  <2>2. e.kind = "load" => events[i].kind # "load"
    BY <1>4 DEF Conflict
  <2>3. i \in last[events[i].alias]
    <3>1. CASE e.kind = "load"
      <4>1. i \in Stores(events[i].alias)
        BY <3>1, <2>2 DEF Stores, Done
      <4> QED BY <4>1, <1>3, <3>1 DEF IndInv, Knows
    <3>2. CASE e.kind # "load"
      <4>1. i \in Done(events[i].alias)
        BY DEF Done
      <4> QED BY <4>1, <1>3, <3>2 DEF IndInv, Knows
    <3> QED BY <3>1, <3>2
  <2> QED BY <2>1, <2>3, <1>1, <1>3
<1> QED BY <1>1, <1>2, <1>4

\* The alias set of prints is one of the alias sets.
LEMMA UniverseAliasSet == Universe \in AliasSets
<1>1. Groups # {}
  BY TokenAssumption
<1> QED BY <1>1 DEF AliasSets, Universe

\* No alias set is empty.
LEMMA OverlapSelf == \A A \in AliasSets : Overlap(A, A)
BY DEF AliasSets, Overlap

\* frames that stay are the same frames
LEMMA KeptFrames == UNCHANGED frames => SameFrames
BY DEF SameFrames

\* A load is an operation, and ordered.
LEMMA LoadExecutes ==
  ASSUME IndInv, NEW A \in AliasSets, NEW order \in LoadOrders, Load(A, order)
  PROVE  \E e \in Events, input \in SUBSET Nat :
           Executes(A, e, input) /\ Ordered(e, input)
<1> DEFINE e == Event(A, "load", order)
           input == Input(token.store, A, order)
<1>e. /\ e \in Events /\ e.alias = A /\ e.kind = "load" /\ ~e.parallel
      /\ e.order = order
  BY DEF Event, Events, LoadOrders, StoreOrders
<1>i. input \subseteq 1..Len(events)
  BY InputWaits
<1>o. Ordered(e, input)
  BY <1>e, InputOrders
<1>r. /\ events' = Append(events, e) /\ after' = Append(after, input)
      /\ frames' = frames
      /\ token' = [token EXCEPT !.op[A] = @ \cup input \cup {Id},
                       !.acquire = IF "acquire" \in order
                                   THEN input \cup {Id} ELSE @]
  BY DEF Load, Run
<1>c. Contained(A, FALSE, order)
  BY DEF Load
<1> HIDE DEF e, input
<1>n. /\ Len(events) \in Nat /\ Id \in Nat
      /\ 1..Id = 1..Len(events) \cup {Id} /\ 1..Len(events) \subseteq Nat
  BY DEF Id, IndInv, Types
<1>t. token \in TokenMap /\ Sound(token)
  BY DEF IndInv, Types
<1>a. token.acquire \subseteq input
  BY DEF Input, input
<1>1. token' \in TokenMap
  BY <1>r, <1>t, <1>n, <1>i DEF TokenMap
<1>2. /\ token'.op[A] = token.op[A] \cup input \cup {Id}
      /\ token'.store = token.store
      /\ \A B \in AliasSets \ {A} : token'.op[B] = token.op[B]
      /\ token'.acquire = IF "acquire" \in order THEN input \cup {Id}
                          ELSE token.acquire
  BY <1>r, <1>t DEF TokenMap
<1>3. /\ token'.op[A] \subseteq 1..Id /\ token'.acquire \subseteq 1..Id
      /\ token'.store[A] \subseteq token'.op[A]
      /\ token.acquire \subseteq token'.acquire
  BY <1>2, <1>n, <1>i, <1>t, <1>a DEF Sound
<1>4. frames # <<>> =>
        /\ A \in Top.touched /\ A \notin ParallelSets(Top)
        /\ "acquire" \in order => Top.acquire
  BY <1>c DEF Contained, Within
<1>5. Executes(A, e, input)
  <2>1. frames' \in Seq(Frames) /\ SameFrames
    BY <1>r, KeptFrames DEF IndInv, Types
  <2> QED BY <2>1, <1>e, <1>r, <1>i, <1>1, <1>2, <1>3, <1>4 DEF Executes
<1> QED BY <1>5, <1>o, <1>e, <1>i, <1>n

\* So is a store or an atomic operation.
LEMMA WriteExecutes ==
  ASSUME IndInv, NEW A \in AliasSets, NEW order \in StoreOrders, Write(A, order)
  PROVE  \E e \in Events, input \in SUBSET Nat :
           Executes(A, e, input) /\ Ordered(e, input)
<1> DEFINE e == Event(A, "write", order)
           input == Input(token.op, A, order)
<1>e. /\ e \in Events /\ e.alias = A /\ e.kind = "write" /\ ~e.parallel
      /\ e.order = order
  BY DEF Event, Events
<1>i. input \subseteq 1..Len(events)
  BY InputWaits
<1>o. Ordered(e, input)
  BY <1>e, InputOrders
<1>r. /\ events' = Append(events, e) /\ after' = Append(after, input)
      /\ frames' = frames
      /\ token' = [token EXCEPT !.op[A] = input \cup {Id},
                       !.store[A] = input \cup {Id},
                       !.acquire = IF "acquire" \in order
                                   THEN input \cup {Id} ELSE @]
  BY DEF Write, Run, LastOp
<1>c. Contained(A, TRUE, order)
  BY DEF Write
<1>a. /\ token.acquire \subseteq input /\ token.op[A] \subseteq input
      /\ token.store[A] \subseteq token.op[A]
  BY OverlapSelf DEF Input, Aliased, IndInv, Sound
<1> HIDE DEF e, input
<1>n. /\ Len(events) \in Nat /\ Id \in Nat
      /\ 1..Id = 1..Len(events) \cup {Id} /\ 1..Len(events) \subseteq Nat
  BY DEF Id, IndInv, Types
<1>t. token \in TokenMap /\ Sound(token)
  BY DEF IndInv, Types
<1>1. token' \in TokenMap
  BY <1>r, <1>t, <1>n, <1>i DEF TokenMap
<1>2. /\ token'.op[A] = input \cup {Id} /\ token'.store[A] = input \cup {Id}
      /\ \A B \in AliasSets \ {A} : /\ token'.op[B] = token.op[B]
                                    /\ token'.store[B] = token.store[B]
      /\ token'.acquire = IF "acquire" \in order THEN input \cup {Id}
                          ELSE token.acquire
  BY <1>r, <1>t DEF TokenMap
<1>3. /\ token'.op[A] \subseteq 1..Id /\ token'.acquire \subseteq 1..Id
      /\ token.acquire \subseteq token'.acquire
      /\ token.op[A] \cup {Id} \subseteq token'.op[A]
      /\ token.store[A] \subseteq token'.store[A]
  BY <1>2, <1>n, <1>i, <1>t, <1>a DEF Sound
<1>4. frames # <<>> =>
        /\ A \in Top.touched /\ A \in Top.stored /\ A \notin ParallelSets(Top)
        /\ "acquire" \in order => Top.acquire
  BY <1>c DEF Contained, Within
<1>5. Executes(A, e, input)
  <2>1. frames' \in Seq(Frames) /\ SameFrames
    BY <1>r, KeptFrames DEF IndInv, Types
  <2> QED BY <2>1, <1>e, <1>r, <1>i, <1>1, <1>2, <1>3, <1>4 DEF Executes
<1> QED BY <1>5, <1>o, <1>e, <1>i, <1>n

\* So is a print.
LEMMA PrintfExecutes ==
  ASSUME IndInv, Printf
  PROVE  \E e \in Events, input \in SUBSET Nat :
           Executes(Universe, e, input) /\ Ordered(e, input)
<1> DEFINE A == Universe
           e == Event(A, "print", {})
           input == Input(token.op, A, {})
<1>u. A \in AliasSets
  BY UniverseAliasSet
<1>e. /\ e \in Events /\ e.alias = A /\ e.kind = "print" /\ ~e.parallel
      /\ e.order = {}
  BY <1>u DEF Event, Events, StoreOrders
<1>i. input \subseteq 1..Len(events)
  BY <1>u, InputWaits
<1>o. Ordered(e, input)
  BY <1>e, InputOrders
<1>r. /\ events' = Append(events, e) /\ after' = Append(after, input)
      /\ frames' = frames
      /\ token' = [token EXCEPT !.op[A] = input \cup {Id},
                       !.store[A] = input \cup {Id}]
  BY DEF Printf, Run
<1>c. Contained(A, TRUE, {})
  BY DEF Printf
<1>a. /\ token.op[A] \subseteq input
      /\ token.store[A] \subseteq token.op[A]
  BY <1>u, OverlapSelf DEF Input, Aliased, IndInv, Sound
<1> HIDE DEF e, input, A
<1>n. /\ Len(events) \in Nat /\ Id \in Nat
      /\ 1..Id = 1..Len(events) \cup {Id} /\ 1..Len(events) \subseteq Nat
  BY DEF Id, IndInv, Types
<1>t. token \in TokenMap /\ Sound(token)
  BY DEF IndInv, Types
<1>1. token' \in TokenMap
  BY <1>r, <1>t, <1>n, <1>i, <1>u DEF TokenMap
<1>2. /\ token'.op[A] = input \cup {Id} /\ token'.store[A] = input \cup {Id}
      /\ \A B \in AliasSets \ {A} : /\ token'.op[B] = token.op[B]
                                    /\ token'.store[B] = token.store[B]
      /\ token'.acquire = token.acquire
  BY <1>r, <1>t, <1>u DEF TokenMap
<1>3. /\ token'.op[A] \subseteq 1..Id /\ token'.acquire \subseteq 1..Id
      /\ token.op[A] \cup {Id} \subseteq token'.op[A]
      /\ token.store[A] \subseteq token'.store[A]
  BY <1>2, <1>n, <1>i, <1>t, <1>a, <1>u DEF Sound
<1>4. frames # <<>> =>
        A \in Top.touched /\ A \in Top.stored /\ A \notin ParallelSets(Top)
  BY <1>c DEF Contained, Within
<1>5. Executes(A, e, input)
  <2>1. frames' \in Seq(Frames) /\ SameFrames
    BY <1>r, KeptFrames DEF IndInv, Types
  <2>2. e.kind = "print" => A = Universe
    BY DEF A
  <2> QED BY <2>1, <2>2, <1>e, <1>r, <1>i, <1>1, <1>2, <1>3, <1>4 DEF Executes
<1> QED BY <1>5, <1>o, <1>e, <1>i, <1>n DEF A

\* So is a parallel store; what is not in the token from before the loop is the
\* same store in another iteration.
LEMMA ParallelStoreExecutes ==
  ASSUME IndInv, NEW A \in AliasSets, ParallelStore(A)
  PROVE  \E e \in Events, input \in SUBSET Nat :
           Executes(A, e, input) /\ Ordered(e, input)
<1> DEFINE order == IF Top.parallel[A] = "release" THEN {"release"} ELSE {}
           e == [alias |-> A, kind |-> "write", order |-> order,
                 parallel |-> TRUE, since |-> Top.since]
           input == Top.saved.op[A] \cup token.acquire
           result == token.op[A] \cup input \cup {Id}
           n == Len(frames)
<1>f. /\ frames # <<>> /\ n \in 1..n /\ Top = frames[n]
      /\ A \in ParallelSets(Top)
  BY DEF ParallelStore, Within, IndInv, Types, Top
<1>g. Top \in Frames /\ FrameInv(Top)
  BY <1>f DEF IndInv, Types
<1>e. /\ e \in Events /\ e.alias = A /\ e.kind = "write" /\ e.parallel
      /\ e.order \subseteq {"release"} /\ e.since = Top.since
  BY <1>g DEF Events, StoreOrders, Frames
<1>r. /\ events' = Append(events, e) /\ after' = Append(after, input)
      /\ token' = [token EXCEPT !.op[A] = result, !.store[A] = result]
      /\ frames' = [frames EXCEPT ![n].done = @ \cup {A}]
  BY DEF ParallelStore
<1>t. token \in TokenMap /\ Sound(token)
  BY DEF IndInv, Types
<1>i. input \subseteq 1..Len(events) /\ Top.saved.op[A] \subseteq input
  BY <1>g, <1>t DEF FrameInv, Sound
<1>w. Acquires \subseteq input
  BY DEF IndInv, Knows
<1> HIDE DEF e, input, order
<1>n. /\ Len(events) \in Nat /\ Id \in Nat
      /\ 1..Id = 1..Len(events) \cup {Id} /\ 1..Len(events) \subseteq Nat
  BY DEF Id, IndInv, Types
<1>1. /\ result \subseteq 1..Id /\ token.op[A] \cup {Id} \subseteq result
      /\ token.store[A] \subseteq result
  BY <1>n, <1>i, <1>t DEF Sound
<1> HIDE DEF result
<1>2. /\ token' \in TokenMap
      /\ token'.op[A] = result /\ token'.store[A] = result
      /\ \A B \in AliasSets \ {A} : /\ token'.op[B] = token.op[B]
                                    /\ token'.store[B] = token.store[B]
      /\ token'.acquire = token.acquire
  <2>1. token' \in TokenMap
    BY <1>r, <1>t, <1>n, <1>1 DEF TokenMap
  <2> QED BY <2>1, <1>r, <1>t DEF TokenMap
<1>3. frames' \in Seq(Frames) /\ SameFrames
  <2>1. [Top EXCEPT !.done = @ \cup {A}] \in Frames
    BY <1>g DEF Frames
  <2>2. frames' = [frames EXCEPT ![n] = [Top EXCEPT !.done = @ \cup {A}]]
    BY <1>r, <1>f
  <2>3. frames \in Seq(Frames)
    BY DEF IndInv, Types
  <2>4. frames' \in Seq(Frames) /\ Len(frames') = Len(frames)
    BY <2>1, <2>2, <2>3, <1>f
  <2>5. \A k \in 1..n : frames'[k] = IF k = n
                                     THEN [Top EXCEPT !.done = @ \cup {A}]
                                     ELSE frames[k]
    BY <2>2, <2>3
  <2> QED BY <2>4, <2>5, <1>f, <1>g DEF SameFrames, Frames
<1>4. Executes(A, e, input)
  <2>1. A \in Top.stored /\ A \in Top.touched
    BY <1>f, <1>g DEF FrameInv
  <2>2. token.acquire \subseteq 1..Id
    BY <1>n, <1>t DEF Sound
  <2> QED BY <2>1, <2>2, <1>e, <1>r, <1>i, <1>1, <1>2, <1>3, <1>f DEF Executes
<1>5. Ordered(e, input)
  <2> SUFFICES ASSUME NEW i \in 1..Len(events)
               PROVE  /\ Conflict(events[i], e) /\ events[i].alias = A
                           => i \in input
                      /\ "acquire" \in events[i].order => i \in input
    BY <1>e DEF Ordered
  <2>1. ASSUME Conflict(events[i], e), events[i].alias = A PROVE i \in input
    <3>1. ~OtherTiles(events[i], e)
      BY <2>1, <1>e DEF Conflict
    <3>2. i \in Done(A)
      BY <2>1 DEF Done
    <3> QED BY <3>1, <3>2, <1>e, <1>f, <1>g, <1>i DEF OtherTiles, FrameInv, Apart
  <2> QED BY <2>1, <1>w DEF Acquires
<1> QED BY <1>4, <1>5, <1>e, <1>i, <1>n

-----------------------------------------------------------------------------
(* Control flow *)

\* A block that begins keeps the current map for when it ends.
LEMMA EnterInd ==
  ASSUME IndInv, NEW s \in Summaries, NEW kind \in {"loop", "if"},
         NEW p \in Parallels(s), Enter(kind, s, p)
  PROVE  IndInv'
<1> DEFINE f == Frame(kind, s, p)
           n == Len(frames)
<1>s. s \in Effects /\ s.stored \subseteq s.touched
  BY TokenAssumption
<1>r. /\ frames' = Append(frames, f) /\ Nested(s)
      /\ events' = events /\ after' = after /\ token' = token
  BY DEF Enter
<1>t. Types
  BY DEF IndInv
<1>f. /\ f.touched = s.touched /\ f.stored = s.stored /\ f.acquire = s.acquire
      /\ f.saved = token /\ f.since = Len(events)
      /\ ParallelSets(f) \subseteq f.stored
      /\ f \in Frames
  BY <1>s, <1>t DEF Frame, ParallelSets, Parallels, Frames, Effects, Types
<1> HIDE DEF f
<1>n. /\ n \in Nat /\ Len(frames') = n + 1 /\ frames' \in Seq(Frames)
      /\ frames'[n + 1] = f /\ \A k \in 1..n : frames'[k] = frames[k]
  BY <1>r, <1>t, <1>f DEF Types
<1>1. FrameInv(f)
  <2>1. Apart(f)
    BY <1>f DEF Apart, ParallelSets, IndInv, Knows, Frames
  <2>2. Grows(f.saved, token)
    BY <1>f DEF Grows
  <2> QED BY <2>1, <2>2, <1>f, <1>s DEF FrameInv, IndInv, Knows
<1>2. ASSUME NEW k \in 1..n PROVE Inside(frames[k], f)
  <2>1. Grows(frames[k].saved, f.saved)
    BY <1>f DEF IndInv, FrameInv
  <2>2. /\ f.touched \subseteq Top.touched /\ f.stored \subseteq Top.stored
        /\ f.acquire => Top.acquire
        /\ f.touched \cap ParallelSets(Top) = {}
    BY <1>r, <1>f, <1>n, <1>t DEF Nested, Within, Types
  <2>3. CASE k = n
    BY <2>3, <2>1, <2>2 DEF Inside, Top
  <2>4. CASE k < n
    <3>1. Inside(frames[k], Top)
      BY <2>4, <1>n DEF IndInv, Top
    <3> QED BY <3>1, <2>1, <2>2 DEF Inside
  <2> QED BY <2>3, <2>4, <1>n
<1>3. Types' /\ Prints' /\ Sound(token)' /\ Knows(token, {}, {}, FALSE)'
  BY <1>r, <1>t, <1>n DEF IndInv, Types, Prints, Sound, Knows, Done, Stores,
                          Acquires
<1>4. \A j \in 1..Len(events') : after'[j] \subseteq 1..(j - 1)
  BY <1>r DEF IndInv
<1>5. \A k \in 1..Len(frames') : FrameInv(frames[k])'
  <2> SUFFICES ASSUME NEW k \in 1..(n + 1) PROVE FrameInv(frames[k])'
    BY <1>n
  <2>1. PICK g : g = frames'[k] /\ FrameInv(g)
    <3>1. CASE k = n + 1
      BY <3>1, <1>1, <1>n
    <3>2. CASE k \in 1..n
      BY <3>2, <1>n DEF IndInv
    <3> QED BY <3>1, <3>2, <1>n
  <2> QED BY <2>1, <1>r DEF FrameInv, Sound, Knows, Grows, Apart, ParallelSets,
                            Done, Stores, Acquires
<1>6. \A k, l \in 1..Len(frames') : k < l => Inside(frames[k], frames[l])'
  <2> SUFFICES ASSUME NEW k \in 1..(n + 1), NEW l \in 1..(n + 1), k < l
               PROVE  Inside(frames[k], frames[l])'
    BY <1>n
  <2>1. PICK g, h : g = frames'[k] /\ h = frames'[l] /\ Inside(g, h)
    <3>1. CASE l = n + 1
      BY <3>1, <1>2, <1>n
    <3>2. CASE l \in 1..n
      BY <3>2, <1>n DEF IndInv
    <3> QED BY <3>1, <3>2, <1>n
  <2> QED BY <2>1 DEF Inside, Grows, ParallelSets
<1> QED BY <1>3, <1>4, <1>5, <1>6 DEF IndInv

\* The execution leaves or repeats the i-th block, and goes on with the tokens
\* that are handed over.
Leaves(i) ==
  /\ events' = events /\ after' = after /\ token' = Merged(frames[i])
  /\ frames' \in Seq(Frames) /\ Len(frames') \in {i - 1, i}
  /\ \A k \in 1..Len(frames') :
       /\ frames'[k].touched = frames[k].touched
       /\ frames'[k].stored = frames[k].stored
       /\ frames'[k].acquire = frames[k].acquire
       /\ frames'[k].parallel = frames[k].parallel
       /\ frames'[k].saved = frames[k].saved
       /\ frames'[k].since = frames[k].since

\* Leaving or repeating a block keeps the invariant: of what the map of before
\* the block does not know, the block carries the tokens.
LEMMA LeaveInd ==
  ASSUME IndInv, NEW i \in 1..Len(frames), Leaves(i)
  PROVE  IndInv'
<1> DEFINE f == frames[i]
<1>r. /\ events' = events /\ after' = after /\ token' = Merged(f)
      /\ frames' \in Seq(Frames)
  BY DEF Leaves
<1>t. Types /\ f \in Frames /\ FrameInv(f)
  BY DEF IndInv, Types
<1>k. /\ Len(frames') \in Nat /\ i \in 1..Len(frames)
      /\ \A k \in 1..Len(frames') : k \in 1..Len(frames) /\ (k < i \/ k = i)
  BY <1>t DEF Leaves, Types
<1>m. /\ token' \in TokenMap
      /\ \A A \in AliasSets :
           /\ token'.op[A] = IF A \in f.touched THEN token.op[A]
                             ELSE f.saved.op[A]
           /\ token'.store[A] = IF A \in f.stored THEN token.store[A]
                                ELSE f.saved.store[A]
      /\ token'.acquire = IF f.acquire THEN token.acquire ELSE f.saved.acquire
  <2>1. token \in TokenMap /\ f.saved \in TokenMap
    BY <1>t DEF Types, Frames
  <2> QED BY <2>1, <1>r DEF Merged, CarriesStore, CarriesAcquire, TokenMap
<1> HIDE DEF f
<1>1. Types' /\ Prints'
  BY <1>r, <1>t, <1>m DEF IndInv, Types, Prints
<1>2. \A j \in 1..Len(events') : after'[j] \subseteq 1..(j - 1)
  BY <1>r DEF IndInv
<1>3. Sound(token)'
  BY <1>r, <1>t, <1>m DEF IndInv, Sound, FrameInv, Grows
<1>4. Knows(token, {}, {}, FALSE)'
  <2>1. ASSUME NEW A \in AliasSets
        PROVE  /\ Done(A) \subseteq token'.op[A]
               /\ Stores(A) \subseteq token'.store[A]
    BY <1>t, <1>m DEF IndInv, Knows, FrameInv
  <2>2. Acquires \subseteq token'.acquire
    BY <1>t, <1>m DEF IndInv, Knows, FrameInv
  <2> QED BY <2>1, <2>2, <1>r DEF Knows, Done, Stores, Acquires
<1>5. \A k \in 1..Len(frames') : FrameInv(frames[k])'
  <2> SUFFICES ASSUME NEW k \in 1..Len(frames') PROVE FrameInv(frames[k])'
    OBVIOUS
  <2>i. FrameInv(frames[k])
    BY <1>k DEF IndInv
  <2>s. /\ frames'[k].touched = frames[k].touched
        /\ frames'[k].stored = frames[k].stored
        /\ frames'[k].acquire = frames[k].acquire
        /\ frames'[k].saved = frames[k].saved
        /\ frames'[k].since = frames[k].since
        /\ ParallelSets(frames[k])' = ParallelSets(frames[k])
    BY DEF Leaves, ParallelSets
  <2>1. Grows(frames[k].saved, token)'
    <3>1. Grows(frames[k].saved, f.saved)
      <4>1. CASE k = i
        BY <4>1 DEF Grows, f
      <4>2. CASE k < i
        BY <4>2, <1>k DEF IndInv, Inside, f
      <4> QED BY <4>1, <4>2, <1>k
    <3> QED BY <3>1, <2>i, <2>s, <1>m DEF Grows, FrameInv
  <2>2. Sound(frames[k].saved)'
    BY <2>i, <2>s, <1>r DEF FrameInv, Sound
  <2>3. Knows(frames[k].saved, frames[k].touched, frames[k].stored,
              frames[k].acquire)'
    BY <2>i, <2>s, <1>r DEF FrameInv, Knows, Done, Stores, Acquires
  <2>4. Apart(frames[k])'
    BY <2>i, <2>s, <1>r DEF FrameInv, Apart, Done
  <2> QED BY <2>i, <2>s, <2>1, <2>2, <2>3, <2>4 DEF FrameInv
<1>6. \A k, l \in 1..Len(frames') : k < l => Inside(frames[k], frames[l])'
  <2> SUFFICES ASSUME NEW k \in 1..Len(frames'), NEW l \in 1..Len(frames'),
                      k < l
               PROVE  Inside(frames[k], frames[l])'
    OBVIOUS
  <2>i. Inside(frames[k], frames[l])
    BY <1>k DEF IndInv
  <2>s. /\ frames'[k].touched = frames[k].touched
        /\ frames'[k].stored = frames[k].stored
        /\ frames'[k].acquire = frames[k].acquire
        /\ frames'[k].saved = frames[k].saved
        /\ ParallelSets(frames[k])' = ParallelSets(frames[k])
        /\ frames'[l].touched = frames[l].touched
        /\ frames'[l].stored = frames[l].stored
        /\ frames'[l].acquire = frames[l].acquire
        /\ frames'[l].saved = frames[l].saved
    BY DEF Leaves, ParallelSets
  <2> QED BY <2>i, <2>s DEF Inside, Grows
<1> QED BY <1>1, <1>2, <1>3, <1>4, <1>5, <1>6 DEF IndInv

\* The end of a branch leaves the innermost block.
LEMMA EndBranchLeaves ==
  ASSUME IndInv, EndBranch
  PROVE  \E i \in 1..Len(frames) : Leaves(i)
<1>1. frames \in Seq(Frames) /\ frames # <<>>
  BY DEF IndInv, Types, EndBranch, Within
<1>2. PICK i : i = Len(frames)
  OBVIOUS
<1>3. i \in 1..Len(frames)
  BY <1>1, <1>2
<1>4. /\ token' = Merged(frames[i]) /\ frames' = SubSeq(frames, 1, i - 1)
      /\ events' = events /\ after' = after
  BY <1>2 DEF EndBranch, Top
<1>5. /\ frames' \in Seq(Frames) /\ Len(frames') = i - 1
      /\ \A k \in 1..Len(frames') : frames'[k] = frames[k]
  BY <1>1, <1>3, <1>4
<1> QED BY <1>3, <1>4, <1>5 DEF Leaves

\* Break leaves the innermost loop.
LEMMA BreakLeaves ==
  ASSUME IndInv, Break
  PROVE  \E i \in 1..Len(frames) : Leaves(i)
<1>1. frames \in Seq(Frames)
  BY DEF IndInv, Types
<1>2. PICK i \in 1..Len(frames) : /\ token' = Merged(frames[i])
                                  /\ frames' = SubSeq(frames, 1, i - 1)
                                  /\ events' = events /\ after' = after
  BY <1>1 DEF Break
<1>3. /\ frames' \in Seq(Frames) /\ Len(frames') = i - 1
      /\ \A k \in 1..Len(frames') : frames'[k] = frames[k]
  BY <1>1, <1>2
<1> QED BY <1>2, <1>3 DEF Leaves

\* Continue repeats it.
LEMMA ContinueLeaves ==
  ASSUME IndInv, Continue
  PROVE  \E i \in 1..Len(frames) : Leaves(i)
<1>1. frames \in Seq(Frames)
  BY DEF IndInv, Types
<1>2. PICK i \in DOMAIN frames :
        /\ token' = Merged(frames[i])
        /\ frames' = [SubSeq(frames, 1, i) EXCEPT ![i].done = {}]
        /\ events' = events /\ after' = after
  BY DEF Continue
<1> DEFINE g == [frames[i] EXCEPT !.done = {}]
           start == SubSeq(frames, 1, i)
<1>3. i \in 1..Len(frames) /\ frames[i] \in Frames
  BY <1>1
<1>4. /\ g \in Frames
      /\ g.touched = frames[i].touched /\ g.stored = frames[i].stored
      /\ g.acquire = frames[i].acquire /\ g.parallel = frames[i].parallel
      /\ g.saved = frames[i].saved /\ g.since = frames[i].since
  BY <1>3 DEF Frames
<1>5. /\ start \in Seq(Frames) /\ Len(start) = i
      /\ \A k \in 1..i : start[k] = frames[k]
  BY <1>1, <1>3
<1>6. start[i] = frames[i]
  BY <1>3, <1>5
<1>7. frames' = [start EXCEPT ![i] = [start[i] EXCEPT !.done = {}]]
  BY <1>2
<1>8. frames' = [start EXCEPT ![i] = g]
  BY <1>6, <1>7
<1> HIDE DEF g, start
<1>9. /\ frames' \in Seq(Frames) /\ Len(frames') = i
      /\ \A k \in 1..i : frames'[k] = IF k = i THEN g ELSE frames[k]
  BY <1>3, <1>4, <1>5, <1>8
<1> QED BY <1>2, <1>3, <1>4, <1>9 DEF Leaves

-----------------------------------------------------------------------------
(* Theorems *)

Orders == ProgramOrder /\ AcquireOrder /\ ReleaseOrder

\* An operation keeps the orders: the pairs it is the later one of are those
\* that its input token orders.
LEMMA ExecuteOrders ==
  ASSUME IndInv, Orders, NEW A \in AliasSets, NEW e \in Events,
         NEW input \in SUBSET Nat, Executes(A, e, input), Ordered(e, input)
  PROVE  Orders'
<1>t. /\ events \in Seq(Events) /\ after \in Seq(SUBSET Nat)
      /\ Len(after) = Len(events)
      /\ events' = Append(events, e) /\ after' = Append(after, input)
  BY DEF IndInv, Types, Executes
<1>1. /\ Len(events') = Id /\ Id = Len(events) + 1 /\ Len(events) \in Nat
      /\ \A i \in 1..Len(events) : events'[i] = events[i] /\ after'[i] = after[i]
      /\ events'[Id] = e /\ after'[Id] = input
  BY <1>t DEF Id
<1>2. ASSUME NEW i \in 1..Id, NEW j \in 1..Id, i < j
      PROVE  /\ events'[i] = events[i] /\ i \in 1..Len(events)
             /\ \/ /\ j = Id /\ events'[j] = e /\ after'[j] = input
                \/ /\ <<i, j>> \in Pairs
                   /\ events'[j] = events[j] /\ after'[j] = after[j]
  BY <1>1, <1>2 DEF Pairs
<1>3. ASSUME NEW i \in 1..Id, NEW j \in 1..Id, i < j
      PROVE  /\ Conflict(events'[i], events'[j])
               /\ (events'[j].parallel => events'[i].alias = events'[j].alias)
                  => i \in after'[j]
             /\ "acquire" \in events'[i].order => i \in after'[j]
             /\ "release" \in events'[j].order /\ ~events'[j].parallel
                  => i \in after'[j]
  <2>0. events'[i] = events[i] /\ i \in 1..Len(events)
    BY <1>2, <1>3
  <2>1. CASE j = Id /\ events'[j] = e /\ after'[j] = input
    BY <2>0, <2>1 DEF Ordered
  <2>2. CASE <<i, j>> \in Pairs /\ events'[j] = events[j] /\ after'[j] = after[j]
    <3>1. PICK p \in Pairs : p[1] = i /\ p[2] = j
      BY <2>2
    <3> QED BY <3>1, <2>0, <2>2
            DEF Orders, ProgramOrder, AcquireOrder, ReleaseOrder
  <2> QED BY <1>2, <1>3, <2>1, <2>2
<1>4. \A p \in Pairs' : p[1] \in 1..Id /\ p[2] \in 1..Id /\ p[1] < p[2]
  BY <1>1 DEF Pairs
<1>5. ProgramOrder'
  <2> SUFFICES ASSUME NEW p \in Pairs',
                      Conflict(events'[p[1]], events'[p[2]]),
                      events'[p[2]].parallel
                        => events'[p[1]].alias = events'[p[2]].alias
               PROVE  p[1] \in after'[p[2]]
    BY DEF ProgramOrder, Conflict, OtherTiles, Overlap
  <2> QED BY <1>3, <1>4
<1>6. AcquireOrder' /\ ReleaseOrder'
  BY <1>3, <1>4 DEF AcquireOrder, ReleaseOrder
<1> QED BY <1>5, <1>6 DEF Orders

\* Every step keeps the invariant and the orders.
LEMMA Step == IndInv /\ Orders /\ [Next]_vars => IndInv' /\ Orders'
<1> SUFFICES ASSUME IndInv, Orders, [Next]_vars PROVE IndInv' /\ Orders'
  OBVIOUS
\* an operation has what the operations have in common
<1>e. ASSUME NEW A \in AliasSets,
             \E e \in Events, input \in SUBSET Nat :
               Executes(A, e, input) /\ Ordered(e, input)
      PROVE  IndInv' /\ Orders'
  BY <1>e, ExecuteInd, ExecuteOrders
\* the orders speak of operations only
<1>o. ASSUME events' = events, after' = after PROVE Orders'
  BY <1>o DEF Orders, ProgramOrder, AcquireOrder, ReleaseOrder, Pairs
<1>1. ASSUME NEW A \in AliasSets, NEW order \in LoadOrders, Load(A, order)
      PROVE  IndInv' /\ Orders'
  BY <1>1, <1>e, LoadExecutes
<1>2. ASSUME NEW A \in AliasSets, NEW order \in StoreOrders, Write(A, order)
      PROVE  IndInv' /\ Orders'
  BY <1>2, <1>e, WriteExecutes
<1>3. ASSUME NEW A \in AliasSets, ParallelStore(A)
      PROVE  IndInv' /\ Orders'
  BY <1>3, <1>e, ParallelStoreExecutes
<1>4. CASE Printf
  BY <1>4, <1>e, PrintfExecutes, UniverseAliasSet
<1>5. ASSUME NEW s \in Summaries, EnterLoop(s) PROVE IndInv' /\ Orders'
  <2>1. PICK p \in Parallels(s) : Enter("loop", s, p)
    BY <1>5 DEF EnterLoop
  <2>2. events' = events /\ after' = after
    BY <2>1 DEF Enter
  <2> QED BY <2>1, <2>2, <1>o, EnterInd
<1>6. ASSUME NEW s \in Summaries, EnterIf(s) PROVE IndInv' /\ Orders'
  <2>1. NoParallel \in Parallels(s)
    BY DEF NoParallel, Parallels
  <2>2. Enter("if", s, NoParallel) /\ events' = events /\ after' = after
    BY <1>6 DEF EnterIf, Enter
  <2> QED BY <2>1, <2>2, <1>o, EnterInd
<1>7. CASE EndBranch
  <2>1. events' = events /\ after' = after
    BY <1>7 DEF EndBranch
  <2> QED BY <1>7, <2>1, <1>o, EndBranchLeaves, LeaveInd
<1>8. CASE Continue
  <2>1. events' = events /\ after' = after
    BY <1>8 DEF Continue
  <2> QED BY <1>8, <2>1, <1>o, ContinueLeaves, LeaveInd
<1>9. CASE Break
  <2>1. events' = events /\ after' = after
    BY <1>9 DEF Break
  <2> QED BY <1>9, <2>1, <1>o, BreakLeaves, LeaveInd
<1>10. CASE UNCHANGED vars
  <2>1. IndInv'
    BY <1>10 DEF vars, IndInv, Types, Prints, Sound, Knows, FrameInv, Inside,
                 Grows, Apart, ParallelSets, Done, Stores, Acquires
  <2> QED BY <2>1, <1>10, <1>o DEF vars
<1> QED BY <1>1, <1>2, <1>3, <1>4, <1>5, <1>6, <1>7, <1>8, <1>9, <1>10
        DEF Next, Operate

\* Every map knows all but what its block carries, and the orders hold.
THEOREM Inductive == Spec => [](IndInv /\ Orders)
<1>1. Init => Orders
  BY DEF Init, Orders, ProgramOrder, AcquireOrder, ReleaseOrder, Pairs
<1> QED BY <1>1, InitInd, Step, PTL DEF Spec

\* Types, and tokens wait for operations of the past only.
THEOREM TypeCorrect == Spec => []TypeOK
BY Inductive, IndTypeOK, PTL

\* Conflicting operations of a block stay in the order of the program.
THEOREM ProgramOrdered == Spec => []ProgramOrder
<1>1. Orders => ProgramOrder
  BY DEF Orders
<1> QED BY <1>1, Inductive, PTL

\* Nothing overtakes an acquire.
THEOREM AcquireOrdered == Spec => []AcquireOrder
<1>1. Orders => AcquireOrder
  BY DEF Orders
<1> QED BY <1>1, Inductive, PTL

\* A release that is not a parallel store waits for all that came before it.
THEOREM ReleaseOrdered == Spec => []ReleaseOrder
<1>1. Orders => ReleaseOrder
  BY DEF Orders
<1> QED BY <1>1, Inductive, PTL
=============================================================================
