---------------------------- MODULE DiskCacheProofs ----------------------------
(***************************************************************************)
(* The disk cache, for any number of processes, keys and files.  Locks: a  *)
(* process that is not inside a transaction holds none.  Sums: what the    *)
(* sizes of a set of rows add up to, which the model takes from a fold.    *)
(* Eviction: what a transaction of evict_lru has removed from its database *)
(* so far, which no other process changes meanwhile.                       *)
(***************************************************************************)
EXTENDS DiskCache, FiniteSetTheorems, TLAPS

\* With NoStaleLock, what makes it inductive: a process has the lock of the
\* database in which it has a transaction.
LockHeld ==
  \A p \in Procs : pc[p] \in {"delete", "commit"} => writer[conn[p]] = p

IndInv == TypeOK /\ NoStaleLock /\ LockHeld

-----------------------------------------------------------------------------
(* Parts of actions *)

\* What is left of the files are tables.
LEMMA ReapedType ==
  ASSUME NEW cur, NEW con, NEW tables \in [Files -> [Keys -> Times \cup {Absent}]]
  PROVE  Reaped(cur, con, tables) \in [Files -> [Keys -> Times \cup {Absent}]]
BY DEF Reaped, Empty

\* A process that opens a file has no lock, and does not need one.
LEMMA OpenFileInv ==
  ASSUME IndInv, NEW p \in Procs, pc[p] \in {"connect", "reopen"}, OpenFile(p)
  PROVE  IndInv'
<1> USE DEF IndInv
<1>1. PICK f \in Opened(current) :
        /\ current' = f /\ conn' = [conn EXCEPT ![p] = f]
        /\ pc' = [pc EXCEPT ![p] = "execute"]
        /\ UNCHANGED <<table, writer, damaged, op, key, pending, batch>>
  BY DEF OpenFile, Goto
<1>2. f \in Files
  BY DEF TypeOK, Opened, Unreached
<1>3. TypeOK'
  BY <1>1, <1>2, CacheAssumption DEF TypeOK
<1>4. NoStaleLock' /\ LockHeld'
  BY <1>1 DEF TypeOK, NoStaleLock, LockHeld
<1> QED BY <1>3, <1>4

\* A process that closes its connection releases its lock, whether it goes
\* on, returns or is killed.
LEMMA CloseInv ==
  ASSUME IndInv, NEW p \in Procs,
         NEW tables \in [Files -> [Keys -> Times \cup {Absent}]],
         Close(p, tables), UNCHANGED current,
         Return(p) \/ Continue(p)
  PROVE  IndInv'
<1> USE DEF IndInv
<1>1. /\ conn' = [conn EXCEPT ![p] = NoFile]
      /\ writer' = [f \in Files |-> IF writer[f] = p THEN NoProc ELSE writer[f]]
      /\ table' = Reaped(current, conn', tables)
      /\ damaged' \subseteq damaged
      /\ pending' = [pending EXCEPT ![p] = Empty]
      /\ batch' = [batch EXCEPT ![p] = RowLimit]
  BY DEF Close, Unlocked
<1>2. PICK at \in {"idle", "connect", "compile"} : pc' = [pc EXCEPT ![p] = at]
  BY DEF Return, Continue, Goto
<1>3. op' \in [Procs -> Operations] /\ key' \in [Procs -> Keys \cup {NoKey}]
  BY DEF Return, Continue, TypeOK, Operations
<1>4. table' \in [Files -> [Keys -> Times \cup {Absent}]]
  BY <1>1, ReapedType
<1>5. TypeOK'
  BY <1>1, <1>2, <1>3, <1>4, CacheAssumption DEF TypeOK, Empty
<1>6. NoStaleLock' /\ LockHeld'
  BY <1>1, <1>2, CacheAssumption DEF TypeOK, NoStaleLock, LockHeld
<1> QED BY <1>5, <1>6

\* A transaction begins in a database that nobody writes.
LEMMA WriteInv ==
  ASSUME IndInv, NEW p \in Procs, pc[p] = "execute",
         NEW t \in [Keys -> Times \cup {Absent}], NEW at \in {"delete", "commit"},
         Write(p, t, at)
  PROVE  IndInv'
<1> USE DEF IndInv
<1>1. /\ writer[conn[p]] = NoProc
      /\ writer' = [writer EXCEPT ![conn[p]] = p]
      /\ pending' = [pending EXCEPT ![p] = t]
      /\ pc' = [pc EXCEPT ![p] = at]
      /\ UNCHANGED <<current, table, damaged, op, key, conn, batch>>
  BY DEF Write, Goto
<1>2. conn[p] \in Files
  BY DEF TypeOK
<1>3. TypeOK'
  BY <1>1, <1>2 DEF TypeOK
<1>4. NoStaleLock' /\ LockHeld'
  BY <1>1, <1>2, CacheAssumption DEF TypeOK, NoStaleLock, LockHeld
<1> QED BY <1>3, <1>4

\* A step of a process without a lock that keeps everything but where it is
\* and what it does keeps it without a lock.
LEMMA MoveInv ==
  ASSUME IndInv, NEW p \in Procs, pc[p] \in {"idle", "connect", "unlink", "compile"},
         NEW at \in {"idle", "connect", "unlink", "reopen", "compile"},
         pc' = [pc EXCEPT ![p] = at],
         op' \in [Procs -> Operations], key' \in [Procs -> Keys \cup {NoKey}],
         current' \in Files \cup {NoFile},
         table' \in [Files -> [Keys -> Times \cup {Absent}]],
         damaged' \subseteq Files,
         UNCHANGED <<writer, conn, pending, batch>>
  PROVE  IndInv'
<1>1. TypeOK'
  BY DEF IndInv, TypeOK
<1>2. NoStaleLock' /\ LockHeld'
  BY DEF IndInv, TypeOK, NoStaleLock, LockHeld
<1> QED BY <1>1, <1>2 DEF IndInv

-----------------------------------------------------------------------------
(* The steps *)

\* Nobody has a lock at first.
LEMMA InitInv == Init => IndInv
<1> SUFFICES ASSUME Init PROVE IndInv
  OBVIOUS
<1>1. TypeOK
  BY CacheAssumption DEF Init, TypeOK, Empty, Operations
<1>2. NoStaleLock /\ LockHeld
  BY DEF Init, NoStaleLock, LockHeld
<1> QED BY <1>1, <1>2 DEF IndInv

\* A DELETE statement keeps the transaction, or ends the loop.
LEMMA DeleteInv ==
  ASSUME IndInv, NEW p \in Procs, Delete(p)
  PROVE  IndInv'
<1> USE DEF IndInv
<1>1. PICK gone : pending' = [pending EXCEPT ![p] = Without(@, gone)]
  BY DEF Delete
<1>2. Without(pending[p], gone) \in [Keys -> Times \cup {Absent}]
  BY DEF Without, TypeOK
<1>3. /\ pc[p] = "delete"
      /\ pc' = pc \/ pc' = [pc EXCEPT ![p] = "commit"]
      /\ batch' = batch \/ batch' = [batch EXCEPT ![p] = @ * RowGrowth]
      /\ UNCHANGED <<current, table, writer, damaged, op, key, conn>>
  BY DEF Delete, Goto
<1>4. batch' \in [Procs -> Nat]
  <2>1. batch[p] * RowGrowth \in Nat
    BY CacheAssumption DEF TypeOK
  <2> QED BY <1>3, <2>1 DEF TypeOK
<1>5. TypeOK'
  BY <1>1, <1>2, <1>3, <1>4 DEF TypeOK
<1>6. DOMAIN pc = Procs
  BY DEF TypeOK
<1>7. \A q \in Procs : q # p => pc'[q] = pc[q]
  BY <1>3, <1>6
<1>8. pc'[p] \in {"delete", "commit"}
  BY <1>3, <1>6
<1>9. conn' = conn /\ writer' = writer /\ writer[conn[p]] = p
  BY <1>3 DEF LockHeld
<1>10. NoStaleLock'
  <2> SUFFICES ASSUME NEW f \in Files, writer[f] # NoProc
               PROVE  conn[writer[f]] = f /\ pc'[writer[f]] \in {"delete", "commit"}
    BY <1>9 DEF NoStaleLock
  <2>1. writer[f] \in Procs
    BY DEF TypeOK
  <2>2. conn[writer[f]] = f /\ pc[writer[f]] \in {"delete", "commit"}
    BY DEF NoStaleLock
  <2> QED BY <1>7, <1>8, <2>1, <2>2
<1>11. LockHeld'
  <2> SUFFICES ASSUME NEW q \in Procs, pc'[q] \in {"delete", "commit"}
               PROVE  writer[conn[q]] = q
    BY <1>9 DEF LockHeld
  <2> QED BY <1>3, <1>7, <1>9 DEF LockHeld
<1> QED BY <1>5, <1>10, <1>11

\* Every step of a process preserves the invariant.
LEMMA WorkInv ==
  ASSUME IndInv, NEW p \in Procs, Work(p)
  PROVE  IndInv'
<1>t. TypeOK
  BY DEF IndInv
<1>1. CASE Connect(p)
  BY <1>1, OpenFileInv DEF Connect
<1>2. CASE OpenFails(p)
  BY <1>2, <1>t, MoveInv DEF OpenFails, Goto, TypeOK
<1>3. CASE Unlink(p)
  <2>1. /\ pc[p] = "unlink" /\ pc' = [pc EXCEPT ![p] = "reopen"]
        /\ current' \in Files \cup {NoFile}
        /\ table' = Reaped(current', conn, table)
        /\ damaged' \subseteq Files
        /\ UNCHANGED <<writer, op, key, conn, pending, batch>>
    BY <1>3, <1>t DEF Unlink, Goto, TypeOK
  <2>2. table' \in [Files -> [Keys -> Times \cup {Absent}]]
    BY <2>1, <1>t, ReapedType DEF TypeOK
  <2> QED BY <2>1, <2>2, <1>t, MoveInv DEF TypeOK
<1>4. CASE Reopen(p)
  BY <1>4, OpenFileInv DEF Reopen
<1>5. CASE Miss(p)
  BY <1>5, <1>t, CloseInv DEF Miss, TypeOK
<1>6. CASE BeginEvict(p)
  <2>1. pc[p] = "execute" /\ Write(p, table[conn[p]], "delete")
    BY <1>6 DEF BeginEvict
  <2>2. table[conn[p]] \in [Keys -> Times \cup {Absent}]
    BY <2>1, <1>t DEF TypeOK
  <2> QED BY <2>1, <2>2, WriteInv
<1>7. CASE Delete(p)
  BY <1>7, DeleteInv
<1>8. CASE Commit(p)
  <2>1. Committed(p) \in [Files -> [Keys -> Times \cup {Absent}]]
    BY <1>t DEF Committed, TypeOK
  <2>2. Close(p, Committed(p)) /\ UNCHANGED current /\ (Return(p) \/ Continue(p))
    BY <1>8 DEF Commit
  <2> QED BY <2>1, <2>2, CloseInv
<1>9. CASE \E now \in Times : Touch(p, now) \/ Insert(p, now)
  <2>1. PICK now \in Times : Touch(p, now) \/ Insert(p, now)
    BY <1>9
  <2>2. pc[p] = "execute"
    BY <2>1 DEF Touch, Insert
  <2>3. /\ table[conn[p]] \in [Keys -> Times \cup {Absent}]
        /\ [table[conn[p]] EXCEPT ![key[p]] = now] \in [Keys -> Times \cup {Absent}]
    BY <2>2, <1>t DEF TypeOK
  <2>4. CASE Touch(p, now)
    BY <2>2, <2>3, <2>4, WriteInv DEF Touch
  <2>5. CASE Insert(p, now)
    <3>1. PICK t \in [Keys -> Times \cup {Absent}] : Write(p, t, "commit")
      BY <2>3, <2>5 DEF Insert
    <3> QED BY <3>1, <2>2, WriteInv
  <2> QED BY <2>1, <2>4, <2>5
<1>10. CASE Compile(p)
  <2>1. PICK at \in {"idle", "connect"} : pc' = [pc EXCEPT ![p] = at]
    BY <1>10 DEF Compile, Return, Goto
  <2>2. op' \in [Procs -> Operations] /\ key' \in [Procs -> Keys \cup {NoKey}]
    BY <1>10, <1>t DEF Compile, Return, TypeOK, Operations
  <2> QED BY <1>10, <2>1, <2>2, <1>t, MoveInv DEF Compile, TypeOK
<1>11. CASE Fails(p)
  BY <1>11, <1>t, CloseInv DEF Fails, TypeOK
<1> QED BY <1>1, <1>2, <1>3, <1>4, <1>5, <1>6, <1>7, <1>8, <1>9, <1>10, <1>11
        DEF Work

\* So does every step of the system: a process that is killed has its
\* transaction rolled back.
LEMMA NextInv == IndInv /\ [Next]_vars => IndInv'
<1> SUFFICES ASSUME IndInv, [Next]_vars PROVE IndInv'
  OBVIOUS
<1>t. TypeOK
  BY DEF IndInv
<1>1. ASSUME NEW p \in Procs, NEW k \in Keys, Call(p, k) PROVE IndInv'
  <2>1. /\ pc[p] = "idle" /\ pc' = [pc EXCEPT ![p] = "connect"]
        /\ op' = [op EXCEPT ![p] = "lookup"] /\ key' = [key EXCEPT ![p] = k]
        /\ UNCHANGED <<current, table, writer, damaged, conn, pending, batch>>
    BY <1>1 DEF Call, Goto
  <2>2. op' \in [Procs -> Operations] /\ key' \in [Procs -> Keys \cup {NoKey}]
    BY <2>1, <1>t DEF TypeOK, Operations
  <2> QED BY <2>1, <2>2, <1>t, MoveInv DEF TypeOK
<1>2. ASSUME NEW p \in Procs, DirectoryFails(p) PROVE IndInv'
  <2>1. PICK at \in {"idle", "connect", "compile"} : pc' = [pc EXCEPT ![p] = at]
    BY <1>2 DEF DirectoryFails, Return, Continue, Goto
  <2>2. op' \in [Procs -> Operations] /\ key' \in [Procs -> Keys \cup {NoKey}]
    BY <1>2, <1>t DEF DirectoryFails, Return, Continue, TypeOK, Operations
  <2> QED BY <1>2, <2>1, <2>2, <1>t, MoveInv DEF DirectoryFails, TypeOK
<1>3. ASSUME NEW p \in Procs, Crash(p) PROVE IndInv'
  BY <1>3, <1>t, CloseInv DEF Crash, TypeOK
<1>4. CASE Damage
  BY <1>4 DEF Damage, IndInv, TypeOK, NoStaleLock, LockHeld
<1>5. CASE UNCHANGED vars
  BY <1>5 DEF vars, IndInv, TypeOK, NoStaleLock, LockHeld
<1> QED BY <1>1, <1>2, <1>3, <1>4, <1>5, WorkInv DEF Next

-----------------------------------------------------------------------------
\* Whatever the processes do to one another's files, and wherever they are
\* killed, the cache's state is of its type.
THEOREM TypeCorrect == Spec => []TypeOK
<1>1. IndInv => TypeOK
  BY DEF IndInv
<1> QED BY <1>1, InitInv, NextInv, PTL DEF Spec

\* A lock never outlives the transaction it was taken for: no error, no
\* killed process and no unlinked file leaves a database locked for the others.
THEOREM LockEnds == Spec => []NoStaleLock
<1>1. IndInv => NoStaleLock
  BY DEF IndInv
<1> QED BY <1>1, InitInv, NextInv, PTL DEF Spec

-----------------------------------------------------------------------------
(* Sums of sizes *)

\* Induction over the subsets of a finite set, in the form the provers can
\* use: what is to be shown is the set Good of those for which it holds.
LEMMA SubsetInduction ==
  ASSUME NEW S, IsFiniteSet(S), NEW Good,
         \A T \in SUBSET S : (\A U \in (SUBSET T) \ {T} : U \in Good) => T \in Good
  PROVE  \A T \in SUBSET S : T \in Good
<1> DEFINE Bad == {T \in SUBSET S : T \notin Good}
<1>1. Bad \subseteq FiniteSubsetsOf(S)
  BY FS_Subset DEF FiniteSubsetsOf
<1>2. ASSUME Bad # {} PROVE FALSE
  <2>1. PICK T \in Bad : \A U \in Bad : <<U, T>> \notin StrictSubsetOrdering(S)
    <3>1. IsWellFoundedOn(StrictSubsetOrdering(S), FiniteSubsetsOf(S))
      BY FS_StrictSubsetOrderingWellFounded
    <3> HIDE DEF Bad
    <3> QED BY <1>1, <1>2, <3>1, WFMin
  <2>2. \A U \in (SUBSET T) \ {T} : U \in Good
    BY <2>1 DEF StrictSubsetOrdering
  <2> QED BY <2>1, <2>2
<1> QED BY <1>2

\* The recursion that the fold of the sizes over S stands for.
First(s) == CHOOSE x \in s : TRUE
Sums(g, S) ==
  g = [s \in SUBSET S |-> IF s = {} THEN 0 ELSE Size[First(s)] + g[s \ {First(s)}]]
SumOf(S) == CHOOSE g : Sums(g, S)

\* The total of the model is that recursion.
LEMMA TotalIsFold == \A S : Total(S) = SumOf(S)[S]
BY DEF Total, MapThenSumSet, MapThenFoldSet, SumOf, Sums, First

\* Two functions that satisfy it agree on the finite sets both know.
LEMMA SumsAgree ==
  ASSUME NEW A, NEW B, NEW g, NEW h, Sums(g, A), Sums(h, B),
         NEW S \in SUBSET A, S \subseteq B, IsFiniteSet(S)
  PROVE  g[S] = h[S]
<1> DEFINE Good == {T \in SUBSET S : g[T] = h[T]}
<1>1. ASSUME NEW T \in SUBSET S, \A U \in (SUBSET T) \ {T} : U \in Good PROVE T \in Good
  <2>1. /\ g[T] = IF T = {} THEN 0 ELSE Size[First(T)] + g[T \ {First(T)}]
        /\ h[T] = IF T = {} THEN 0 ELSE Size[First(T)] + h[T \ {First(T)}]
    <3>1. T \in SUBSET A /\ T \in SUBSET B
      OBVIOUS
    <3> QED BY <3>1 DEF Sums
  <2>2. T # {} => First(T) \in T
    BY DEF First
  <2>3. T # {} => g[T \ {First(T)}] = h[T \ {First(T)}]
    BY <1>1, <2>2
  <2> QED BY <2>1, <2>3
<1> HIDE DEF Good
<1>2. S \in Good
  BY <1>1, SubsetInduction
<1> QED BY <1>2 DEF Good

\* There is one: each value is taken from the functions of smaller sets.
LEMMA SumsExist == ASSUME NEW S, IsFiniteSet(S) PROVE Sums(SumOf(S), S)
<1> DEFINE Good == {T \in SUBSET S : \E g : Sums(g, T)}
<1>1. ASSUME NEW T \in SUBSET S, \A U \in (SUBSET T) \ {T} : U \in Good PROVE T \in Good
  <2> DEFINE g == [s \in SUBSET T |-> IF s = {} THEN 0
                     ELSE Size[First(s)] + SumOf(s \ {First(s)})[s \ {First(s)}]]
  <2>1. ASSUME NEW U \in (SUBSET T) \ {T} PROVE Sums(SumOf(U), U)
    BY <1>1 DEF SumOf
  <2>2. ASSUME NEW s \in SUBSET T, s # {}
        PROVE  g[s \ {First(s)}] = SumOf(s \ {First(s)})[s \ {First(s)}]
    <3> DEFINE r == s \ {First(s)}
               q == r \ {First(r)}
    <3>1. First(s) \in s /\ r \in (SUBSET T) \ {T}
      BY <2>2 DEF First
    <3> HIDE DEF r
    <3>2. Sums(SumOf(r), r)
      BY <2>1, <3>1
    <3>3. g[r] = IF r = {} THEN 0 ELSE Size[First(r)] + SumOf(q)[q]
      BY <3>1
    <3>4. SumOf(r)[r] = IF r = {} THEN 0 ELSE Size[First(r)] + SumOf(r)[q]
      BY <3>2 DEF Sums
    <3>5. CASE r = {}
      BY <3>3, <3>4, <3>5 DEF r
    <3>6. CASE r # {}
      <4>1. First(r) \in r /\ q \in (SUBSET T) \ {T} /\ q \subseteq r
        BY <3>1, <3>6 DEF First
      <4>2. Sums(SumOf(q), q)
        BY <2>1, <4>1
      <4>3. IsFiniteSet(q)
        BY <4>1, FS_Subset
      <4> HIDE DEF q
      <4>4. SumOf(r)[q] = SumOf(q)[q]
        BY <3>2, <4>1, <4>2, <4>3, SumsAgree
      <4> QED BY <3>3, <3>4, <3>6, <4>4 DEF r
    <3> QED BY <3>5, <3>6
  <2>3. Sums(g, T)
    <3>1. g = [s \in SUBSET T |-> IF s = {} THEN 0
                                 ELSE Size[First(s)] + g[s \ {First(s)}]]
      BY <2>2
    <3> QED BY <3>1 DEF Sums
  <2> QED BY <2>3
<1> HIDE DEF Good
<1>2. S \in Good
  BY <1>1, SubsetInduction
<1> QED BY <1>2 DEF Good, SumOf

\* Nothing adds up to nothing, and a set to one member and the rest.
LEMMA TotalEmpty == Total({}) = 0
<1>1. Sums(SumOf({}), {})
  BY SumsExist, FS_EmptySet
<1> QED BY <1>1, TotalIsFold DEF Sums

\* The member that the fold takes first.
LEMMA TotalFirst ==
  ASSUME NEW S, IsFiniteSet(S), S # {}
  PROVE  First(S) \in S /\ Total(S) = Size[First(S)] + Total(S \ {First(S)})
<1> DEFINE R == S \ {First(S)}
<1>1. First(S) \in S
  BY DEF First
<1>2. IsFiniteSet(R)
  BY FS_Subset
<1>3. Sums(SumOf(S), S) /\ Sums(SumOf(R), R)
  BY <1>2, SumsExist
<1>4. SumOf(S)[S] = Size[First(S)] + SumOf(S)[R]
  BY <1>3 DEF Sums
<1> HIDE DEF R
<1>5. SumOf(S)[R] = SumOf(R)[R]
  BY <1>2, <1>3, SumsAgree DEF R
<1> QED BY <1>1, <1>4, <1>5, TotalIsFold DEF R

\* What a set adds up to does not depend on the order.
LEMMA TotalMember ==
  ASSUME NEW S \in SUBSET Keys
  PROVE  Total(S) \in Nat /\ \A k \in S : Total(S) = Size[k] + Total(S \ {k})
<1> DEFINE Good == {T \in SUBSET Keys :
             Total(T) \in Nat /\ \A k \in T : Total(T) = Size[k] + Total(T \ {k})}
<1>1. ASSUME NEW T \in SUBSET Keys, \A U \in (SUBSET T) \ {T} : U \in Good
      PROVE  T \in Good
  <2>1. CASE T = {}
    BY <2>1, TotalEmpty
  <2>2. CASE T # {}
    <3> DEFINE x == First(T)
    <3>1. x \in T /\ Total(T) = Size[x] + Total(T \ {x}) /\ x \in Keys
      BY <2>2, CacheAssumption, FS_Subset, TotalFirst
    <3> HIDE DEF x
    <3>2. Total(T \ {x}) \in Nat /\ Size[x] \in Nat
      BY <1>1, <3>1, CacheAssumption
    <3>3. ASSUME NEW k \in T, k # x PROVE Total(T) = Size[k] + Total(T \ {k})
      <4>1. Total(T \ {x}) = Size[k] + Total((T \ {x}) \ {k})
        <5>1. T \ {x} \in Good /\ k \in T \ {x}
          BY <1>1, <3>1, <3>3
        <5> QED BY <5>1
      <4>2. Total(T \ {k}) = Size[x] + Total((T \ {k}) \ {x})
        <5>1. T \ {k} \in Good /\ x \in T \ {k}
          BY <1>1, <3>1, <3>3
        <5> QED BY <5>1
      <4>3. (T \ {x}) \ {k} = (T \ {k}) \ {x}
        OBVIOUS
      <4>4. Total((T \ {k}) \ {x}) \in Nat /\ Size[k] \in Nat
        <5>1. (T \ {k}) \ {x} \in Good
          BY <1>1, <3>1
        <5> QED BY <5>1, CacheAssumption
      <4> QED BY <3>1, <3>2, <4>1, <4>2, <4>3, <4>4
    <3> QED BY <3>1, <3>2, <3>3
  <2> QED BY <2>1, <2>2
<1> HIDE DEF Good
<1>2. IsFiniteSet(Keys) /\ S \in SUBSET Keys
  BY CacheAssumption
<1>3. S \in Good
  BY <1>1, <1>2, SubsetInduction
<1> QED BY <1>3 DEF Good

\* A set adds up to a part of it and the rest.
LEMMA TotalSplit ==
  ASSUME NEW S \in SUBSET Keys, NEW A \in SUBSET S
  PROVE  Total(S) = Total(A) + Total(S \ A)
<1> DEFINE Good == {T \in SUBSET A : Total(S) = Total(T) + Total(S \ T)}
<1>1. ASSUME NEW T \in SUBSET A, \A U \in (SUBSET T) \ {T} : U \in Good
      PROVE  T \in Good
  <2>0. Total(S) \in Nat
    BY TotalMember
  <2>1. CASE T = {}
    <3>1. S \ T = S
      BY <2>1
    <3> QED BY <2>0, <2>1, <3>1, TotalEmpty
  <2>2. CASE T # {}
    <3>1. PICK x \in T : TRUE
      BY <2>2
    <3>2. Total(S) = Total(T \ {x}) + Total(S \ (T \ {x}))
      <4>1. T \ {x} \in Good
        BY <1>1, <3>1
      <4> QED BY <4>1
    <3>3. Total(T) = Size[x] + Total(T \ {x}) /\ Total(T \ {x}) \in Nat
      BY <3>1, TotalMember
    <3>4. /\ Total(S \ (T \ {x})) = Size[x] + Total((S \ (T \ {x})) \ {x})
          /\ Total((S \ (T \ {x})) \ {x}) \in Nat
      <4>1. S \ (T \ {x}) \in SUBSET Keys /\ x \in S \ (T \ {x})
        BY <3>1
      <4>2. (S \ (T \ {x})) \ {x} \in SUBSET Keys
        BY <4>1
      <4> QED BY <4>1, <4>2, TotalMember
    <3>5. (S \ (T \ {x})) \ {x} = S \ T
      BY <3>1
    <3>6. Size[x] \in Nat
      BY <3>1, CacheAssumption
    <3>7. Total(S) = Total(T) + Total(S \ T)
      BY <3>2, <3>3, <3>4, <3>5, <3>6
    <3> QED BY <3>7
  <2> QED BY <2>1, <2>2
<1> HIDE DEF Good
<1>2. IsFiniteSet(A)
  BY CacheAssumption, FS_Subset
<1>3. A \in Good
  BY <1>1, <1>2, SubsetInduction
<1> QED BY <1>3 DEF Good

-----------------------------------------------------------------------------
(* Eviction.  While a transaction is open, what it keeps of its database and *)
(* what it leaves out is as evict_lru promises.                              *)

\* evict_lru only removes rows, the oldest first and only above the limit; the
\* other functions remove none.  When its loop ends, the rest is at most one
\* row over the limit.
RowsKept(p) ==
  LET t == table[conn[p]]
      u == pending[p]
  IN /\ op[p] = "evict" => \A k \in Rows(u) : t[k] = u[k]
     /\ \A gone \in Rows(t) \ Rows(u) :
          Excess(t) > 0 /\ \A k \in Rows(u) : t[gone] <= t[k]
WithinOneRow(p) ==
  \A k \in Rows(pending[p]) :
    \/ \E j \in Rows(pending[p]) : Before(pending[p], j, k)
    \/ Total(Rows(pending[p]) \ {k}) < Limit
Evicts(p) ==
  /\ pc[p] = "delete" => op[p] = "evict"
  /\ pc[p] \in {"delete", "commit"} => RowsKept(p)
  /\ pc[p] = "commit" /\ op[p] = "evict" => WithinOneRow(p)
Evicting == \A p \in Procs : Evicts(p)

\* The rows that are used before a row, and it.
Older(t, k) == {j \in Rows(t) : Before(t, j, k)}
Table == [Keys -> Times \cup {Absent}]

LEMMA TotalMonotone ==
  ASSUME NEW S \in SUBSET Keys, NEW A \in SUBSET S
  PROVE  Total(A) \in Nat /\ Total(S) \in Nat /\ Total(A) <= Total(S)
<1>1. Total(A) \in Nat /\ Total(S) \in Nat /\ Total(S \ A) \in Nat
  BY TotalMember
<1> QED BY <1>1, TotalSplit

\* What is older than a row that is older than k is older than k.
LEMMA OlderTransitive ==
  ASSUME NEW t \in Table, NEW k \in Rows(t), NEW j \in Older(t, k)
  PROVE  /\ {j} \cup Older(t, j) \subseteq Older(t, k)
         /\ Cardinality(Older(t, j)) \in Nat /\ Cardinality(Older(t, k)) \in Nat
         /\ Cardinality(Older(t, j)) <= Cardinality(Older(t, k))
<1>1. \A i \in Rows(t) : i \in Nat /\ t[i] \in Nat
  BY CacheAssumption DEF Rows, Table
<1>2. {j} \cup Older(t, j) \subseteq Older(t, k)
  BY <1>1 DEF Older, Before
<1>3. IsFiniteSet(Older(t, k)) /\ IsFiniteSet(Older(t, j))
  BY CacheAssumption, FS_Subset DEF Older, Rows
<1>4. Older(t, j) \in SUBSET Older(t, k)
  BY <1>2
<1>5. Cardinality(Older(t, j)) <= Cardinality(Older(t, k))
  BY <1>3, <1>4, FS_Subset
<1> QED BY <1>2, <1>3, <1>5, FS_CardinalityType

\* A row that evict_lru removes was not used after one that it keeps.
LEMMA DoomedOldest ==
  ASSUME NEW t \in Table, NEW n \in Nat,
         NEW g \in Doomed(t, n), NEW k \in Rows(t) \ Doomed(t, n)
  PROVE  t[g] <= t[k]
<1>1. g \in Rows(t) /\ Cardinality(Older(t, g)) < n /\ Cumulated(t, g) <= Excess(t)
  BY DEF Doomed, FirstRows, Older
<1>2. t[g] \in Nat /\ t[k] \in Nat
  BY <1>1, CacheAssumption DEF Rows, Table
<1> SUFFICES ASSUME t[k] < t[g] PROVE FALSE
  BY <1>2
<1>3. k \in Older(t, g)
  BY DEF Older, Before
<1>4. Cardinality(Older(t, k)) < n
  BY <1>1, <1>3, OlderTransitive
<1>5. Cumulated(t, k) <= Cumulated(t, g) /\ Cumulated(t, k) \in Nat /\ Cumulated(t, g) \in Nat
  <2>1. {k} \cup Older(t, k) \subseteq {g} \cup Older(t, g)
    BY <1>1, <1>3, OlderTransitive
  <2>2. {g} \cup Older(t, g) \in SUBSET Keys
    BY <1>1 DEF Older, Rows
  <2> QED BY <2>1, <2>2, TotalMonotone DEF Cumulated, Older
<1>6. Excess(t) \in Int
  BY TotalMember, CacheAssumption DEF Excess, Rows
<1> QED BY <1>1, <1>4, <1>5, <1>6 DEF Doomed, FirstRows, Older

\* evict_lru removes a row only when the rows are over the limit.
LEMMA DoomedExcess ==
  ASSUME NEW t \in Table, NEW n \in Nat, NEW g \in Doomed(t, n)
  PROVE  Excess(t) > 0
<1> DEFINE S == {g} \cup Older(t, g)
<1>1. g \in Keys /\ S \in SUBSET Keys /\ g \in S /\ Total(S) <= Excess(t)
  BY DEF Doomed, FirstRows, Rows, Older, Cumulated
<1> HIDE DEF S
<1>2. Total(S) = Size[g] + Total(S \ {g}) /\ Total(S \ {g}) \in Nat
  <2>1. S \ {g} \in SUBSET Keys
    BY <1>1
  <2> QED BY <1>1, <2>1, TotalMember
<1>3. Size[g] \in Nat \ {0}
  BY <1>1, CacheAssumption
<1>4. Excess(t) \in Int
  BY TotalMember, CacheAssumption DEF Excess, Rows
<1> QED BY <1>1, <1>2, <1>3, <1>4

\* When fewer rows are removed than the statement looked at, what is left is
\* below the limit without its oldest row.
LEMMA DoomedEnough ==
  ASSUME NEW t \in Table, NEW n \in Nat, Cardinality(Doomed(t, n)) < n,
         NEW k \in Rows(t) \ Doomed(t, n),
         \A j \in Rows(t) \ Doomed(t, n) : ~Before(t, j, k)
  PROVE  Total((Rows(t) \ Doomed(t, n)) \ {k}) < Limit
<1> DEFINE R == Rows(t)
           G == Doomed(t, n)
           S == {k} \cup Older(t, k)
<1>1. Older(t, k) \subseteq G /\ G \subseteq R /\ R \in SUBSET Keys /\ S \in SUBSET R
  BY DEF Older, Doomed, FirstRows, Rows
<1>2. Cardinality(Older(t, k)) < n
  <2>1. IsFiniteSet(G)
    BY <1>1, CacheAssumption, FS_Subset
  <2>2. /\ Cardinality(Older(t, k)) <= Cardinality(G)
        /\ Cardinality(G) \in Nat
    <3>1. Older(t, k) \in SUBSET G
      BY <1>1
    <3> HIDE DEF G
    <3> QED BY <2>1, <3>1, FS_Subset, FS_CardinalityType
  <2>3. Cardinality(Older(t, k)) \in Nat
    BY <1>1, <2>1, FS_Subset, FS_CardinalityType
  <2> QED BY <2>2, <2>3
<1>3. ~(Cumulated(t, k) <= Excess(t))
  BY <1>2 DEF Doomed, FirstRows, Older
<1>4. Total(R) = Total(S) + Total(R \ S) /\ Total(S) \in Nat /\ Total(R \ S) \in Nat
  <2>1. S \in SUBSET Keys /\ R \ S \in SUBSET Keys
    BY <1>1
  <2> HIDE DEF R, S
  <2> QED BY <1>1, <2>1, TotalSplit, TotalMember
<1>5. /\ Total((R \ G) \ {k}) <= Total(R \ S)
      /\ Total((R \ G) \ {k}) \in Nat
  <2>1. (R \ G) \ {k} \in SUBSET (R \ S) /\ R \ S \in SUBSET Keys
    BY <1>1
  <2> HIDE DEF R, S, G
  <2> QED BY <2>1, TotalMonotone
<1>6. Cumulated(t, k) = Total(S) /\ Excess(t) = Total(R) - Limit /\ Limit \in Nat
  BY CacheAssumption DEF Cumulated, Older, Excess
<1> HIDE DEF R, S, G
<1>7. Total((R \ G) \ {k}) < Limit
  BY <1>3, <1>4, <1>5, <1>6
<1> QED BY <1>7 DEF R, G

\* A transaction that nobody touches, in a database that stays as it is.
LEMMA SameTransaction ==
  ASSUME NEW p \in Procs, Evicts(p),
         pc'[p] = pc[p], op'[p] = op[p], conn'[p] = conn[p], pending'[p] = pending[p],
         pc[p] \in {"delete", "commit"} => table'[conn[p]] = table[conn[p]]
  PROVE  Evicts(p)'
<1>1. pc[p] \in {"delete", "commit"} /\ RowsKept(p) => RowsKept(p)'
  BY DEF RowsKept, Excess
<1>2. WithinOneRow(p) => WithinOneRow(p)'
  BY DEF WithinOneRow
<1> QED BY <1>1, <1>2 DEF Evicts

\* A process that closes its connection leaves the databases alone in which
\* others have a transaction: it had the lock of the one that it committed.
LEMMA CloseKeepsTables ==
  ASSUME IndInv, NEW q \in Procs, NEW tables,
         tables \in {table, Committed(q)}, tables # table => pc[q] = "commit",
         Close(q, tables), NEW p \in Procs \ {q}, pc[p] \in {"delete", "commit"}
  PROVE  table'[conn[p]] = table[conn[p]]
<1>1. conn \in [Procs -> Files \cup {NoFile}] /\ conn[p] \in Files
  BY DEF IndInv, TypeOK
<1>2. conn' = [conn EXCEPT ![q] = NoFile] /\ table' = Reaped(current, conn', tables)
  BY DEF Close
<1>3. conn[p] \notin Unreached(current, conn')
  BY <1>1, <1>2 DEF Unreached
<1>4. table'[conn[p]] = tables[conn[p]]
  BY <1>1, <1>2, <1>3 DEF Reaped
<1>5. pc[q] = "commit" => conn[q] # conn[p]
  BY DEF IndInv, LockHeld
<1>6. table \in [Files -> [Keys -> Times \cup {Absent}]]
  BY DEF IndInv, TypeOK
<1> QED BY <1>1, <1>4, <1>5, <1>6 DEF Committed

\* A process that closes its connection is in no transaction.
LEMMA CloseEvicting ==
  ASSUME IndInv, Evicting, NEW q \in Procs, NEW tables,
         tables \in {table, Committed(q)}, tables # table => pc[q] = "commit",
         Close(q, tables), Return(q) \/ Continue(q)
  PROVE  Evicting'
<1>1. ASSUME NEW p \in Procs \ {q} PROVE Evicts(p)'
  <2>1. /\ pc'[p] = pc[p] /\ op'[p] = op[p] /\ conn'[p] = conn[p]
        /\ pending'[p] = pending[p]
    BY DEF Close, Return, Continue, Goto, IndInv, TypeOK
  <2> QED BY <2>1, CloseKeepsTables, SameTransaction DEF Evicting
<1>2. Evicts(q)'
  <2>1. pc'[q] \notin {"delete", "commit"}
    BY DEF Return, Continue, Goto, IndInv, TypeOK
  <2> QED BY <2>1 DEF Evicts
<1> QED BY <1>1, <1>2 DEF Evicting

\* A step of a process outside a transaction that leaves the connections alone.
LEMMA MoveEvicting ==
  ASSUME IndInv, Evicting, NEW q \in Procs,
         \E at \in {"idle", "connect", "unlink", "reopen", "execute", "compile"} :
           pc' = [pc EXCEPT ![q] = at],
         \A p \in Procs \ {q} : op'[p] = op[p] /\ conn'[p] = conn[p],
         UNCHANGED pending,
         table' = table \/ table' = Reaped(current', conn, table)
  PROVE  Evicting'
<1>1. ASSUME NEW p \in Procs \ {q} PROVE Evicts(p)'
  <2>1. pc'[p] = pc[p]
    BY DEF IndInv, TypeOK
  <2>2. ASSUME pc[p] \in {"delete", "commit"} PROVE table'[conn[p]] = table[conn[p]]
    <3>1. conn[p] \in Files
      BY <2>2 DEF IndInv, TypeOK
    <3> QED BY <3>1 DEF Reaped, Unreached
  <2> QED BY <2>1, <2>2, SameTransaction DEF Evicting
<1>2. Evicts(q)'
  BY DEF Evicts, IndInv, TypeOK
<1> QED BY <1>1, <1>2 DEF Evicting

\* A transaction begins: its rows are those of the database, and more.
LEMMA WriteEvicting ==
  ASSUME IndInv, Evicting, NEW q \in Procs, pc[q] = "execute",
         NEW t, NEW at \in {"delete", "commit"}, Write(q, t, at),
         Rows(table[conn[q]]) \subseteq Rows(t),
         IF op[q] = "evict" THEN at = "delete" /\ t = table[conn[q]] ELSE at = "commit"
  PROVE  Evicting'
<1>1. /\ pc' = [pc EXCEPT ![q] = at] /\ pending' = [pending EXCEPT ![q] = t]
      /\ UNCHANGED <<table, op, conn>>
  BY DEF Write, Goto
<1>2. pc'[q] = at /\ pending'[q] = t
  BY <1>1 DEF IndInv, TypeOK
<1>3. ASSUME NEW p \in Procs \ {q} PROVE Evicts(p)'
  <2>1. pc'[p] = pc[p] /\ pending'[p] = pending[p]
    BY <1>1 DEF IndInv, TypeOK
  <2> QED BY <1>1, <2>1, SameTransaction DEF Evicting
<1>4. RowsKept(q)'
  BY <1>1, <1>2 DEF RowsKept
<1>5. Evicts(q)'
  BY <1>1, <1>2, <1>4 DEF Evicts
<1> QED BY <1>3, <1>5 DEF Evicting

\* A DELETE statement removes the oldest rows of what the ones before left.
LEMMA DeleteEvicting ==
  ASSUME IndInv, Evicting, NEW q \in Procs, Delete(q)
  PROVE  Evicting'
<1> DEFINE n == batch[q]
           u == pending[q]
           t == table[conn[q]]
           G == Doomed(u, n)
           v == Without(u, G)
<1>1. /\ pc[q] = "delete" /\ op[q] = "evict" /\ RowsKept(q)
      /\ u \in Table /\ t \in Table /\ n \in Nat
  BY DEF Delete, Evicting, Evicts, IndInv, TypeOK, Table
<1>2. pending'[q] = v /\ UNCHANGED <<table, op, conn>>
  BY DEF Delete, IndInv, TypeOK
<1>3. \/ pc'[q] = "delete"
      \/ pc'[q] = "commit" /\ Cardinality(G) < n
  BY <1>1 DEF Delete, Goto, IndInv, TypeOK
<1>4. ASSUME NEW p \in Procs \ {q} PROVE Evicts(p)'
  <2>1. pc'[p] = pc[p] /\ pending'[p] = pending[p]
    BY DEF Delete, Goto, IndInv, TypeOK
  <2> QED BY <1>2, <2>1, SameTransaction DEF Evicting
<1>5. Rows(v) = Rows(u) \ G /\ \A k \in Rows(v) : v[k] = u[k]
  BY DEF Without, Rows
<1>6. G \subseteq Rows(u) /\ Rows(u) \subseteq Rows(t) /\ \A k \in Rows(u) : t[k] = u[k]
  <2>1. \A k \in Rows(u) : t[k] = u[k]
    BY <1>1 DEF RowsKept
  <2> QED BY <2>1 DEF Doomed, FirstRows, Rows
<1>7. RowsKept(q)'
  <2>1. ASSUME NEW gone \in Rows(t) \ Rows(v)
        PROVE  Excess(t) > 0 /\ \A k \in Rows(v) : t[gone] <= t[k]
    <3>1. CASE gone \notin Rows(u)
      BY <1>1, <1>5, <2>1, <3>1 DEF RowsKept
    <3>2. CASE gone \in Rows(u)
      <4>1. gone \in G
        BY <1>5, <2>1, <3>2
      <4>2. Excess(u) > 0
        BY <1>1, <4>1, DoomedExcess
      <4>3. Excess(u) <= Excess(t) /\ Excess(u) \in Int /\ Excess(t) \in Int
        <5>1. Rows(t) \in SUBSET Keys /\ Rows(u) \in SUBSET Rows(t)
          BY <1>6 DEF Rows
        <5> QED BY <5>1, TotalMonotone, CacheAssumption DEF Excess
      <4>4. \A k \in Rows(v) : u[gone] <= u[k]
        BY <1>1, <1>5, <4>1, DoomedOldest
      <4> QED BY <1>5, <1>6, <3>2, <4>2, <4>3, <4>4
    <3> QED BY <3>1, <3>2
  <2> QED BY <1>1, <1>2, <1>5, <1>6, <2>1 DEF RowsKept
<1>8. ASSUME pc'[q] = "commit" PROVE WithinOneRow(q)'
  <2>1. ASSUME NEW k \in Rows(v), \A j \in Rows(v) : ~Before(v, j, k)
        PROVE  Total(Rows(v) \ {k}) < Limit
    <3>1. \A j \in Rows(u) \ G : ~Before(u, j, k)
      BY <1>5, <2>1 DEF Before
    <3>2. Total((Rows(u) \ G) \ {k}) < Limit
      BY <1>1, <1>3, <1>5, <1>8, <2>1, <3>1, DoomedEnough
    <3> QED BY <1>5, <3>2
  <2> QED BY <1>2, <2>1 DEF WithinOneRow
<1>9. Evicts(q)'
  BY <1>1, <1>2, <1>3, <1>7, <1>8 DEF Evicts
<1> QED BY <1>4, <1>9 DEF Evicting

\* No transaction is open at first, and every step keeps the promise.
LEMMA InitEvicting == Init => Evicting
BY DEF Init, Evicting, Evicts

LEMMA NextEvicting == IndInv /\ Evicting /\ [Next]_vars => Evicting'
<1> SUFFICES ASSUME IndInv, Evicting, [Next]_vars PROVE Evicting'
  OBVIOUS
<1>t. TypeOK
  BY DEF IndInv
<1>1. ASSUME NEW q \in Procs, NEW k \in Keys, Call(q, k) PROVE Evicting'
  BY <1>1, <1>t, MoveEvicting DEF Call, Goto, TypeOK
<1>2. ASSUME NEW q \in Procs, DirectoryFails(q) PROVE Evicting'
  <2>1. \E at \in {"idle", "connect", "compile"} : pc' = [pc EXCEPT ![q] = at]
    BY <1>2 DEF DirectoryFails, Return, Continue, Goto
  <2>2. \A p \in Procs \ {q} : op'[p] = op[p]
    BY <1>2, <1>t DEF DirectoryFails, Return, Continue, TypeOK
  <2> QED BY <1>2, <2>1, <2>2, MoveEvicting DEF DirectoryFails
<1>3. ASSUME NEW q \in Procs, Crash(q) PROVE Evicting'
  <2>1. Close(q, table) /\ Return(q)
    BY <1>3 DEF Crash
  <2> QED BY <2>1, CloseEvicting
<1>4. ASSUME NEW q \in Procs, Connect(q) \/ Reopen(q) PROVE Evicting'
  <2>1. PICK f \in Opened(current) :
          /\ conn' = [conn EXCEPT ![q] = f] /\ pc' = [pc EXCEPT ![q] = "execute"]
          /\ UNCHANGED <<table, op, pending>>
    BY <1>4 DEF Connect, Reopen, OpenFile, Goto
  <2>2. \A p \in Procs \ {q} : conn'[p] = conn[p]
    BY <2>1, <1>t DEF TypeOK
  <2> QED BY <2>1, <2>2, MoveEvicting
<1>5. ASSUME NEW q \in Procs, OpenFails(q) \/ Unlink(q) PROVE Evicting'
  BY <1>5, MoveEvicting DEF OpenFails, Unlink, Goto
<1>6. ASSUME NEW q \in Procs, Miss(q) \/ Fails(q) PROVE Evicting'
  <2>1. Close(q, table) /\ Continue(q)
    BY <1>6 DEF Miss, Fails
  <2> QED BY <2>1, CloseEvicting
<1>7. ASSUME NEW q \in Procs, BeginEvict(q) PROVE Evicting'
  <2>1. Write(q, table[conn[q]], "delete") /\ pc[q] = "execute" /\ op[q] = "evict"
    BY <1>7 DEF BeginEvict
  <2> QED BY <2>1, WriteEvicting
<1>8. ASSUME NEW q \in Procs, Delete(q) PROVE Evicting'
  BY <1>8, DeleteEvicting
<1>9. ASSUME NEW q \in Procs, Commit(q) PROVE Evicting'
  <2>1. Close(q, Committed(q)) /\ pc[q] = "commit" /\ (Return(q) \/ Continue(q))
    BY <1>9 DEF Commit
  <2> QED BY <2>1, CloseEvicting
<1>10. ASSUME NEW q \in Procs, NEW now \in Times, Touch(q, now) \/ Insert(q, now)
       PROVE  Evicting'
  <2> DEFINE t == table[conn[q]]
             u == [t EXCEPT ![key[q]] = now]
  <2>1. pc[q] = "execute" /\ op[q] # "evict"
        /\ (Write(q, t, "commit") \/ Write(q, u, "commit"))
    BY <1>10 DEF Touch, Insert
  <2>2. t \in Table /\ now # Absent
    BY <2>1, <1>t, CacheAssumption DEF TypeOK, Table
  <2> HIDE DEF t
  <2>3. Rows(t) \subseteq Rows(u)
    BY <2>2 DEF Rows, Table
  <2> QED BY <2>1, <2>3, WriteEvicting DEF t
<1>11. ASSUME NEW q \in Procs, Compile(q) PROVE Evicting'
  <2>1. \E at \in {"idle", "connect"} : pc' = [pc EXCEPT ![q] = at]
    BY <1>11 DEF Compile, Return, Goto
  <2>2. \A p \in Procs \ {q} : op'[p] = op[p]
    BY <1>11, <1>t DEF Compile, Return, TypeOK
  <2> QED BY <1>11, <2>1, <2>2, MoveEvicting DEF Compile
<1>12. CASE Damage \/ UNCHANGED vars
  <2>1. UNCHANGED <<table, pc, op, conn, pending>>
    BY <1>12 DEF Damage, vars
  <2> QED BY <2>1, SameTransaction DEF Evicting
<1> QED BY <1>1, <1>2, <1>3, <1>4, <1>5, <1>6, <1>7, <1>8, <1>9, <1>10, <1>11, <1>12
        DEF Next, Work

\* Rows leave a file that is still in use only by the commit of its writer.
LEMMA RowsLeave ==
  ASSUME IndInv, Evicting, [Next]_vars,
         NEW f \in Files \ Unreached(current, conn), f \notin Unreached(current', conn'),
         NEW gone \in Rows(table[f]) \ Rows(table'[f])
  PROVE  Excess(table[f]) > 0 /\ \A k \in Rows(table'[f]) : table[f][gone] <= table[f][k]
<1>t. TypeOK
  BY DEF IndInv
<1>1. PICK q \in Procs : Commit(q)
  <2>1. table'[f] # table[f]
    OBVIOUS
  <2>2. ASSUME NEW q \in Procs, Close(q, table), UNCHANGED current PROVE table'[f] = table[f]
    BY <2>2 DEF Close, Reaped
  <2>3. ASSUME NEW q \in Procs, Unlink(q) PROVE table'[f] = table[f]
    BY <2>3 DEF Unlink, Reaped
  <2>4. ASSUME NEW q \in Procs, Work(q), ~Commit(q) PROVE table'[f] = table[f]
    BY <2>2, <2>3, <2>4 DEF Work, Connect, Reopen, OpenFile, OpenFails, Miss, BeginEvict,
                            Delete, Touch, Insert, Write, Compile, Fails
  <2>5. ASSUME NEW q \in Procs, NEW k \in Keys, Call(q, k) PROVE table'[f] = table[f]
    BY <2>5 DEF Call
  <2>6. ASSUME NEW q \in Procs, DirectoryFails(q) PROVE table'[f] = table[f]
    BY <2>6 DEF DirectoryFails
  <2>7. ASSUME NEW q \in Procs, Crash(q) PROVE table'[f] = table[f]
    BY <2>2, <2>7 DEF Crash
  <2>8. Damage \/ UNCHANGED vars => table'[f] = table[f]
    BY DEF Damage, vars
  <2> QED BY <2>1, <2>4, <2>5, <2>6, <2>7, <2>8 DEF Next
<1>2. table'[f] = Committed(q)[f]
  BY <1>1 DEF Commit, Close, Reaped
<1>3. pc[q] = "commit" /\ conn[q] = f /\ table'[f] = pending[q]
  BY <1>1, <1>2, <1>t DEF Commit, Committed, TypeOK
<1> QED BY <1>3 DEF Evicting, Evicts, RowsKept

-----------------------------------------------------------------------------
\* evict_lru keeps its promise for any number of rows, sizes and statements:
\* without the oldest row that it leaves, the cache would be below its limit.
THEOREM EvictsEnough == Spec => []OverByOneRow
<1>1. Evicting => OverByOneRow
  BY DEF Evicting, Evicts, WithinOneRow, OverByOneRow
<1> QED BY <1>1, InitInv, NextInv, InitEvicting, NextEvicting, PTL DEF Spec

\* And it removes no more than that: only from a database that is over its
\* limit, and no row that was used after one that stays, whatever the other
\* processes do between its statements.
THEOREM EvictsOldest == Spec => OldestFirst
<1> DEFINE Oldest ==
      \A f \in Files \ Unreached(current, conn) :
        \A gone \in Rows(table[f]) \ Rows(table'[f]) :
          f \notin Unreached(current', conn') =>
            /\ Excess(table[f]) > 0
            /\ \A k \in Rows(table'[f]) : table[f][gone] <= table[f][k]
<1>1. IndInv /\ Evicting /\ [Next]_vars => [Oldest]_vars
  BY RowsLeave
<1> QED BY <1>1, InitInv, NextInv, InitEvicting, NextEvicting, PTL DEF Spec, OldestFirst
=============================================================================
