----------------------- MODULE CheckpointPagesProofs -----------------------
(***************************************************************************)
(* Proofs about CheckpointPages and the module it extends, LedgerMigration,*)
(* for every set of processes, readers and identities and every page size. *)
(***************************************************************************)
EXTENDS CheckpointPages, FiniteSetTheorems, SequenceTheorems, TLAPS

-----------------------------------------------------------------------------
(* Induction.  The library states it with an operator as a parameter; stated
   of a set it follows from the pigeonhole principle: the members up to a
   number outside of the set could be counted down to one less. *)

LEMMA NatInductionOnSet ==
    ASSUME NEW S, 0 \in S, \A n \in Nat : n \in S => n + 1 \in S
    PROVE  Nat \subseteq S
<1> SUFFICES ASSUME NEW n \in Nat, n \notin S PROVE FALSE
  OBVIOUS
<1> DEFINE T == {k \in 0 .. n : k \in S}
           next == [k \in T |-> k + 1]
<1>1. IsFiniteSet(T)
  <2>1. IsFiniteSet(0 .. n)
    BY FS_Interval, 0 \in Int, n \in Int
  <2>2. T \in SUBSET (0 .. n)
    OBVIOUS
  <2> HIDE DEF T
  <2> QED BY <2>1, <2>2, FS_Subset
<1>2. 0 \in T
  OBVIOUS
<1>3. next \in Injection(T, T \ {0})
  <2>1. \A k \in T : k + 1 \in T \ {0}
    OBVIOUS
  <2>2. \A j, k \in T : j + 1 = k + 1 => j = k
    OBVIOUS
  <2> HIDE DEF T
  <2> QED BY <2>1, <2>2 DEF Injection, IsInjective
<1> HIDE DEF T, next
<1>4. IsFiniteSet(T \ {0}) /\ Cardinality(T \ {0}) = Cardinality(T) - 1
  BY <1>1, <1>2, FS_RemoveElement
<1>5. Cardinality(T) \in Nat
  BY <1>1, FS_CardinalityType
<1>6. Cardinality(T) <= Cardinality(T \ {0})
  BY <1>3, <1>4, FS_Injection
<1> QED BY <1>4, <1>5, <1>6

-----------------------------------------------------------------------------
(* Opening the ledger. *)

(* OpenIsScoped becomes inductive with what a process knows of the columns at
   each place of the upgrade; no step takes a column away or unscopes a row. *)
Upgraded(p) ==
    /\ pc[p] \in {"created", "first", "second", "columns", "open"} => tables
    /\ pc[p] = "first" => "project_id" \in columns
    /\ pc[p] \in {"columns", "open"} => columns = Columns
    /\ pc[p] = "open" => unscoped = {}
MigrationInv == MigrationTypeOK /\ \A p \in Procs : Upgraded(p)

LEMMA InitMigration == MigrationInit => MigrationInv
<1> SUFFICES ASSUME MigrationInit PROVE MigrationInv
  OBVIOUS
<1>1. tables \in BOOLEAN /\ columns \in SUBSET Columns /\ unscoped \in SUBSET OldRows
  BY DEF MigrationInit
<1>2. \A p \in Procs : Upgraded(p)
  BY DEF MigrationInit, Upgraded
<1> QED BY <1>1, <1>2, BoundAssumption DEF MigrationInit, MigrationInv, MigrationTypeOK

\* Every step of an opening process keeps what all of them know.
LEMMA StepMigration ==
    ASSUME MigrationInv, Migrate PROVE MigrationInv' /\ unscoped' \subseteq unscoped
<1> USE BoundAssumption DEF MigrationInv, MigrationTypeOK, Upgraded, Columns
<1>1. ASSUME NEW p \in Procs, CreateTables(p) PROVE MigrationInv' /\ unscoped' \subseteq unscoped
  BY <1>1 DEF CreateTables, NewColumns
<1>2. ASSUME NEW p \in Procs, NEW column \in Columns, CheckColumn(p, column)
      PROVE  MigrationInv' /\ unscoped' \subseteq unscoped
  <2>1. /\ UNCHANGED <<tables, columns, unscoped, crashes>>
        /\ \/ /\ column \in columns /\ UNCHANGED missing
              /\ pc' = [pc EXCEPT ![p] = Found(column)]
           \/ missing' = [missing EXCEPT ![p] = TRUE] /\ UNCHANGED pc
    BY <1>2 DEF CheckColumn, IsPresent
  <2>2. LooksFor(column, p)
    BY <1>2 DEF CheckColumn
  <2>3. MigrationTypeOK' /\ unscoped' \subseteq unscoped
    BY <2>1, <2>2 DEF Found
  <2>4. ASSUME NEW q \in Procs PROVE Upgraded(q)'
    <3>1. CASE pc'[q] = pc[q]
      BY <2>1, <3>1
    <3>2. CASE column = "project_id" /\ pc'[q] = "first" /\ pc[q] = "created"
      BY <2>1, <3>2
    <3>3. CASE column = "work_item_id" /\ pc'[q] = "columns" /\ pc[q] = "first"
      BY <2>1, <3>3
    <3>4. \/ pc'[q] = pc[q]
          \/ column = "project_id" /\ pc'[q] = "first" /\ pc[q] = "created"
          \/ column = "work_item_id" /\ pc'[q] = "columns" /\ pc[q] = "first"
      BY <2>1, <2>2 DEF LooksFor, Found
    <3> QED BY <3>1, <3>2, <3>3, <3>4
  <2> QED BY <2>3, <2>4
<1>3. ASSUME NEW p \in Procs, NEW column \in Columns, AddColumn(p, column)
      PROVE  MigrationInv' /\ unscoped' \subseteq unscoped
  BY <1>3 DEF AddColumn, LooksFor, Found, IsDuplicate
<1>4. ASSUME NEW p \in Procs, Backfill(p) PROVE MigrationInv' /\ unscoped' \subseteq unscoped
  BY <1>4 DEF Backfill, Backfilled
<1>5. ASSUME NEW p \in Procs, Retry(p) PROVE MigrationInv' /\ unscoped' \subseteq unscoped
  BY <1>5 DEF Retry
<1>6. ASSUME NEW p \in Procs, Crash(p) PROVE MigrationInv' /\ unscoped' \subseteq unscoped
  BY <1>6 DEF Crash
<1> QED BY <1>1, <1>2, <1>3, <1>4, <1>5, <1>6 DEF Migrate, OpenStep

LEMMA MigrationHolds == Spec => []MigrationInv
<1>1. Init => MigrationInv
  BY InitMigration DEF Init
<1>2. MigrationInv /\ [Next]_vars => MigrationInv'
  <2> SUFFICES ASSUME MigrationInv, [Next]_vars PROVE MigrationInv'
    OBVIOUS
  <2>1. CASE UNCHANGED migrationVars
    BY <2>1 DEF migrationVars, MigrationInv, MigrationTypeOK, Upgraded
  <2>2. CASE Migrate
    BY <2>2, StepMigration
  <2>3. ASSUME NEW c \in NewCheckpoints, Record(c) PROVE UNCHANGED migrationVars
    BY <2>3 DEF Record
  <2>4. ASSUME NEW r \in Readers, NEW scope \in Scopes, NEW before \in Ids \cup {None},
               NEW limit \in 1 .. MaxLimit, ReadPage(r, scope, before, limit)
        PROVE  UNCHANGED migrationVars
    BY <2>4 DEF ReadPage
  <2>5. Migrate \/ UNCHANGED migrationVars
    BY <2>3, <2>4 DEF Next, vars
  <2> QED BY <2>1, <2>2, <2>5
<1> QED BY <1>1, <1>2, PTL DEF Spec

(* Whichever of any number of processes upgraded the database and wherever
   others crashed, a process that has it open finds every row scoped. *)
THEOREM OpenedIsScoped == Spec => []OpenIsScoped
<1>1. MigrationInv => OpenIsScoped
  BY DEF MigrationInv, Upgraded, OpenIsScoped
<1> QED BY <1>1, MigrationHolds, PTL

-----------------------------------------------------------------------------
(* ORDER BY rowid DESC: a finite set of row numbers has exactly one descending
   enumeration, and the numbers below its n-th are the rest of it. *)

Descending(s, S) ==
    /\ s \in [1 .. Cardinality(S) -> S]
    /\ \A i, j \in 1 .. Cardinality(S) : i < j => s[i] > s[j]

LEMMA DescendingExists ==
    ASSUME NEW N \in Nat, NEW S \in SUBSET (1 .. N)
    PROVE  IsFiniteSet(S) /\ Cardinality(S) \in Nat /\ \E s : Descending(s, S)
<1> DEFINE Good == {n \in Nat : \A T \in SUBSET (1 .. n) :
                       /\ IsFiniteSet(T) /\ Cardinality(T) \in Nat
                       /\ \E s : Descending(s, T)}
<1>1. 0 \in Good
  <2> SUFFICES ASSUME NEW T \in SUBSET (1 .. 0)
               PROVE  IsFiniteSet(T) /\ Cardinality(T) \in Nat /\ \E s : Descending(s, T)
    OBVIOUS
  <2>1. T = {}
    OBVIOUS
  <2>. IsFiniteSet(T) /\ Cardinality(T) = 0
    BY <2>1, FS_EmptySet
  <2>2. Descending([k \in {} |-> k], T)
    BY <2>1 DEF Descending
  <2> QED BY <2>1, <2>2
<1>2. ASSUME NEW n \in Nat, n \in Good PROVE n + 1 \in Good
  <2> SUFFICES ASSUME NEW T \in SUBSET (1 .. n + 1)
               PROVE  IsFiniteSet(T) /\ Cardinality(T) \in Nat /\ \E s : Descending(s, T)
    OBVIOUS
  <2>1. CASE n + 1 \notin T
    <3>1. T \in SUBSET (1 .. n)
      BY <2>1
    <3> QED BY <3>1, <1>2
  <2>2. CASE n + 1 \in T
    <3> DEFINE U == T \ {n + 1}
    <3>1. U \in SUBSET (1 .. n) /\ T = U \cup {n + 1} /\ n + 1 \notin U
      BY <2>2
    <3>2. IsFiniteSet(U) /\ Cardinality(U) \in Nat
      BY <3>1, <1>2
    <3>3. PICK s : Descending(s, U)
      BY <3>1, <1>2
    <3> HIDE DEF U
    <3>4. IsFiniteSet(T) /\ Cardinality(T) = Cardinality(U) + 1
      BY <3>1, <3>2, FS_AddElement
    <3> DEFINE t == [k \in 1 .. Cardinality(T) |-> IF k = 1 THEN n + 1 ELSE s[k - 1]]
    <3>5. \A k \in 1 .. Cardinality(T) : k # 1 => k - 1 \in 1 .. Cardinality(U)
      BY <3>2, <3>4
    <3>6. \A k \in 1 .. Cardinality(U) : s[k] \in T /\ s[k] \in Nat /\ s[k] < n + 1
      <4>1. \A k \in 1 .. Cardinality(U) : s[k] \in U
        BY <3>3 DEF Descending
      <4>2. \A x \in U : x \in T /\ x \in Nat /\ x < n + 1
        BY <3>1
      <4> QED BY <4>1, <4>2
    <3>7. t \in [1 .. Cardinality(T) -> T]
      BY <3>5, <3>6, <2>2
    <3>8. ASSUME NEW i \in 1 .. Cardinality(T), NEW j \in 1 .. Cardinality(T), i < j
          PROVE  t[i] > t[j]
      <4>1. j # 1 /\ j - 1 \in 1 .. Cardinality(U) /\ t[j] = s[j - 1]
        BY <3>5, <3>8, <3>4, <3>2
      <4>2. CASE i = 1
        BY <4>1, <4>2, <3>1, <3>6
      <4>3. CASE i # 1
        <5>1. i - 1 \in 1 .. Cardinality(U) /\ t[i] = s[i - 1] /\ i - 1 < j - 1
          BY <4>3, <3>5, <3>8, <3>4, <3>2
        <5> QED BY <5>1, <4>1, <3>3 DEF Descending
      <4> QED BY <4>2, <4>3
    <3>9. Descending(t, T)
      <4> HIDE DEF t
      <4> QED BY <3>7, <3>8 DEF Descending
    <3> QED BY <3>2, <3>4, <3>9
  <2> QED BY <2>1, <2>2
<1>3. N \in Good
  <2> HIDE DEF Good
  <2>1. Nat \subseteq Good
    BY <1>1, <1>2, NatInductionOnSet
  <2> QED BY <2>1
<1> QED BY <1>3

\* A descending enumeration reaches every number, and none twice.
IsOnto(s, S) ==
    /\ \A i, j \in 1 .. Cardinality(S) : s[i] = s[j] => i = j
    /\ \A i, j \in 1 .. Cardinality(S) : s[i] > s[j] => i < j
    /\ \A x \in S : \E k \in 1 .. Cardinality(S) : s[k] = x

LEMMA DescendingIsOnto ==
    ASSUME NEW N \in Nat, NEW S \in SUBSET (1 .. N), NEW s, Descending(s, S)
    PROVE  IsOnto(s, S)
<1>1. IsFiniteSet(S) /\ Cardinality(S) \in Nat
  BY DescendingExists
<1>2. \A i, j \in 1 .. Cardinality(S) : s[i] \in Nat /\ s[j] \in Nat /\ (i < j => s[i] > s[j])
  <2>1. S \subseteq Nat
    OBVIOUS
  <2> QED BY <2>1 DEF Descending
<1>3. \A i, j \in 1 .. Cardinality(S) : s[i] = s[j] => i = j
  BY <1>1, <1>2
<1>4. \A i, j \in 1 .. Cardinality(S) : s[i] > s[j] => i < j
  BY <1>1, <1>2
<1>5. s \in Injection(1 .. Cardinality(S), S)
  BY <1>3 DEF Descending, Injection, IsInjective
<1>6. Cardinality(1 .. Cardinality(S)) = Cardinality(S)
  <2>1. 1 \in Int /\ Cardinality(S) \in Int
    BY <1>1
  <2>2. Cardinality(1 .. Cardinality(S))
          = IF 1 > Cardinality(S) THEN 0 ELSE Cardinality(S) - 1 + 1
    BY <2>1, FS_Interval
  <2> QED BY <1>1, <2>2
<1>7. s \in Surjection(1 .. Cardinality(S), S)
  BY <1>1, <1>5, <1>6, FS_Injection
<1> QED BY <1>3, <1>4, <1>7 DEF Surjection, IsOnto

\* Two descending enumerations of the same numbers are one.
LEMMA DescendingIsUnique ==
    ASSUME NEW N \in Nat, NEW S \in SUBSET (1 .. N), NEW s, Descending(s, S),
           NEW t, Descending(t, S)
    PROVE  s = t
<1> DEFINE c == Cardinality(S)
           Agree == {n \in Nat : \A k \in 1 .. n : k <= c => s[k] = t[k]}
<1>1. c \in Nat /\ S \subseteq Nat
  BY DescendingExists
<1>2. /\ \A i, j \in 1 .. c : s[i] = s[j] => i = j
      /\ \A i, j \in 1 .. c : s[i] > s[j] => i < j
      /\ \A x \in S : \E k \in 1 .. c : s[k] = x
  <2>1. IsOnto(s, S)
    BY DescendingIsOnto
  <2> QED BY <2>1 DEF IsOnto
<1>3. /\ \A i, j \in 1 .. c : t[i] = t[j] => i = j
      /\ \A i, j \in 1 .. c : t[i] > t[j] => i < j
      /\ \A x \in S : \E k \in 1 .. c : t[k] = x
  <2>1. IsOnto(t, S)
    BY DescendingIsOnto
  <2> QED BY <2>1 DEF IsOnto
<1>4. \A k \in 1 .. c : s[k] \in S /\ t[k] \in S
  BY DEF Descending
<1> HIDE DEF c
<1>5. 0 \in Agree
  OBVIOUS
<1>6. ASSUME NEW n \in Nat, n \in Agree PROVE n + 1 \in Agree
  <2> SUFFICES ASSUME n + 1 <= c PROVE s[n + 1] = t[n + 1]
    BY <1>6
  <2>0. n + 1 \in 1 .. c
    BY <1>1
  <2>1. /\ n + 1 \in 1 .. c /\ s[n + 1] \in S /\ t[n + 1] \in S
        /\ s[n + 1] \in Nat /\ t[n + 1] \in Nat
    BY <2>0, <1>1, <1>4
  <2>2. CASE s[n + 1] > t[n + 1]
    <3>1. PICK k \in 1 .. c : t[k] = s[n + 1]
      BY <2>1, <1>2, <1>3
    <3>2. k < n + 1
      BY <2>1, <2>2, <3>1, <1>2, <1>3
    <3>3. s[k] = t[k]
      BY <1>6, <3>1, <3>2
    <3> QED BY <2>1, <3>1, <3>2, <3>3, <1>2, <1>3
  <2>3. CASE t[n + 1] > s[n + 1]
    <3>1. PICK k \in 1 .. c : s[k] = t[n + 1]
      BY <2>1, <1>2, <1>3
    <3>2. k < n + 1
      BY <2>1, <2>3, <3>1, <1>2, <1>3
    <3>3. s[k] = t[k]
      BY <1>6, <3>1, <3>2
    <3> QED BY <2>1, <3>1, <3>2, <3>3, <1>2, <1>3
  <2> QED BY <2>1, <2>2, <2>3
<1>7. c \in Agree
  <2> HIDE DEF Agree
  <2>1. Nat \subseteq Agree
    BY <1>5, <1>6, NatInductionOnSet
  <2> QED BY <1>1, <2>1
<1> QED BY <1>1, <1>7 DEF Descending, c

\* What the query orders by.
LEMMA NewestFirstDescends ==
    ASSUME NEW N \in Nat, NEW S \in SUBSET (1 .. N)
    PROVE  Descending(NewestFirst(S), S)
BY DescendingExists DEF NewestFirst, Descending

(* The numbers of S below its n-th, enumerated, are what is left of S. *)
LEMMA RestDescends ==
    ASSUME NEW N \in Nat, NEW S \in SUBSET (1 .. N), NEW n \in 1 .. Cardinality(S),
           NEW T, T = {i \in S : i < NewestFirst(S)[n]}
    PROVE  /\ Cardinality(T) = Cardinality(S) - n
           /\ \A k \in 1 .. Cardinality(T) : NewestFirst(T)[k] = NewestFirst(S)[n + k]
<1> DEFINE s == NewestFirst(S)
           c == Cardinality(S)
           rest == [k \in n + 1 .. c |-> s[k]]
<1>1. c \in Nat /\ IsFiniteSet(S)
  BY DescendingExists
<1>2. c \in Nat /\ IsFiniteSet(S) /\ n \in Nat /\ n <= c
  BY <1>1
<1>3. Descending(s, S)
  BY NewestFirstDescends
<1> HIDE DEF s
<1>4. /\ \A i, j \in 1 .. c : s[i] = s[j] => i = j
      /\ \A i, j \in 1 .. c : s[i] > s[j] => i < j
      /\ \A x \in S : \E k \in 1 .. c : s[k] = x
  <2>1. IsOnto(s, S)
    BY <1>3, DescendingIsOnto
  <2> QED BY <2>1 DEF IsOnto
<1>5. S \subseteq Nat /\ \A k \in 1 .. c : s[k] \in S
  BY <1>3 DEF Descending
<1>6. T \in SUBSET (1 .. N) /\ IsFiniteSet(T)
  <2>1. T \in SUBSET S
    OBVIOUS
  <2> QED BY <1>2, <2>1, FS_Subset
<1> HIDE DEF c
<1>7. \A k \in n + 1 .. c : s[k] \in T
  BY <1>2, <1>3, <1>5 DEF Descending, s, c
<1>8. \A x \in T : \E k \in n + 1 .. c : s[k] = x
  <2> SUFFICES ASSUME NEW x \in T PROVE \E k \in n + 1 .. c : s[k] = x
    OBVIOUS
  <2>0. x \in S /\ x < s[n] /\ s[n] \in S
    BY <1>2, <1>5 DEF s, c
  <2>1. PICK k \in 1 .. c : s[k] = x
    BY <2>0, <1>4
  <2>2. n < k
    BY <1>2, <1>4, <1>5, <2>0, <2>1
  <2> QED BY <1>2, <2>1, <2>2
<1>9. rest \in Bijection(n + 1 .. c, T)
  <2>1. rest \in Injection(n + 1 .. c, T)
    <3>1. rest \in [n + 1 .. c -> T]
      BY <1>7
    <3>2. \A i, j \in n + 1 .. c : s[i] = s[j] => i = j
      BY <1>4
    <3> QED BY <3>1, <3>2 DEF Injection, IsInjective
  <2>2. rest \in Surjection(n + 1 .. c, T)
    BY <1>7, <1>8 DEF Surjection
  <2> QED BY <2>1, <2>2 DEF Bijection
<1>10. Cardinality(T) = c - n
  <2>1. n + 1 \in Int /\ c \in Int
    BY <1>2
  <2>2. /\ IsFiniteSet(n + 1 .. c)
        /\ Cardinality(n + 1 .. c) = IF n + 1 > c THEN 0 ELSE c - (n + 1) + 1
    BY <2>1, FS_Interval
  <2>3. Cardinality(T) = Cardinality(n + 1 .. c)
    BY <1>9, <2>2, FS_Bijection DEF ExistsBijection
  <2> QED BY <1>2, <2>2, <2>3
<1> DEFINE t == [k \in 1 .. Cardinality(T) |-> s[n + k]]
<1>11. Descending(t, T)
  <2>1. \A k \in 1 .. Cardinality(T) : n + k \in n + 1 .. c
    BY <1>2, <1>10
  <2>2. t \in [1 .. Cardinality(T) -> T]
    BY <1>7, <2>1
  <2>3. \A i, j \in 1 .. Cardinality(T) : i < j => s[n + i] > s[n + j]
    BY <1>2, <1>10, <1>3, <2>1 DEF Descending, c
  <2> QED BY <2>2, <2>3 DEF Descending
<1>12. NewestFirst(T) = t
  <2> HIDE DEF t
  <2> QED BY <1>6, <1>11, NewestFirstDescends, DescendingIsUnique
<1> QED BY <1>10, <1>12 DEF s, c

-----------------------------------------------------------------------------
(* FlattenSeq is a recursive function; one that satisfies the recursion exists,
   has sequences for values and does not depend on what is appended. *)

IsFlat(f, seqs, n) == f = [i \in 1 .. n |-> IF i = 1 THEN seqs[i] ELSE f[i - 1] \o seqs[i]]

LEMMA FlatStep ==
    ASSUME NEW seqs, NEW n \in Nat, NEW f, IsFlat(f, seqs, n), NEW i \in 1 .. n
    PROVE  f[i] = IF i = 1 THEN seqs[i] ELSE f[i - 1] \o seqs[i]
<1> DEFINE h == [k \in 1 .. n |-> IF k = 1 THEN seqs[k] ELSE f[k - 1] \o seqs[k]]
<1>1. f = h
  BY DEF IsFlat
<1>2. h[i] = IF i = 1 THEN seqs[i] ELSE f[i - 1] \o seqs[i]
  OBVIOUS
<1> HIDE DEF h
<1> QED BY <1>1, <1>2

LEMMA FlatExists ==
    ASSUME NEW seqs, NEW N \in Nat PROVE \E f : IsFlat(f, seqs, N)
<1> DEFINE Good == {n \in Nat : \E f : IsFlat(f, seqs, n)}
<1>1. 0 \in Good
  <2>1. IsFlat([i \in 1 .. 0 |-> i], seqs, 0)
    BY DEF IsFlat
  <2> QED BY <2>1
<1>2. ASSUME NEW n \in Nat, n \in Good PROVE n + 1 \in Good
  <2>1. PICK f : IsFlat(f, seqs, n)
    BY <1>2
  <2> DEFINE g == [i \in 1 .. n + 1 |-> IF i = 1 THEN seqs[i] ELSE f[i - 1] \o seqs[i]]
  <2>2. \A i \in 1 .. n : g[i] = f[i]
    <3> SUFFICES ASSUME NEW i \in 1 .. n PROVE g[i] = f[i]
      OBVIOUS
    <3>1. f[i] = IF i = 1 THEN seqs[i] ELSE f[i - 1] \o seqs[i]
      BY <2>1, FlatStep
    <3>2. g[i] = IF i = 1 THEN seqs[i] ELSE f[i - 1] \o seqs[i]
      OBVIOUS
    <3> QED BY <3>1, <3>2
  <2>3. \A i \in 1 .. n + 1 : i # 1 => i - 1 \in 1 .. n
    OBVIOUS
  <2>4. g = [i \in 1 .. n + 1 |-> IF i = 1 THEN seqs[i] ELSE g[i - 1] \o seqs[i]]
    BY <2>2, <2>3
  <2>5. IsFlat(g, seqs, n + 1)
    BY <2>4 DEF IsFlat
  <2> QED BY <2>5
<1> HIDE DEF Good
<1>3. Nat \subseteq Good
  BY <1>1, <1>2, NatInductionOnSet
<1> QED BY <1>3 DEF Good

\* The function that FlattenSeq chooses satisfies the recursion.
LEMMA FlattenUnfolds ==
    ASSUME NEW S, NEW seqs \in Seq(S), seqs # <<>>
    PROVE  \E f : FlattenSeq(seqs) = f[Len(seqs)] /\ IsFlat(f, seqs, Len(seqs))
<1> DEFINE f == CHOOSE g : g = [i \in 1 .. Len(seqs) |->
                                  IF i = 1 THEN seqs[i] ELSE g[i - 1] \o seqs[i]]
<1>1. Len(seqs) \in Nat /\ Len(seqs) # 0
  BY EmptySeq
<1>2. FlattenSeq(seqs) = f[Len(seqs)]
  BY <1>1 DEF FlattenSeq
<1>3. IsFlat(f, seqs, Len(seqs))
  BY <1>1, FlatExists DEF IsFlat
<1> QED BY <1>2, <1>3

LEMMA FlatIsSeq ==
    ASSUME NEW S, NEW seqs \in Seq(Seq(S)), NEW f, IsFlat(f, seqs, Len(seqs))
    PROVE  \A i \in 1 .. Len(seqs) : f[i] \in Seq(S)
<1> DEFINE N == Len(seqs)
           Good == {n \in Nat : \A i \in 1 .. n : i <= N => f[i] \in Seq(S)}
<1>0. N \in Nat /\ IsFlat(f, seqs, N) /\ \A i \in 1 .. N : seqs[i] \in Seq(S)
  OBVIOUS
<1> HIDE DEF N, Good
<1>4. ASSUME NEW i \in 1 .. N
      PROVE  f[i] = IF i = 1 THEN seqs[i] ELSE f[i - 1] \o seqs[i]
  BY <1>0, FlatStep
<1> USE DEF Good
<1>1. 0 \in Good
  OBVIOUS
<1>2. ASSUME NEW n \in Nat, n \in Good PROVE n + 1 \in Good
  <2> SUFFICES ASSUME NEW i \in 1 .. n + 1, i <= N PROVE f[i] \in Seq(S)
    OBVIOUS
  <2>1. i \in 1 .. N /\ seqs[i] \in Seq(S)
    BY <1>0
  <2>2. f[i] = IF i = 1 THEN seqs[i] ELSE f[i - 1] \o seqs[i]
    BY <1>4, <2>1
  <2>3. CASE i = 1
    BY <2>1, <2>2, <2>3
  <2>4. CASE i # 1
    <3>1. i - 1 \in 1 .. n /\ i - 1 <= N
      BY <1>0, <2>1, <2>4
    <3>2. f[i - 1] \in Seq(S)
      BY <1>2, <3>1
    <3>3. f[i - 1] \o seqs[i] \in Seq(S)
      BY <3>2, <2>1, ConcatProperties
    <3> QED BY <3>3, <2>2, <2>4
  <2> QED BY <2>3, <2>4
<1>3. N \in Good
  <2> HIDE DEF Good
  <2>1. Nat \subseteq Good
    BY <1>1, <1>2, NatInductionOnSet
  <2> QED BY <1>0, <2>1
<1> QED BY <1>3 DEF N

(* Flattening page by page: what an appended sequence adds is itself. *)
LEMMA FlattenAppend ==
    ASSUME NEW S, NEW seqs \in Seq(Seq(S)), NEW last \in Seq(S)
    PROVE  /\ FlattenSeq(seqs) \in Seq(S)
           /\ FlattenSeq(Append(seqs, last)) = FlattenSeq(seqs) \o last
<1> DEFINE longer == Append(seqs, last)
           n == Len(seqs)
<1>1. /\ longer \in Seq(Seq(S)) /\ longer # <<>> /\ Len(longer) = n + 1 /\ n \in Nat
      /\ \A i \in 1 .. n : longer[i] = seqs[i]
      /\ longer[n + 1] = last
  BY AppendProperties
<1> HIDE DEF longer, n
<1>2. PICK g : FlattenSeq(longer) = g[n + 1] /\ IsFlat(g, longer, n + 1)
  BY <1>1, FlattenUnfolds
<1>3. g[n + 1] = IF n + 1 = 1 THEN last ELSE g[n] \o last
  <2>1. n + 1 \in Nat /\ n + 1 \in 1 .. n + 1 /\ (n + 1) - 1 = n
    BY <1>1
  <2> QED BY <1>1, <1>2, <2>1, FlatStep
<1>4. CASE seqs = <<>>
  <2>1. n = 0 /\ FlattenSeq(seqs) = <<>>
    BY <1>4 DEF n, FlattenSeq
  <2> QED BY <1>2, <1>3, <2>1, ConcatEmptySeq, EmptySeq DEF longer
<1>5. CASE seqs # <<>>
  <2>1. PICK f : FlattenSeq(seqs) = f[n] /\ IsFlat(f, seqs, n)
    BY <1>5, FlattenUnfolds DEF n
  <2>2. n # 0 /\ \A i \in 1 .. n : f[i] \in Seq(S)
    BY <1>5, <2>1, FlatIsSeq, EmptySeq DEF n
  <2> DEFINE Same == {k \in Nat : \A i \in 1 .. k : i <= n => g[i] = f[i]}
  <2>3. 0 \in Same
    OBVIOUS
  <2>4. ASSUME NEW k \in Nat, k \in Same PROVE k + 1 \in Same
    <3> SUFFICES ASSUME k + 1 <= n PROVE g[k + 1] = f[k + 1]
      BY <2>4
    <3>1. k + 1 \in 1 .. n /\ k + 1 \in 1 .. n + 1 /\ longer[k + 1] = seqs[k + 1]
      BY <1>1
    <3>2. /\ f[k + 1] = IF k + 1 = 1 THEN seqs[k + 1] ELSE f[k] \o seqs[k + 1]
          /\ g[k + 1] = IF k + 1 = 1 THEN seqs[k + 1] ELSE g[k] \o seqs[k + 1]
      <4>1. n \in Nat /\ n + 1 \in Nat /\ (k + 1) - 1 = k
        BY <1>1
      <4>2. f[k + 1] = IF k + 1 = 1 THEN seqs[k + 1] ELSE f[(k + 1) - 1] \o seqs[k + 1]
        BY <3>1, <4>1, <2>1, FlatStep
      <4>3. g[k + 1] = IF k + 1 = 1 THEN longer[k + 1] ELSE g[(k + 1) - 1] \o longer[k + 1]
        BY <3>1, <4>1, <1>2, FlatStep
      <4> QED BY <4>1, <4>2, <4>3, <3>1
    <3>3. k # 0 => g[k] = f[k]
      BY <2>4, <1>1
    <3> QED BY <3>2, <3>3
  <2>5. n \in Same
    <3> HIDE DEF Same
    <3>1. Nat \subseteq Same
      BY <2>3, <2>4, NatInductionOnSet
    <3> QED BY <1>1, <3>1
  <2>6. g[n] = f[n]
    BY <1>1, <2>2, <2>5
  <2> QED BY <1>1, <1>2, <1>3, <2>1, <2>2, <2>6 DEF longer
<1> QED BY <1>4, <1>5

-----------------------------------------------------------------------------
(* The walk.  The rows behind a cursor are those of the walk that it has not
   returned yet; with that, and identities that name one row only, the pages
   read so far are a prefix of the history, and the cursor is its last row. *)

UniqueIds == \A i, j \in DOMAIN ledger : ledger[i].id = ledger[j].id => i = j
LedgerInv == ledger \in Seq(Checkpoints) /\ UniqueIds

Seen(w) == FlattenSeq(w.pages)

\* Every page but the last is as long as asked for, and only the first is empty.
Full(w) ==
    \A k \in DOMAIN w.pages :
        /\ Len(w.pages[k]) <= w.limits[k]
        /\ (k < Len(w.pages) \/ w.state = "reading") => Len(w.pages[k]) = w.limits[k]
        /\ k > 1 => w.pages[k] # <<>>

\* How far a walk is: n of the identities E it has to return.
IsAt(w, E, n) ==
    /\ Seen(w) = SubSeq(E, 1, n)
    /\ w.state = "reading" => n \in 1 .. Len(E) /\ n < Len(E) /\ w.cursor = E[n]
    /\ w.state = "done" => n = Len(E)

Walked(w) ==
    /\ w \in Walks
    /\ w.from <= Len(ledger)
    /\ Len(w.limits) = Len(w.pages)
    /\ \E n \in 0 .. Len(Expected(w)) : IsAt(w, Expected(w), n)
    /\ Full(w)

WalkInv == LedgerInv /\ \A r \in Readers : walk[r] = Idle \/ Walked(walk[r])

\* The identities of a set of rows: one for each row, in the order of the rows.
LEMMA IdsOfRows ==
    ASSUME LedgerInv, NEW N \in Nat, N <= Len(ledger), NEW S \in SUBSET (1 .. N)
    PROVE  /\ IdsOf(S) \in Seq(Ids) /\ Len(IdsOf(S)) = Cardinality(S)
           /\ Cardinality(S) \in Nat
           /\ \A k \in 1 .. Cardinality(S) :
                /\ NewestFirst(S)[k] \in S
                /\ IdsOf(S)[k] = ledger[NewestFirst(S)[k]].id
<1> DEFINE c == Cardinality(S)
<1>1. c \in Nat
  BY DescendingExists
<1>2. \A k \in 1 .. c : NewestFirst(S)[k] \in S
  BY NewestFirstDescends DEF Descending
<1>3. \A i \in S : ledger[i].id \in Ids
  <2>1. \A i \in 1 .. Len(ledger) : ledger[i] \in Checkpoints
    BY DEF LedgerInv
  <2>2. S \subseteq 1 .. Len(ledger)
    BY DEF LedgerInv
  <2> QED BY <2>1, <2>2 DEF Checkpoints
<1> HIDE DEF c
<1>4. IdsOf(S) = [k \in 1 .. c |-> ledger[NewestFirst(S)[k]].id]
  BY DEF IdsOf, c
<1>5. IdsOf(S) \in [1 .. c -> Ids]
  BY <1>2, <1>3, <1>4
<1>6. IdsOf(S) \in Seq(Ids) /\ Len(IdsOf(S)) = c
  BY <1>1, <1>5
<1> QED BY <1>1, <1>2, <1>4, <1>6 DEF c

LEMMA RowidOfRow ==
    ASSUME LedgerInv, NEW i \in DOMAIN ledger
    PROVE  Known(ledger[i].id) /\ Rowid(ledger[i].id) = i
BY DEF LedgerInv, UniqueIds, Known, Rowid

\* The identities the query finds, and those of E behind its n-th.
Hits(scope, before) == IdsOf({i \in DOMAIN ledger : Matches(ledger[i], scope) /\ Before(i, before)})
Behind(ids, E, n) ==
    ids \in Seq(Ids) /\ Len(ids) = Len(E) - n /\ \A k \in 1 .. Len(E) - n : ids[k] = E[n + k]

(* Of the rows of a walk, those the query finds behind the n-th are the rest. *)
LEMMA BehindCursor ==
    ASSUME LedgerInv, unscoped = {}, NEW w \in Walks, w.from <= Len(ledger),
           NEW n \in 1 .. Len(Expected(w))
    PROVE  Behind(Hits(w.scope, Expected(w)[n]), Expected(w), n)
<1> DEFINE rows == {i \in DOMAIN ledger : /\ Matches(ledger[i], w.scope)
                                          /\ Before(i, Expected(w)[n])}
<1>12. Hits(w.scope, Expected(w)[n]) = IdsOf(rows)
  BY DEF Hits
<1>13. \A i : i \in rows <=> /\ i \in DOMAIN ledger /\ Matches(ledger[i], w.scope)
                             /\ Before(i, Expected(w)[n])
  OBVIOUS
<1> HIDE DEF rows
<1> DEFINE R == RowsOf(w)
           q == NewestFirst(R)[n]
           from == w.from
<1>1. from \in Nat /\ from <= Len(ledger) /\ R \in SUBSET (1 .. from)
  BY DEF Walks, RowsOf
<1>2. DOMAIN ledger = 1 .. Len(ledger) /\ Len(ledger) \in Nat
  BY DEF LedgerInv
<1> HIDE DEF from, R
<1>3. /\ Expected(w) = IdsOf(R) /\ Len(IdsOf(R)) = Cardinality(R) /\ Cardinality(R) \in Nat
      /\ \A k \in 1 .. Cardinality(R) :
           NewestFirst(R)[k] \in R /\ IdsOf(R)[k] = ledger[NewestFirst(R)[k]].id
  BY <1>1, IdsOfRows DEF Expected, R
<1>4. n \in 1 .. Cardinality(R) /\ q \in R /\ Expected(w)[n] = ledger[q].id
  BY <1>3
<1>0. q = NewestFirst(R)[n]
  OBVIOUS
<1> HIDE DEF q
<1>5. q \in DOMAIN ledger /\ q \in Nat /\ q <= from
  BY <1>1, <1>2, <1>4
<1>6. Known(ledger[q].id) /\ Rowid(ledger[q].id) = q /\ ledger[q].id # None
  <2>1. ledger[q].id \in Ids
    <3>1. ledger[q] \in Checkpoints
      BY <1>2, <1>5 DEF LedgerInv
    <3> QED BY <3>1 DEF Checkpoints
  <2> QED BY <2>1, <1>5, RowidOfRow, NoneAssumption
<1>7. rows = {i \in R : i < q}
  <2>1. \A i \in DOMAIN ledger : Before(i, ledger[q].id) <=> i < q
    BY <1>6 DEF Before
  <2>2. rows = {i \in DOMAIN ledger : Matches(ledger[i], w.scope) /\ i < q}
    BY <2>1, <1>4, <1>13
  <2>3. ASSUME NEW i \in DOMAIN ledger, i < q
        PROVE  Matches(ledger[i], w.scope) <=> i \in R
    <3>1. i \in 1 .. from
      BY <2>3, <1>1, <1>2, <1>5
    <3>2. w.first # None => /\ \E k \in 1 .. w.from : ledger[k].id = w.first
                            /\ q < Rowid(w.first)
      BY <1>4 DEF R, RowsOf
    <3>3. w.first # None => Rowid(w.first) \in Nat
      <4> SUFFICES ASSUME w.first # None PROVE Rowid(w.first) \in Nat
        OBVIOUS
      <4>1. PICK k \in 1 .. w.from : ledger[k].id = w.first
        BY <3>2
      <4>2. k \in DOMAIN ledger
        BY <1>1, <1>2 DEF from
      <4> QED BY <4>1, <4>2, <1>2, RowidOfRow
    <3>4. w.first # None => i < Rowid(w.first)
      BY <3>2, <3>3, <3>1, <1>5, <2>3
    <3>5. Matches(ledger[i], w.scope)
            <=> /\ ledger[i].project = w.scope.project
                /\ w.scope.item \in {NoItem, ledger[i].item}
      BY DEF Matches
    <3> QED BY <3>1, <3>2, <3>4, <3>5 DEF R, RowsOf, from
  <2>4. \A i \in R : i \in DOMAIN ledger
    BY <1>1, <1>2
  <2> QED BY <2>2, <2>3, <2>4
<1>8. /\ Cardinality(rows) = Cardinality(R) - n
      /\ \A k \in 1 .. Cardinality(rows) : NewestFirst(rows)[k] = NewestFirst(R)[n + k]
  <2>1. from \in Nat /\ R \in SUBSET (1 .. from) /\ n \in 1 .. Cardinality(R)
    BY <1>1, <1>4
  <2>2. rows = {i \in R : i < NewestFirst(R)[n]}
    BY <1>0, <1>7
  <2>3. \A T : T = {i \in R : i < NewestFirst(R)[n]} =>
                  /\ Cardinality(T) = Cardinality(R) - n
                  /\ \A k \in 1 .. Cardinality(T) : NewestFirst(T)[k] = NewestFirst(R)[n + k]
    BY <2>1, RestDescends
  <2> QED BY <2>2, <2>3
<1>9. rows \in SUBSET (1 .. from)
  BY <1>1, <1>7
<1>10. /\ IdsOf(rows) \in Seq(Ids) /\ Len(IdsOf(rows)) = Cardinality(rows)
       /\ \A k \in 1 .. Cardinality(rows) : IdsOf(rows)[k] = ledger[NewestFirst(rows)[k]].id
  BY <1>1, <1>9, IdsOfRows
<1>11. \A k \in 1 .. Cardinality(R) - n : n + k \in 1 .. Cardinality(R)
  BY <1>3, <1>4
<1> QED BY <1>3, <1>8, <1>10, <1>11, <1>12 DEF Behind

(* Sequences: a prefix, and what follows it. *)
LEMMA PrefixProperties ==
    ASSUME NEW S, NEW E \in Seq(S), NEW n \in Nat, n <= Len(E)
    PROVE  /\ SubSeq(E, 1, n) \in Seq(S) /\ Len(SubSeq(E, 1, n)) = n
           /\ \A k \in 1 .. n : SubSeq(E, 1, n)[k] = E[k]
<1>1. 1 \in Int /\ n \in Int /\ Len(E) \in Nat
  OBVIOUS
<1>2. \A k \in 1 .. n : E[k] \in S
  OBVIOUS
<1>3. /\ SubSeq(E, 1, n) \in Seq(S)
      /\ Len(SubSeq(E, 1, n)) = IF 1 <= n THEN n - 1 + 1 ELSE 0
      /\ \A k \in 1 .. n - 1 + 1 : SubSeq(E, 1, n)[k] = E[1 + k - 1]
  BY <1>1, <1>2, SubSeqProperties
<1> QED BY <1>1, <1>3

LEMMA PrefixExtends ==
    ASSUME NEW S, NEW E \in Seq(S), NEW n \in Nat, NEW m \in Nat, n + m <= Len(E),
           NEW p \in Seq(S), Len(p) = m, \A k \in 1 .. m : p[k] = E[n + k]
    PROVE  SubSeq(E, 1, n) \o p = SubSeq(E, 1, n + m)
<1> DEFINE s == SubSeq(E, 1, n)
           t == SubSeq(E, 1, n + m)
<1>1. Len(E) \in Nat /\ n <= Len(E) /\ n + m \in Nat
  OBVIOUS
<1>2. s \in Seq(S) /\ Len(s) = n /\ \A k \in 1 .. n : s[k] = E[k]
  BY <1>1, PrefixProperties
<1>3. t \in Seq(S) /\ Len(t) = n + m /\ \A k \in 1 .. n + m : t[k] = E[k]
  BY <1>1, PrefixProperties
<1> HIDE DEF s, t
<1>4. /\ s \o p \in Seq(S) /\ Len(s \o p) = Len(s) + Len(p)
      /\ \A k \in 1 .. Len(s) + Len(p) :
           (s \o p)[k] = IF k <= Len(s) THEN s[k] ELSE p[k - Len(s)]
  BY <1>2, ConcatProperties
<1>5. ASSUME NEW k \in 1 .. n + m PROVE (s \o p)[k] = t[k]
  <2>1. (s \o p)[k] = IF k <= n THEN s[k] ELSE p[k - n]
    BY <1>2, <1>4
  <2>2. CASE k <= n
    BY <2>1, <2>2, <1>2, <1>3
  <2>3. CASE ~(k <= n)
    <3>1. k - n \in 1 .. m /\ n + (k - n) = k
      BY <2>3
    <3>2. p[k - n] = E[k]
      BY <3>1
    <3> QED BY <2>1, <2>3, <3>2, <1>3
  <2> QED BY <2>2, <2>3
<1>6. s \o p = t
  BY <1>2, <1>3, <1>4, <1>5, SeqEqual
<1> QED BY <1>6 DEF s, t

\* What a page is, of the identities the query finds.
LEMMA PageOfHits ==
    ASSUME NEW scope, NEW before, NEW limit \in Nat \ {0}, Hits(scope, before) \in Seq(Ids)
    PROVE  LET page == Page(scope, before, limit)
               ids == Hits(scope, before)
               m == IF Len(ids) > limit THEN limit ELSE Len(ids)
           IN  /\ page.ids \in Seq(Ids) /\ Len(page.ids) = m
               /\ \A k \in 1 .. m : page.ids[k] = ids[k]
               /\ page.next = IF Len(ids) > limit THEN ids[limit] ELSE None
<1> DEFINE page == Page(scope, before, limit)
           ids == Hits(scope, before)
           m == IF Len(ids) > limit THEN limit ELSE Len(ids)
           size == IF Len(ids) < limit + 1 THEN Len(ids) ELSE limit + 1
           fetched == SubSeq(ids, 1, size)
           cut == IF Len(fetched) > limit THEN limit ELSE Len(fetched)
<1>1. ids \in Seq(Ids) /\ Len(ids) \in Nat
  OBVIOUS
<1>2. size \in Nat /\ size <= Len(ids)
  BY <1>1
<1>3. Fetched(scope, before, limit) = fetched
  BY DEF Fetched, FetchLimit, Hits
<1>4. page = [ids |-> SubSeq(fetched, 1, cut),
              next |-> IF Len(fetched) > limit THEN Last(SubSeq(fetched, 1, cut)) ELSE None]
  BY <1>3 DEF Page, HasMore
<1> HIDE DEF ids, size, fetched, page
<1>5. fetched \in Seq(Ids) /\ Len(fetched) = size /\ \A k \in 1 .. size : fetched[k] = ids[k]
  BY <1>1, <1>2, PrefixProperties DEF fetched
<1>6. cut = m /\ m \in Nat /\ m <= size /\ (Len(fetched) > limit <=> Len(ids) > limit)
  BY <1>1, <1>2, <1>5 DEF size
<1>7. Len(ids) > limit => m = limit /\ m \in 1 .. m
  BY <1>1
<1> HIDE DEF m, cut
<1>8. /\ SubSeq(fetched, 1, m) \in Seq(Ids) /\ Len(SubSeq(fetched, 1, m)) = m
      /\ \A k \in 1 .. m : SubSeq(fetched, 1, m)[k] = fetched[k]
  BY <1>5, <1>6, PrefixProperties
<1>9. page.ids = SubSeq(fetched, 1, m)
  BY <1>4, <1>6
<1>10. \A k \in 1 .. m : page.ids[k] = ids[k]
  BY <1>5, <1>6, <1>8, <1>9
<1>11. page.next = IF Len(ids) > limit THEN ids[limit] ELSE None
  <2>1. Len(ids) > limit => Last(SubSeq(fetched, 1, m)) = ids[limit]
    BY <1>7, <1>8, <1>9, <1>10 DEF Last
  <2> QED BY <1>4, <1>6, <2>1
<1> QED BY <1>8, <1>9, <1>10, <1>11 DEF page, m, ids

(* A page of what is behind the n-th of E takes a walk from n to n + m. *)
Advances(page, E, n, limit) ==
    LET m == Len(page.ids)
    IN  /\ page.ids \in Seq(Ids) /\ m \in Nat /\ m <= limit /\ n + m \in 0 .. Len(E)
        /\ SubSeq(E, 1, n) \o page.ids = SubSeq(E, 1, n + m)
        /\ page.next \in Ids \cup {None}
        /\ page.next = None => n + m = Len(E)
        /\ page.next # None => n + m < Len(E) /\ m = limit /\ page.next = E[n + m]
        /\ n < Len(E) => page.ids # <<>>

LEMMA PageAdvances ==
    ASSUME NEW scope, NEW before, NEW limit \in Nat \ {0},
           NEW E \in Seq(Ids), NEW n \in Nat, n <= Len(E), Behind(Hits(scope, before), E, n)
    PROVE  Advances(Page(scope, before, limit), E, n, limit)
<1> DEFINE page == Page(scope, before, limit)
           ids == Hits(scope, before)
           m == Len(page.ids)
           L == Len(E)
<1>1. L \in Nat /\ n <= L /\ \A k \in 1 .. L : E[k] \in Ids
  OBVIOUS
<1>2. ids \in Seq(Ids) /\ Len(ids) = L - n /\ \A k \in 1 .. L - n : ids[k] = E[n + k]
  BY DEF Behind
<1>3. /\ page.ids \in Seq(Ids) /\ m = IF L - n > limit THEN limit ELSE L - n
      /\ \A k \in 1 .. m : page.ids[k] = ids[k]
      /\ page.next = IF L - n > limit THEN ids[limit] ELSE None
  BY <1>2, PageOfHits
<1> HIDE DEF page, ids, m, L
<1>4. m \in Nat /\ m <= limit /\ n + m <= L /\ (L - n > limit => n + m < L)
  BY <1>1, <1>3
<1>5. \A k \in 1 .. m : page.ids[k] = E[n + k]
  BY <1>1, <1>2, <1>3, <1>4
<1>6. SubSeq(E, 1, n) \o page.ids = SubSeq(E, 1, n + m)
  <2>1. page.ids \in Seq(Ids) /\ Len(page.ids) = m /\ m \in Nat /\ n + m <= Len(E)
    BY <1>3, <1>4 DEF m, L
  <2>2. \A p \in Seq(Ids) : (Len(p) = m /\ \A k \in 1 .. m : p[k] = E[n + k])
                              => SubSeq(E, 1, n) \o p = SubSeq(E, 1, n + m)
    BY <2>1, PrefixExtends
  <2> QED BY <2>1, <2>2, <1>5
<1>7. L - n > limit => page.next = E[n + m] /\ m = limit /\ page.next \in Ids
  BY <1>1, <1>2, <1>3, <1>4
<1>8. ~(L - n > limit) => page.next = None /\ n + m = L
  BY <1>1, <1>3
<1>9. n < L => page.ids # <<>>
  <2>1. n < L => m # 0
    BY <1>1, <1>3
  <2> QED BY <2>1, EmptySeq DEF m
<1>10. n + m \in 0 .. L /\ (page.next # None => L - n > limit) /\ page.next \in Ids \cup {None}
  BY <1>1, <1>4, <1>7, <1>8
<1>11. page.next = None => n + m = L
  BY <1>7, <1>8, NoneAssumption
<1>12. page.next # None => n + m < L /\ m = limit /\ page.next = E[n + m]
  BY <1>4, <1>7, <1>10
<1>13. Advances(page, E, n, limit)
  BY <1>3, <1>4, <1>6, <1>9, <1>10, <1>11, <1>12 DEF Advances, m, L
<1> QED BY <1>13 DEF page

\* Where a walk begins, the query finds the rows of its scope.
LEMMA BehindNothing ==
    ASSUME LedgerInv, unscoped = {}, NEW w \in Walks, w.from = Len(ledger)
    PROVE  Expected(w) \in Seq(Ids) /\ Behind(Hits(w.scope, w.first), Expected(w), 0)
<1> DEFINE rows == {i \in DOMAIN ledger : Matches(ledger[i], w.scope) /\ Before(i, w.first)}
           R == RowsOf(w)
<1>1. w.from \in Nat /\ DOMAIN ledger = 1 .. w.from /\ w.from <= Len(ledger)
  BY DEF LedgerInv
<1>2. R \in SUBSET (1 .. w.from)
  BY DEF RowsOf
<1>3. rows = R
  <2>1. ASSUME NEW i \in 1 .. w.from
        PROVE  i \in R <=> Matches(ledger[i], w.scope) /\ Before(i, w.first)
    <3>1. Matches(ledger[i], w.scope)
            <=> /\ ledger[i].project = w.scope.project
                /\ w.scope.item \in {NoItem, ledger[i].item}
      BY DEF Matches
    <3>2. Before(i, w.first)
            <=> (w.first # None => /\ \E k \in 1 .. w.from : ledger[k].id = w.first
                                   /\ i < Rowid(w.first))
      BY <1>1 DEF Before, Known
    <3> QED BY <3>1, <3>2 DEF RowsOf
  <2> HIDE DEF R
  <2> QED BY <1>1, <1>2, <2>1
<1> HIDE DEF R, rows
<1>4. /\ Expected(w) = IdsOf(R) /\ Hits(w.scope, w.first) = IdsOf(R)
  BY <1>3 DEF Expected, Hits, R, rows
<1>5. IdsOf(R) \in Seq(Ids)
  BY <1>1, <1>2, IdsOfRows
<1> HIDE DEF LedgerInv
<1>6. Len(IdsOf(R)) = Len(IdsOf(R)) - 0 /\ \A k \in 1 .. Len(IdsOf(R)) - 0 : k = 0 + k
  BY <1>5
<1> QED BY <1>4, <1>5, <1>6 DEF Behind

\* A walk that goes on keeps its history.
LEMMA SameHistory ==
    ASSUME NEW v, NEW w, v.from = w.from, v.scope = w.scope, v.first = w.first
    PROVE  Expected(v) = Expected(w)
<1>1. RowsOf(v) = RowsOf(w)
  BY DEF RowsOf
<1> QED BY <1>1 DEF Expected

(* The next page of a walk: n of its history were read, n + m are then. *)
GoesOn(w, n) ==
    /\ w \in Walks /\ w.from <= Len(ledger) /\ Len(w.limits) = Len(w.pages)
    /\ w.state = "reading" /\ Full(w)
    /\ Expected(w) \in Seq(Ids) /\ n \in Nat /\ n <= Len(Expected(w))
    /\ Seen(w) = SubSeq(Expected(w), 1, n)
    /\ w.pages # <<>> => n < Len(Expected(w))

Gone(w, page, limit) ==
    [w EXCEPT !.state = IF page.next = None THEN "done" ELSE "reading",
              !.cursor = page.next,
              !.pages = Append(@, page.ids),
              !.limits = Append(@, limit)]

LEMMA WalkGoesOn ==
    ASSUME NEW w, NEW n, GoesOn(w, n), NEW limit \in 1 .. MaxLimit,
           NEW page, Advances(page, Expected(w), n, limit),
           NEW v, v = Gone(w, page, limit)
    PROVE  Walked(v)
<1> DEFINE E == Expected(w)
           m == Len(page.ids)
           L == Len(w.pages)
<1>0. /\ w \in Walks /\ w.from <= Len(ledger) /\ Len(w.limits) = L
      /\ w.state = "reading" /\ Full(w) /\ n \in Nat
      /\ Seen(w) = SubSeq(E, 1, n) /\ (w.pages # <<>> => n < Len(E))
  BY DEF GoesOn
<1>1. /\ v.state = IF page.next = None THEN "done" ELSE "reading"
      /\ v.cursor = page.next /\ v.scope = w.scope /\ v.first = w.first /\ v.from = w.from
      /\ v.pages = Append(w.pages, page.ids) /\ v.limits = Append(w.limits, limit)
      /\ v = [state |-> v.state, scope |-> v.scope, first |-> v.first, cursor |-> v.cursor,
              pages |-> v.pages, limits |-> v.limits, from |-> v.from]
  BY <1>0 DEF Walks, Gone
<1>2. /\ w.pages \in Seq(Seq(Ids)) /\ w.limits \in Seq(1 .. MaxLimit) /\ w.from \in Nat
      /\ w.scope \in Scopes /\ w.first \in Ids \cup {None}
  BY <1>0 DEF Walks
<1>3. /\ page.ids \in Seq(Ids) /\ m \in Nat /\ m <= limit /\ n + m \in 0 .. Len(E)
      /\ SubSeq(E, 1, n) \o page.ids = SubSeq(E, 1, n + m)
      /\ page.next \in Ids \cup {None}
      /\ page.next = None => n + m = Len(E)
      /\ page.next # None => n + m < Len(E) /\ m = limit /\ page.next = E[n + m]
      /\ n < Len(E) => page.ids # <<>>
  BY DEF Advances
<1>4. /\ v.pages \in Seq(Seq(Ids)) /\ Len(v.pages) = L + 1 /\ v.pages[L + 1] = page.ids
      /\ \A k \in 1 .. L : v.pages[k] = w.pages[k]
  <2> DEFINE x == w.pages
             y == page.ids
             S == Seq(Ids)
  <2>1. x \in Seq(S) /\ y \in S /\ v.pages = Append(x, y)
    BY <1>1, <1>2, <1>3
  <2> HIDE DEF x, y, S
  <2>2. /\ Append(x, y) \in Seq(S) /\ Len(Append(x, y)) = Len(x) + 1
        /\ \A k \in 1 .. Len(x) : Append(x, y)[k] = x[k]
        /\ Append(x, y)[Len(x) + 1] = y
    BY <2>1, AppendProperties
  <2> QED BY <2>1, <2>2 DEF x, y, S
<1>5. /\ v.limits \in Seq(1 .. MaxLimit) /\ Len(v.limits) = L + 1 /\ v.limits[L + 1] = limit
      /\ \A k \in 1 .. L : v.limits[k] = w.limits[k]
  BY <1>0, <1>1, <1>2, AppendProperties
<1>6. v \in Walks
  <2>1. v.state \in {"reading", "done"} /\ v.cursor \in Ids \cup {None}
    BY <1>1, <1>3
  <2> HIDE DEF m, E, L
  <2> QED BY <2>1, <1>1, <1>2, <1>4, <1>5 DEF Walks
<1>7. Expected(v) = E
  BY <1>1, SameHistory
<1>8. Seen(v) = SubSeq(E, 1, n + m)
  <2>1. FlattenSeq(Append(w.pages, page.ids)) = FlattenSeq(w.pages) \o page.ids
    BY <1>2, <1>3, FlattenAppend
  <2> QED BY <2>1, <1>0, <1>1, <1>3 DEF Seen
<1>9. limit \in Nat /\ limit > 0 /\ L \in Nat /\ (L # 0 => w.pages # <<>>)
  <2>1. L \in Nat /\ (L # 0 => w.pages # <<>>)
    BY <1>2, EmptySeq
  <2> QED BY <2>1, LimitAssumption
<1>10. DOMAIN v.pages = 1 .. L + 1 /\ DOMAIN w.pages = 1 .. L
  BY <1>2, <1>4, LenProperties
<1> HIDE DEF E, m, L
<1>11. IsAt(v, E, n + m)
  BY <1>0, <1>1, <1>3, <1>8, <1>9 DEF IsAt
<1>12. Full(v)
  <2> SUFFICES ASSUME NEW k \in 1 .. L + 1
               PROVE  /\ Len(v.pages[k]) <= v.limits[k]
                      /\ (k < L + 1 \/ v.state = "reading") => Len(v.pages[k]) = v.limits[k]
                      /\ k > 1 => v.pages[k] # <<>>
    BY <1>4, <1>10 DEF Full
  <2>1. CASE k \in 1 .. L
    <3>1. /\ Len(w.pages[k]) = w.limits[k] /\ Len(w.pages[k]) <= w.limits[k]
          /\ k > 1 => w.pages[k] # <<>>
      BY <2>1, <1>0, <1>10 DEF Full
    <3> QED BY <3>1, <2>1, <1>4, <1>5
  <2>2. CASE k = L + 1
    <3>1. page.next # None <=> v.state = "reading"
      BY <1>1
    <3>2. k > 1 => page.ids # <<>>
      BY <2>2, <1>0, <1>3, <1>9
    <3>3. Len(v.pages[k]) = m /\ v.limits[k] = limit /\ v.pages[k] = page.ids /\ ~(k < L + 1)
      BY <2>2, <1>4, <1>5, <1>9 DEF m
    <3> QED BY <3>1, <3>2, <3>3, <1>3
  <2>3. k \in 1 .. L \/ k = L + 1
    BY <1>9
  <2> QED BY <2>1, <2>2, <2>3
<1> QED BY <1>0, <1>1, <1>3, <1>4, <1>5, <1>6, <1>7, <1>11, <1>12 DEF Walked

-----------------------------------------------------------------------------
(* The invariant holds. *)

\* A row that is recorded comes after the rows of every walk.
LEMMA RecordKeepsRows ==
    ASSUME LedgerInv, NEW c \in Checkpoints, ~Known(c.id), ledger' = Append(ledger, c)
    PROVE  /\ LedgerInv' /\ Len(ledger)' = Len(ledger) + 1
           /\ \A i \in 1 .. Len(ledger) : ledger'[i] = ledger[i]
<1>1. /\ ledger' \in Seq(Checkpoints) /\ Len(ledger') = Len(ledger) + 1
      /\ \A i \in 1 .. Len(ledger) : ledger'[i] = ledger[i]
      /\ ledger'[Len(ledger) + 1] = c
  BY AppendProperties DEF LedgerInv
<1>2. /\ Len(ledger) \in Nat /\ DOMAIN ledger = 1 .. Len(ledger)
      /\ DOMAIN ledger' = 1 .. Len(ledger) + 1
  BY <1>1, LenProperties DEF LedgerInv
<1>3. ASSUME NEW i \in 1 .. Len(ledger) + 1, NEW j \in 1 .. Len(ledger) + 1,
             ledger'[i].id = ledger'[j].id
      PROVE  i = j
  <2>1. \A k \in 1 .. Len(ledger) : ledger[k].id # c.id
    BY <1>2 DEF Known
  <2>2. \A k \in 1 .. Len(ledger) + 1 : k \in 1 .. Len(ledger) \/ k = Len(ledger) + 1
    BY <1>2
  <2>3. CASE i \in 1 .. Len(ledger) /\ j \in 1 .. Len(ledger)
    BY <2>3, <1>1, <1>2, <1>3 DEF LedgerInv, UniqueIds
  <2> QED BY <1>1, <1>3, <2>1, <2>2, <2>3
<1>4. UniqueIds'
  BY <1>2, <1>3 DEF UniqueIds
<1> QED BY <1>1, <1>4 DEF LedgerInv

LEMMA RecordKeepsHistory ==
    ASSUME LedgerInv, NEW c \in Checkpoints, ~Known(c.id), ledger' = Append(ledger, c),
           NEW w, w.from \in Nat, w.from <= Len(ledger)
    PROVE  Expected(w)' = Expected(w)
<1> DEFINE from == w.from
<1>0. from \in Nat /\ from <= Len(ledger)
  OBVIOUS
<1> HIDE DEF from
<1>1. /\ LedgerInv' /\ Len(ledger') = Len(ledger) + 1
      /\ \A i \in 1 .. Len(ledger) : ledger'[i] = ledger[i]
  BY RecordKeepsRows
<1>2. /\ Len(ledger) \in Nat /\ DOMAIN ledger = 1 .. Len(ledger)
      /\ DOMAIN ledger' = 1 .. Len(ledger')
  BY <1>1, LenProperties DEF LedgerInv
<1>3. \A i \in 1 .. from : i \in DOMAIN ledger /\ i \in DOMAIN ledger' /\ ledger'[i] = ledger[i]
  BY <1>0, <1>1, <1>2
<1>4. ASSUME NEW id, NEW i \in 1 .. from, ledger[i].id = id
      PROVE  Rowid(id) = i /\ Rowid(id)' = i
  <2>1. Rowid(id) = i
    BY <1>3, <1>4, RowidOfRow
  <2>2. Rowid(id)' = i
    BY <1>1, <1>3, <1>4 DEF LedgerInv, UniqueIds, Rowid
  <2> QED BY <2>1, <2>2
<1>5. RowsOf(w)' = RowsOf(w)
  <2>1. ASSUME w.first # None, \E k \in 1 .. from : ledger[k].id = w.first
        PROVE  Rowid(w.first)' = Rowid(w.first)
    <3>1. PICK k \in 1 .. from : ledger[k].id = w.first
      BY <2>1
    <3> QED BY <3>1, <1>4
  <2>2. ASSUME NEW i \in 1 .. from PROVE i \in RowsOf(w)' <=> i \in RowsOf(w)
    BY <1>3, <2>1 DEF RowsOf, from
  <2>3. RowsOf(w) \in SUBSET (1 .. from) /\ RowsOf(w)' \in SUBSET (1 .. from)
    BY DEF RowsOf, from
  <2> QED BY <2>2, <2>3
<1> DEFINE R == RowsOf(w)
<1>6. R \in SUBSET (1 .. from) /\ Expected(w) = IdsOf(R) /\ Expected(w)' = IdsOf(R)' /\ R' = R
  BY <1>5 DEF Expected, RowsOf, from
<1> HIDE DEF R
<1>7. \A k \in 1 .. Cardinality(R) : NewestFirst(R)[k] \in 1 .. from
  BY <1>0, <1>6, IdsOfRows
<1>8. IdsOf(R)' = IdsOf(R)
  BY <1>3, <1>6, <1>7 DEF IdsOf
<1> QED BY <1>6, <1>8

LEMMA InitWalk == Init => WalkInv
<1> SUFFICES ASSUME Init PROVE WalkInv
  OBVIOUS
<1>1. LedgerInv
  <2>1. CASE ledger = <<>>
    BY <2>1, EmptySeq DEF LedgerInv, UniqueIds
  <2>2. CASE ledger \in {l \in [1 .. Cardinality(OldRows) -> Checkpoints] :
                           \A k \in DOMAIN l : l[k].id = SetToSeq(OldRows)[k]}
    <3> DEFINE n == Cardinality(OldRows)
               ids == SetToSeq(OldRows)
    <3>1. PICK f : n \in Nat /\ f \in Bijection(1 .. n, OldRows)
      BY OldRowsAssumption, FS_CardinalityType DEF ExistsBijection
    <3>2. f \in [1 .. n -> OldRows] /\ IsInjective(f)
      BY <3>1 DEF Bijection, Injection
    <3>3. ids \in [1 .. n -> OldRows] /\ IsInjective(ids)
      BY <3>2 DEF SetToSeq
    <3> HIDE DEF n, ids
    <3>4. /\ ledger \in [1 .. n -> Checkpoints]
          /\ \A k \in 1 .. n : ledger[k].id = ids[k]
      BY <2>2 DEF n, ids
    <3>5. ledger \in Seq(Checkpoints)
      BY <3>1, <3>4
    <3>6. \A i, j \in 1 .. n : ids[i] = ids[j] => i = j
      BY <3>3 DEF IsInjective
    <3>7. UniqueIds
      BY <3>4, <3>6 DEF UniqueIds
    <3> QED BY <3>5, <3>7 DEF LedgerInv
  <2> QED BY <2>1, <2>2 DEF Init
<1>2. \A r \in Readers : walk[r] = Idle
  BY DEF Init
<1> QED BY <1>1, <1>2 DEF WalkInv

\* What a walk has read depends on the ledger only by its history.
LEMMA WalkedKept ==
    ASSUME NEW w, Walked(w), Expected(w)' = Expected(w), Len(ledger) <= Len(ledger)',
           Len(ledger) \in Nat, Len(ledger)' \in Nat
    PROVE  Walked(w)'
<1>1. w.from \in Nat
  BY DEF Walked, Walks
<1>2. w.from <= Len(ledger)'
  BY <1>1 DEF Walked
<1> QED BY <1>2 DEF Walked, IsAt, Full, Seen

LEMMA WalkedUnread ==
    ASSUME LedgerInv, ledger' = ledger, NEW w, Walked(w) PROVE Walked(w)'
<1>1. \A id : Rowid(id)' = Rowid(id)
  BY DEF Rowid
<1>2. RowsOf(w)' = RowsOf(w)
  BY <1>1 DEF RowsOf
<1>3. Expected(w)' = Expected(w)
  BY <1>2 DEF Expected, IdsOf
<1> QED BY <1>3, WalkedKept DEF LedgerInv

LEMMA StepUnread ==
    ASSUME WalkInv, UNCHANGED pageVars PROVE WalkInv'
<1>1. ledger' = ledger /\ walk' = walk
  BY DEF pageVars
<1>2. LedgerInv /\ LedgerInv'
  BY <1>1 DEF WalkInv, LedgerInv, UniqueIds
<1>3. ASSUME NEW w, Walked(w) PROVE Walked(w)'
  BY <1>1, <1>2, <1>3, WalkedUnread
<1> QED BY <1>1, <1>2, <1>3 DEF WalkInv

LEMMA StepRecord ==
    ASSUME WalkInv, NEW c \in Checkpoints, Record(c) PROVE WalkInv'
<1>1. ledger' = Append(ledger, c) /\ walk' = walk /\ ~Known(c.id) /\ LedgerInv
  BY DEF Record, WalkInv
<1>2. LedgerInv' /\ Len(ledger)' = Len(ledger) + 1 /\ Len(ledger) \in Nat
  BY <1>1, RecordKeepsRows DEF LedgerInv
<1>3. ASSUME NEW w, Walked(w) PROVE Walked(w)'
  <2>1. w.from \in Nat /\ w.from <= Len(ledger)
    BY <1>3 DEF Walked, Walks
  <2>2. Expected(w)' = Expected(w)
    BY <1>1, <2>1, RecordKeepsHistory
  <2> QED BY <1>2, <1>3, <2>2, WalkedKept
<1> QED BY <1>1, <1>2, <1>3 DEF WalkInv

(* A page is read of a walk that begins or goes on. *)
LEMMA StepReadPage ==
    ASSUME WalkInv, OpenIsScoped, NEW r \in Readers, NEW scope \in Scopes,
           NEW before \in Ids \cup {None}, NEW limit \in 1 .. MaxLimit,
           ReadPage(r, scope, before, limit)
    PROVE  WalkInv'
<1> DEFINE w == Begun(r, scope, before)
           page == Page(scope, before, limit)
           v == Gone(w, page, limit)
<1>1. unscoped = {} /\ ledger' = ledger /\ LedgerInv
  BY DEF ReadPage, IsOpen, OpenIsScoped, WalkInv
<1>2. walk' = [walk EXCEPT ![r] = v]
  BY DEF ReadPage, Gone
<1>3. \E n : GoesOn(w, n) /\ Behind(Hits(scope, before), Expected(w), n)
  <2>1. CASE walk[r] = Idle
    <3>1. w = [state |-> "reading", scope |-> scope, first |-> before, cursor |-> before,
               pages |-> <<>>, limits |-> <<>>, from |-> Len(ledger)]
      BY <2>1 DEF Begun
    <3>2. <<>> \in Seq(Seq(Ids)) /\ <<>> \in Seq(1 .. MaxLimit) /\ Len(ledger) \in Nat
      BY <1>1, EmptySeq DEF LedgerInv
    <3> HIDE DEF w
    <3>3. w \in Walks
      BY <3>1, <3>2 DEF Walks
    <3>4. Expected(w) \in Seq(Ids) /\ Behind(Hits(scope, before), Expected(w), 0)
      BY <3>1, <3>3, <1>1, BehindNothing
    <3>5. Seen(w) = <<>>
      BY <3>1 DEF Seen, FlattenSeq
    <3>6. SubSeq(Expected(w), 1, 0) = <<>>
      BY SubSeqEmpty, 0 \in Int, 1 \in Int, 0 < 1
    <3>7. Len(w.limits) = Len(w.pages) /\ Full(w)
      BY <3>1 DEF Full
    <3>8. 0 <= Len(Expected(w))
      BY <3>4
    <3>9. GoesOn(w, 0)
      BY <3>1, <3>2, <3>3, <3>4, <3>5, <3>6, <3>7, <3>8 DEF GoesOn
    <3> QED BY <3>4, <3>9
  <2>2. CASE walk[r] # Idle
    <3>1. w = walk[r] /\ w.state = "reading" /\ scope = w.scope /\ before = w.cursor
      BY <2>2 DEF Begun, ReadPage
    <3>2. Walked(w)
      BY <2>2, <3>1 DEF WalkInv
    <3> HIDE DEF w
    <3>3. PICK n \in 0 .. Len(Expected(w)) : IsAt(w, Expected(w), n)
      BY <3>2 DEF Walked
    <3>4. w \in Walks /\ w.from <= Len(ledger) /\ w.from \in Nat
      BY <3>2 DEF Walked, Walks
    <3>5. /\ n \in 1 .. Len(Expected(w)) /\ n < Len(Expected(w)) /\ before = Expected(w)[n]
          /\ Seen(w) = SubSeq(Expected(w), 1, n)
      BY <3>1, <3>3 DEF IsAt
    <3>6. Behind(Hits(scope, before), Expected(w), n)
      BY <1>1, <3>1, <3>4, <3>5, BehindCursor
    <3>7. RowsOf(w) \in SUBSET (1 .. w.from)
      BY DEF RowsOf
    <3>8. Expected(w) \in Seq(Ids)
      BY <1>1, <3>4, <3>7, IdsOfRows DEF Expected
    <3>9. GoesOn(w, n)
      BY <3>1, <3>2, <3>4, <3>5, <3>8 DEF GoesOn, Walked
    <3> QED BY <3>6, <3>9
  <2> QED BY <2>1, <2>2
<1> HIDE DEF w, page, v
<1>4. PICK n : GoesOn(w, n) /\ Behind(Hits(scope, before), Expected(w), n)
  BY <1>3
<1>5. Advances(page, Expected(w), n, limit)
  <2>1. limit \in Nat \ {0}
    BY LimitAssumption
  <2>2. Expected(w) \in Seq(Ids) /\ n \in Nat /\ n <= Len(Expected(w))
    BY <1>4 DEF GoesOn
  <2> QED BY <1>4, <2>1, <2>2, PageAdvances DEF page
<1>6. Walked(v)
  BY <1>4, <1>5, WalkGoesOn DEF v
<1>7. ASSUME NEW u, Walked(u) PROVE Walked(u)'
  BY <1>1, <1>7, WalkedUnread
<1>8. \A q \in Readers : walk'[q] = Idle \/ Walked(walk'[q])
  BY <1>2, <1>6 DEF WalkInv
<1> QED BY <1>1, <1>7, <1>8 DEF WalkInv, LedgerInv, UniqueIds

LEMMA WalkHolds == Spec => [](MigrationInv /\ WalkInv)
<1>1. Init => WalkInv
  BY InitWalk
<1>2. MigrationInv /\ WalkInv /\ [Next]_vars => WalkInv'
  <2> SUFFICES ASSUME MigrationInv, WalkInv, [Next]_vars PROVE WalkInv'
    OBVIOUS
  <2>1. OpenIsScoped
    BY DEF MigrationInv, Upgraded, OpenIsScoped
  <2>2. CASE UNCHANGED pageVars
    BY <2>2, StepUnread
  <2>3. ASSUME NEW c \in NewCheckpoints, Record(c) PROVE WalkInv'
    <3>1. c \in Checkpoints
      BY DEF NewCheckpoints
    <3> QED BY <2>3, <3>1, StepRecord
  <2>4. ASSUME NEW r \in Readers, NEW scope \in Scopes, NEW before \in Ids \cup {None},
               NEW limit \in 1 .. MaxLimit, ReadPage(r, scope, before, limit)
        PROVE  WalkInv'
    BY <2>1, <2>4, StepReadPage
  <2> QED BY <2>2, <2>3, <2>4 DEF Next, vars
<1> QED BY <1>1, <1>2, MigrationHolds, PTL DEF Spec

(* Following next_cursor of `list` gives every checkpoint of the scope exactly
   once and newest first, for any number of readers, of processes that record
   and upgrade meanwhile, of rows and of page sizes. *)
THEOREM WalksAreExact == Spec => []WalkIsExact
<1>1. MigrationInv /\ WalkInv => WalkIsExact
  <2> SUFFICES ASSUME MigrationInv, WalkInv PROVE WalkIsExact
    OBVIOUS
  <2>1. TypeOK
    BY DEF MigrationInv, WalkInv, LedgerInv, TypeOK, Walked
  <2>2. ASSUME NEW r \in Readers, walk[r] # Idle
        PROVE  IF walk[r].state = "done" THEN Seen(walk[r]) = Expected(walk[r])
               ELSE IsStrictPrefix(Seen(walk[r]), Expected(walk[r]))
    <3> DEFINE w == walk[r]
               E == Expected(w)
    <3>1. Walked(w)
      BY <2>2 DEF WalkInv
    <3> HIDE DEF w
    <3>2. w \in Walks /\ w.state \in {"reading", "done"} /\ w.from \in Nat /\ w.from <= Len(ledger)
      BY <3>1 DEF Walked, Walks
    <3>3. PICK n \in 0 .. Len(E) : IsAt(w, E, n)
      BY <3>1 DEF Walked
    <3>4. RowsOf(w) \in SUBSET (1 .. w.from)
      BY DEF RowsOf
    <3>5. E \in Seq(Ids)
      BY <3>2, <3>4, IdsOfRows DEF Expected, WalkInv
    <3> HIDE DEF E
    <3>6. /\ n \in Nat /\ n <= Len(E) /\ Seen(w) = SubSeq(E, 1, n)
          /\ w.state = "done" => n = Len(E)
          /\ w.state = "reading" => n < Len(E)
      BY <3>3, <3>5 DEF IsAt
    <3>7. /\ SubSeq(E, 1, n) \in Seq(Ids) /\ Len(SubSeq(E, 1, n)) = n
      BY <3>5, <3>6, PrefixProperties
    <3>8. CASE w.state = "done"
      <4>1. Seen(w) = E
        BY <3>5, <3>6, <3>8, SubSeqFull
      <4> QED BY <3>8, <4>1 DEF w, E
    <3>9. CASE w.state = "reading"
      <4>1. Len(Seen(w)) = n /\ Len(Seen(w)) <= Len(E) /\ Seen(w) # E
        BY <3>6, <3>7, <3>9
      <4>2. SubSeq(Seen(w), 1, Len(Seen(w))) = SubSeq(E, 1, Len(Seen(w)))
        BY <3>6, <3>7, <4>1, SubSeqFull
      <4>3. IsStrictPrefix(Seen(w), E)
        BY <4>1, <4>2 DEF IsStrictPrefix, IsPrefix
      <4> QED BY <3>9, <4>3 DEF w, E
    <3> QED BY <3>2, <3>8, <3>9
  <2> QED BY <2>1, <2>2 DEF WalkIsExact, Seen
<1> QED BY <1>1, WalkHolds, PTL

(* Every page but the last is as long as was asked for, and no client is sent
   on to an empty page. *)
THEOREM EveryPageIsFull == Spec => []PagesAreFull
<1>1. WalkInv => PagesAreFull
  BY DEF WalkInv, Walked, Full, PagesAreFull
<1> QED BY <1>1, WalkHolds, PTL

=============================================================================
