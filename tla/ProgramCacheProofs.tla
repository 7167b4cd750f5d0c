-------------------------- MODULE ProgramCacheProofs --------------------------
(***************************************************************************)
(* ProgramPool implements ProgramCache, for any threads, files and limit.  *)
(*                                                                         *)
(* The cache is the set of the pool's programs.  The first part says what  *)
(* each operator that builds a pool does to that set; Distinct makes       *)
(* positions and members of the set one to one.  The second part maps each *)
(* step to a step of the cache or to none, from the inductive invariant of *)
(* ProgramPoolProofs: Exclusive is why nothing else happens while a file   *)
(* is being closed, TodoValid why the loops find programs to replace and   *)
(* to drop.                                                                *)
(***************************************************************************)
EXTENDS ProgramPoolProofs, FiniteSetTheorems, FunctionTheorems

Held(p) == {p.programs[k] : k \in Positions(p)}

Closing == \E t \in Threads : pc[t] = "closing"

--------------------------------------------------------------------------------
(* The set of programs of a pool. *)

LEMMA HeldTyped ==
    ASSUME NEW p, Sound(p)
    PROVE  Held(p) \subseteq Program
<1>1. p.programs \in Seq(Program) BY PoolElim DEF Sound
<1>2. QED BY <1>1, ElementOfSeq DEF Held, Positions

LEMMA HeldRemoved ==
    ASSUME NEW p, Sound(p), NEW k \in Positions(p)
    PROVE  /\ Held(RemoveProgram(p, k)) = Held(p) \ {p.programs[k]}
           /\ RemoveProgram(p, k).open_files = p.open_files \ p.programs[k].sources
<1> DEFINE q == RemoveProgram(p, k)
           ps == p.programs
<1>1. /\ p \in PoolState /\ ps \in Seq(Program) /\ Len(ps) \in Nat
      /\ k \in 1..Len(ps)
  BY PoolElim DEF Sound, Positions
<1>2. /\ q.programs = RemoveAt(ps, k)
      /\ q.open_files = p.open_files \ ps[k].sources
  BY <1>1 DEF RemoveProgram, PoolState
<1>3. Positions(q) = 1..(Len(ps) - 1)
  BY <1>1, <1>2, RemoveAtProperties DEF Positions
<1>4. /\ \A i \in 1..Len(ps) :
            i # k => /\ Shift(i, k) \in 1..(Len(ps) - 1)
                     /\ RemoveAt(ps, k)[Shift(i, k)] = ps[i]
      /\ \A j \in 1..(Len(ps) - 1) :
            \E i \in 1..Len(ps) : i # k /\ j = Shift(i, k)
  BY <1>1, ShiftProperties
<1>5. \A i \in 1..Len(ps) : i # k => ps[i] # ps[k]
  BY <1>1 DEF Sound, Distinct, Positions
<1>6. Positions(p) = 1..Len(ps) BY DEF Positions
<1> HIDE DEF q, ps
<1>7. \A x : x \in Held(q) <=> \E j \in 1..(Len(ps) - 1) : x = RemoveAt(ps, k)[j]
  BY <1>2, <1>3 DEF Held
<1>8. \A x : x \in Held(p) <=> \E i \in 1..Len(ps) : x = ps[i]
  BY <1>6 DEF Held, ps
<1>9. \A x : x \in Held(q) <=> \E i \in 1..Len(ps) : i # k /\ x = ps[i]
  BY <1>4, <1>7
<1>10. Held(q) = Held(p) \ {ps[k]} BY <1>1, <1>5, <1>8, <1>9
<1>11. QED BY <1>2, <1>10 DEF q, ps

LEMMA HeldPushed ==
    ASSUME NEW p, Sound(p), NEW prog \in Program
    PROVE  /\ Held(PushProgram(p, prog)) = Held(p) \cup {prog}
           /\ PushProgram(p, prog).open_files = p.open_files \cup {prog.main}
<1> DEFINE q == PushProgram(p, prog)
           ps == p.programs
<1>1. p \in PoolState /\ ps \in Seq(Program) /\ Len(ps) \in Nat
  BY PoolElim DEF Sound
<1>2. /\ q.programs = Append(ps, prog)
      /\ q.open_files = p.open_files \cup {prog.main}
  BY <1>1 DEF PushProgram, PoolState
<1>3. /\ Len(Append(ps, prog)) = Len(ps) + 1
      /\ \A i \in 1..Len(ps) : Append(ps, prog)[i] = ps[i]
      /\ Append(ps, prog)[Len(ps) + 1] = prog
  BY <1>1, AppendProperties
<1>4. Positions(p) = 1..Len(ps) /\ Positions(q) = 1..(Len(ps) + 1)
  BY <1>2, <1>3 DEF Positions
<1>5. Positions(q) = Positions(p) \cup {Len(ps) + 1} BY <1>1, <1>4
<1>6. Held(q) = Held(p) \cup {prog}
  BY <1>2, <1>3, <1>4, <1>5 DEF Held
<1>7. QED BY <1>2, <1>6

LEMMA HeldReplaced ==
    ASSUME NEW p, Sound(p), NEW k \in Positions(p), NEW prog \in Program
    PROVE  /\ Held(ReplaceProgram(p, k, prog)) = (Held(p) \ {p.programs[k]}) \cup {prog}
           /\ ReplaceProgram(p, k, prog).open_files = p.open_files
<1> DEFINE q == ReplaceProgram(p, k, prog)
           ps == p.programs
<1>1. /\ p \in PoolState /\ ps \in Seq(Program) /\ Len(ps) \in Nat
      /\ k \in 1..Len(ps)
  BY PoolElim DEF Sound, Positions
<1>2. q.programs = [ps EXCEPT ![k] = prog] /\ q.open_files = p.open_files
  BY <1>1 DEF ReplaceProgram, PoolState
<1>3. /\ Len([ps EXCEPT ![k] = prog]) = Len(ps)
      /\ \A i \in 1..Len(ps) : [ps EXCEPT ![k] = prog][i] = IF i = k THEN prog ELSE ps[i]
  BY <1>1, ExceptSeq
<1>4. Positions(p) = 1..Len(ps) /\ Positions(q) = Positions(p)
  BY <1>2, <1>3 DEF Positions
<1>5. \A i \in Positions(p) : i # k => ps[i] # ps[k]
  BY DEF Sound, Distinct
<1>6. Held(q) = (Held(p) \ {ps[k]}) \cup {prog}
  BY <1>1, <1>2, <1>3, <1>4, <1>5 DEF Held
<1>7. QED BY <1>2, <1>6

\* The programs of a pool are as many as its positions.
LEMMA HeldCardinality ==
    ASSUME NEW p, Sound(p)
    PROVE  Cardinality(Held(p)) = Len(p.programs)
<1> DEFINE F == [k \in Positions(p) |-> p.programs[k]]
<1>1. Len(p.programs) \in Nat /\ Positions(p) = 1..Len(p.programs)
  BY PoolElim DEF Sound, Positions
<1>2. F \in [Positions(p) -> Held(p)] BY DEF Held
<1>3. \A i, j \in Positions(p) : F[i] = F[j] => i = j BY DEF Sound, Distinct
<1>4. \A x \in Held(p) : \E k \in Positions(p) : F[k] = x BY DEF Held
<1> HIDE DEF F
<1>5. F \in Bijection(Positions(p), Held(p)) BY <1>2, <1>3, <1>4, Fun_IsBij
<1>6. ExistsBijection(1..Len(p.programs), Held(p)) BY <1>1, <1>5, Fun_ExistsBij
<1>7. QED BY <1>1, <1>6, FS_CountingElements

--------------------------------------------------------------------------------
(* The steps of the cache, with the pool's variables in the place of its own. *)

\* The cardinality that ProgramCache speaks of is the one of FiniteSets.
LEMMA SameCardinality == \A S : Cache!Cardinality(S) = Cardinality(S)
BY DEF Cache!Cardinality, Cardinality

LEMMA FullMapped == Cache!Full <=> Cardinality(Held(pool)) >= MaxPrograms
BY SameCardinality DEF Held, Cache!Full

LEMMA AddMapped ==
    ASSUME NEW p \in Program, p.main \in p.sources,
           \A q \in Held(pool) : p.main \notin q.sources,
           ~Closing, ~Closing',
           IF Cardinality(Held(pool)) >= MaxPrograms
           THEN \E q \in Held(pool) :
                   /\ Held(pool') = (Held(pool) \ {q}) \cup {p}
                   /\ pool'.open_files = (pool.open_files \ q.sources) \cup {p.main}
           ELSE /\ Held(pool') = Held(pool) \cup {p}
                /\ pool'.open_files = pool.open_files \cup {p.main}
    PROVE  Cache!CacheNext
<1>1. Cache!Add(p) BY FullMapped DEF Held, Cache!Add, Cache!Covered
<1>2. p \in Cache!CachedProgram BY DEF Program, Cache!CachedProgram
<1>3. QED BY <1>1, <1>2 DEF Closing, Cache!CacheNext

LEMMA DropMapped ==
    ASSUME NEW p \in Held(pool), ~Closing, ~Closing',
           \/ Cardinality(Held(pool)) >= MaxPrograms
           \/ \E q \in Held(pool) \ {p} : p.main \in q.sources,
           Held(pool') = Held(pool) \ {p},
           pool'.open_files = pool.open_files \ p.sources
    PROVE  Cache!CacheNext
<1>1. Cache!Evict(p) \/ Cache!Subsume(p)
  BY FullMapped DEF Held, Cache!Evict, Cache!Subsume, Cache!Drop
<1>2. QED BY <1>1 DEF Held, Closing, Cache!CacheNext

LEMMA ReplaceMapped ==
    ASSUME NEW p \in Held(pool), NEW q \in Program, q.main = p.main,
           ~Closing, ~Closing',
           Held(pool') = (Held(pool) \ {p}) \cup {q},
           pool'.open_files = pool.open_files
    PROVE  Cache!CacheNext
<1>1. Cache!Replace(p, q) BY DEF Held, Cache!Replace
<1>2. q \in Cache!CachedProgram BY DEF Program, Cache!CachedProgram
<1>3. QED BY <1>1, <1>2 DEF Held, Closing, Cache!CacheNext

LEMMA OpenMapped ==
    ASSUME NEW f \in Files, ~Closing, ~Closing', Held(pool') = Held(pool),
           pool'.open_files = pool.open_files \cup {f}
    PROVE  Cache!CacheNext
BY DEF Held, Closing, Cache!CacheNext, Cache!Open

LEMMA CloseMapped ==
    ASSUME NEW f \in Files, ~Closing, Held(pool') = Held(pool),
           pool'.open_files = pool.open_files \ {f}
    PROVE  Cache!CacheNext
BY DEF Held, Closing, Cache!CacheNext, Cache!Close

LEMMA DropAllMapped ==
    ASSUME ~Closing, ~Closing', Held(pool') = {}, pool'.open_files = {}
    PROVE  Cache!CacheNext
BY DEF Held, Closing, Cache!CacheNext, Cache!DropAll

LEMMA DropClosedMapped ==
    ASSUME NEW p \in Held(pool), Closing, Closing', p.sources \cap pool.open_files = {},
           Held(pool') = Held(pool) \ {p},
           pool'.open_files = pool.open_files \ p.sources
    PROVE  Cache!CacheNext
<1>1. Cache!DropClosed(p) BY DEF Held, Closing, Cache!DropClosed, Cache!Drop
<1>2. QED BY <1>1 DEF Held, Closing, Cache!CacheNext

LEMMA EndCloseMapped ==
    ASSUME Closing, ~Closing', Held(pool') = Held(pool),
           pool'.open_files = pool.open_files
    PROVE  Cache!CacheNext
BY DEF Held, Closing, Cache!CacheNext, Cache!EndClose

--------------------------------------------------------------------------------
(* Every step of the pool is a step of the cache or none. *)

cacheVars == <<Held(pool), pool.open_files, Closing>>

\* While t has the mutex, or nobody has, no other thread closes a file.
LEMMA ClosingAlone ==
    ASSUME IInv, NEW t \in Threads, MayLock(t)
    PROVE  Closing <=> pc[t] = "closing"
BY PoolAssumption DEF IInv, Exclusive, Looping, MayLock, Closing

\* A step of a thread that is not closing, and does not begin to, changes nothing there.
LEMMA ClosingUnchanged ==
    ASSUME IInv, NEW t \in Threads, NEW l, pc[t] # "closing", l # "closing",
           pc' = [pc EXCEPT ![t] = l]
    PROVE  Closing' <=> Closing
BY DEF IInv, ControlType, Closing

\* A step that leaves the programs and the open files alone.
LEMMA StutterMapped ==
    ASSUME pool'.programs = pool.programs, pool'.open_files = pool.open_files,
           Closing' <=> Closing
    PROVE  UNCHANGED cacheVars
<1>1. Held(pool') = Held(pool) BY DEF Held, Positions
<1>2. Closing' = Closing BY DEF Closing
<1>3. QED BY <1>1, <1>2 DEF cacheVars

LEMMA CallMapped ==
    ASSUME IInv, NEW t \in Threads, Call(t)
    PROVE  [Cache!CacheNext]_cacheVars
<1>1. /\ Sound(pool) /\ pool \in PoolState /\ pc \in [Threads -> Labels]
      /\ NoThread \notin Threads
  BY PoolAssumption DEF IInv, PoolsSound, Sound, ControlType
<1>2. CASE \E f \in Files :
             \/ \E c \in Contents : SetUnsavedFileContents(t, f, c)
             \/ RemoveUnsavedFileContents(t, f)
  <2>1. PICK f \in Files : \/ \E c \in Contents : SetUnsavedFileContents(t, f, c)
                           \/ RemoveUnsavedFileContents(t, f)
    BY <1>2
  <2>2. pool'.programs = pool.programs /\ pool'.open_files = pool.open_files
    BY <1>1, <2>1 DEF SetUnsavedFileContents, RemoveUnsavedFileContents, PoolState
  <2>3. pc[t] # "closing" /\ pc' = [pc EXCEPT ![t] = "copy"]
    BY <2>1 DEF SetUnsavedFileContents, RemoveUnsavedFileContents, Idle, Goto
  <2>4. Closing' <=> Closing BY <2>3, ClosingUnchanged
  <2>5. QED BY <2>2, <2>4, StutterMapped
<1>3. CASE \E f \in Files :
             GetProgram(t, f) \/ GetProgramsForFileNew(t, f) \/ ReParsePrograms(t, f)
  <2>1. PICK f \in Files :
           GetProgram(t, f) \/ GetProgramsForFileNew(t, f) \/ ReParsePrograms(t, f)
    BY <1>3
  <2>2. /\ pool' = pool /\ pc[t] # "closing"
        /\ \E l \in {"get", "reparse"} : pc' = [pc EXCEPT ![t] = l]
    BY <2>1 DEF GetProgram, GetProgramsForFileNew, ReParsePrograms, Idle, Goto
  <2>3. Closing' <=> Closing BY <2>2, ClosingUnchanged
  <2>4. QED BY <2>2, <2>3, StutterMapped
<1>4. ASSUME NEW f \in Files, OpenFile(t, f) PROVE Cache!CacheNext
  <2>1. /\ pc[t] # "closing" /\ MayLock(t)
        /\ pc' = [pc EXCEPT ![t] = "copy"]
        /\ pool' = [pool EXCEPT !.open_files = @ \cup {f}]
    BY <1>4 DEF OpenFile, Idle, Goto, MayLock
  <2>2. ~Closing /\ ~Closing' BY <2>1, ClosingAlone, ClosingUnchanged
  <2>3. pool'.programs = pool.programs /\ pool'.open_files = pool.open_files \cup {f}
    BY <1>1, <2>1 DEF PoolState
  <2>4. Held(pool') = Held(pool) BY <2>3 DEF Held, Positions
  <2>5. QED BY <2>2, <2>3, <2>4, OpenMapped
<1>5. ASSUME NEW f \in Files, CloseFile(t, f) PROVE Cache!CacheNext
  <2>1. /\ pc[t] # "closing" /\ MayLock(t)
        /\ pool' = [pool EXCEPT !.open_files = @ \ {f}]
    BY <1>5 DEF CloseFile, Idle, MayLock
  <2>2. ~Closing BY <2>1, ClosingAlone
  <2>3. pool'.programs = pool.programs /\ pool'.open_files = pool.open_files \ {f}
    BY <1>1, <2>1 DEF PoolState
  <2>4. Held(pool') = Held(pool) BY <2>3 DEF Held, Positions
  <2>5. QED BY <2>2, <2>3, <2>4, CloseMapped
<1>6. ASSUME Clean(t) PROVE Cache!CacheNext
  <2>1. /\ pc[t] # "closing" /\ MayLock(t)
        /\ pc' = [pc EXCEPT ![t] = "copy"]
        /\ pool' = [EmptyPool EXCEPT !.unsaved_changes = pool.unsaved_changes]
    BY <1>6 DEF Clean, Idle, Goto, MayLock
  <2>2. ~Closing /\ ~Closing' BY <2>1, ClosingAlone, ClosingUnchanged
  <2>3. pool'.programs = <<>> /\ pool'.open_files = {} BY <2>1 DEF EmptyPool
  <2>4. Held(pool') = {} BY <2>3, EmptySeq DEF Held, Positions
  <2>5. QED BY <2>2, <2>3, <2>4, DropAllMapped
<1>7. QED BY <1>2, <1>3, <1>4, <1>5, <1>6 DEF Call

\* A file that no program has is parsed; when full, the oldest program goes first,
\* and is gone even if the parse fails.
LEMMA GetMapped ==
    ASSUME IInv, NEW t \in Threads, GetParseFails(t) \/ GetCreate(t)
    PROVE  [Cache!CacheNext]_cacheVars
<1>1. /\ Sound(pool) /\ Sound(Evicted) /\ file[t] \in Files
      /\ Len(pool.programs) \in Nat /\ Len(pool.programs) <= MaxPrograms
  BY EvictedSound, PoolElim
     DEF IInv, PoolsSound, Sound, FileKnown, GetParseFails, GetCreate
<1>2. /\ pc[t] = "get" /\ MayLock(t)
      /\ \E l \in {"idle", "subsume"} : pc' = [pc EXCEPT ![t] = l]
  BY DEF GetParseFails, GetCreate, Return, Goto
<1>3. ~Closing /\ ~Closing' BY <1>2, ClosingAlone, ClosingUnchanged
<1>4. Cardinality(Held(pool)) = Len(pool.programs) BY <1>1, HeldCardinality
<1>5. CASE Len(pool.programs) >= MaxPrograms
  <2> DEFINE q == pool.programs[1]
  <2>1. 1 \in Positions(pool) BY <1>1, <1>5, PoolAssumption DEF Positions
  <2>2. q \in Held(pool) BY <2>1 DEF Held
  <2>3. /\ Held(Evicted) = Held(pool) \ {q}
        /\ Evicted.open_files = pool.open_files \ q.sources
    BY <1>1, <1>5, <2>1, HeldRemoved DEF Evicted
  <2> HIDE DEF q
  <2>4. CASE GetParseFails(t)
    <3>1. pool' = Evicted BY <2>4 DEF GetParseFails
    <3>2. QED BY <1>3, <1>4, <1>5, <2>2, <2>3, <3>1, DropMapped
  <2>5. CASE GetCreate(t)
    <3> DEFINE p == Parse(file[t])
    <3>1. pool' = PushProgram(Evicted, p) /\ ~Indexed(pool, file[t])
      BY <2>5 DEF GetCreate
    <3>2. p \in Program /\ p.main = file[t] /\ p.main \in p.sources
      BY <1>1, ParseProgram
    <3> HIDE DEF p
    <3>3. \A x \in Held(pool) : p.main \notin x.sources
      BY <1>1, <3>1, <3>2, IndexedMeansSource DEF Sound, Held
    <3>4. /\ Held(pool') = (Held(pool) \ {q}) \cup {p}
          /\ pool'.open_files = (pool.open_files \ q.sources) \cup {p.main}
      BY <1>1, <2>3, <3>1, <3>2, HeldPushed
    <3>5. QED BY <1>3, <1>4, <1>5, <2>2, <3>2, <3>3, <3>4, AddMapped
  <2>6. QED BY <2>4, <2>5
<1>6. CASE ~(Len(pool.programs) >= MaxPrograms)
  <2>1. Evicted = pool BY <1>6 DEF Evicted
  <2>2. CASE GetParseFails(t)
    <3>1. pool' = pool BY <2>1, <2>2 DEF GetParseFails
    <3>2. QED BY <1>3, <3>1, StutterMapped
  <2>3. CASE GetCreate(t)
    <3> DEFINE p == Parse(file[t])
    <3>1. pool' = PushProgram(pool, p) /\ ~Indexed(pool, file[t])
      BY <2>1, <2>3 DEF GetCreate
    <3>2. p \in Program /\ p.main = file[t] /\ p.main \in p.sources
      BY <1>1, ParseProgram
    <3> HIDE DEF p
    <3>3. \A x \in Held(pool) : p.main \notin x.sources
      BY <1>1, <3>1, <3>2, IndexedMeansSource DEF Sound, Held
    <3>4. /\ Held(pool') = Held(pool) \cup {p}
          /\ pool'.open_files = pool.open_files \cup {p.main}
      BY <1>1, <3>1, <3>2, HeldPushed
    <3>5. ~(Cardinality(Held(pool)) >= MaxPrograms) BY <1>4, <1>6
    <3>6. QED BY <1>3, <3>2, <3>3, <3>4, <3>5, AddMapped
  <2>4. QED BY <2>2, <2>3
<1>7. QED BY <1>5, <1>6

LEMMA SubsumeMapped ==
    ASSUME IInv, NEW t \in Threads, SubsumeOne(t)
    PROVE  Cache!CacheNext
<1>1. Sound(pool) /\ Len(pool.programs) \in Nat
  BY PoolElim DEF IInv, PoolsSound, Sound
<1>2. pc[t] = "subsume" /\ MayLock(t) /\ UNCHANGED pc
  BY DEF SubsumeOne, MayLock, IInv, Exclusive, Looping
<1>3. ~Closing /\ ~Closing' BY <1>2, ClosingAlone DEF Closing
<1>4. PICK k \in Subsumed(pool, file[t]) : pool' = RemoveProgram(pool, k)
  BY DEF SubsumeOne
<1> DEFINE p == pool.programs[k]
           n == Len(pool.programs)
           q == pool.programs[n]
<1>5. k \in 1..(n - 1) /\ p.main \in q.sources BY <1>4 DEF Subsumed
<1>6. k \in Positions(pool) /\ n \in Positions(pool) /\ k # n
  BY <1>1, <1>5 DEF Positions
<1>7. q \in Held(pool) \ {p} BY <1>1, <1>6 DEF Held, Sound, Distinct
<1>8. /\ p \in Held(pool)
      /\ Held(pool') = Held(pool) \ {p}
      /\ pool'.open_files = pool.open_files \ p.sources
  BY <1>1, <1>4, <1>6, HeldRemoved DEF Held
<1> HIDE DEF p, q, n
<1>9. QED BY <1>3, <1>5, <1>7, <1>8, DropMapped

LEMMA ReParseMapped ==
    ASSUME IInv, NEW t \in Threads, ReParseOne(t)
    PROVE  [Cache!CacheNext]_cacheVars
<1>1. Sound(pool) BY DEF IInv, PoolsSound
<1>2. pc[t] = "reparsing" /\ MayLock(t) /\ UNCHANGED pc
  BY DEF ReParseOne, MayLock, IInv, Exclusive, Looping
<1>3. ~Closing /\ ~Closing' BY <1>2, ClosingAlone DEF Closing
<1>4. PICK k \in todo[t] :
         IF Parses(pool.programs[k].main)
         THEN pool' = ReplaceProgram(pool, k, Parse(pool.programs[k].main))
         ELSE UNCHANGED pool
  BY DEF ReParseOne
<1> DEFINE p == pool.programs[k]
           q == Parse(p.main)
<1>5. k \in Positions(pool) BY DEF IInv, TodoValid
<1>6. p \in Held(pool) BY <1>5 DEF Held
<1>7. p.main \in Files BY <1>1, <1>6, HeldTyped DEF Program
<1>8. q \in Program /\ q.main = p.main BY <1>7, ParseProgram
<1>9. CASE Parses(p.main)
  <2>1. pool' = ReplaceProgram(pool, k, q) BY <1>4, <1>9
  <2>2. /\ Held(pool') = (Held(pool) \ {p}) \cup {q}
        /\ pool'.open_files = pool.open_files
    BY <1>1, <1>5, <1>8, <2>1, HeldReplaced
  <2> HIDE DEF p, q
  <2>3. QED BY <1>3, <1>6, <1>8, <2>2, ReplaceMapped
<1>10. CASE ~Parses(p.main)
  BY <1>3, <1>4, <1>10, StutterMapped
<1>11. QED BY <1>9, <1>10

LEMMA CloseOneMapped ==
    ASSUME IInv, NEW t \in Threads, CloseOne(t)
    PROVE  [Cache!CacheNext]_cacheVars
<1>1. Sound(pool) BY DEF IInv, PoolsSound
<1>2. pc[t] = "closing" /\ UNCHANGED pc BY DEF CloseOne
<1>3. Closing /\ Closing' BY <1>2 DEF Closing
<1>4. PICK k \in todo[t] :
         pool' = IF pool.programs[k].sources \cap pool.open_files = {}
                 THEN RemoveProgram(pool, k) ELSE pool
  BY DEF CloseOne
<1> DEFINE p == pool.programs[k]
<1>5. k \in Positions(pool) BY DEF IInv, TodoValid
<1>6. p \in Held(pool) BY <1>5 DEF Held
<1>7. CASE p.sources \cap pool.open_files = {}
  <2>1. /\ Held(pool') = Held(pool) \ {p}
        /\ pool'.open_files = pool.open_files \ p.sources
    BY <1>1, <1>4, <1>5, <1>7, HeldRemoved
  <2> HIDE DEF p
  <2>2. QED BY <1>3, <1>6, <1>7, <2>1, DropClosedMapped
<1>8. CASE p.sources \cap pool.open_files # {}
  BY <1>3, <1>4, <1>8, StutterMapped
<1>9. QED BY <1>7, <1>8

LEMMA StepMapped ==
    ASSUME IInv, NEW t \in Threads, Step(t)
    PROVE  [Cache!CacheNext]_cacheVars
<1>1. Sound(pool) /\ pool \in PoolState
  BY DEF IInv, PoolsSound, Sound
<1>2. CASE GetFound(t) \/ CopyPool(t) \/ InstallSnapshot(t) \/ SubsumeDone(t)
             \/ ReParseDone(t)
  <2>1. /\ pool' = pool /\ pc[t] # "closing"
        /\ \E l \in {"idle", "install", "copy"} : pc' = [pc EXCEPT ![t] = l]
    BY <1>2 DEF GetFound, CopyPool, InstallSnapshot, SubsumeDone, ReParseDone, Return, Goto
  <2>2. Closing' <=> Closing BY <2>1, ClosingUnchanged
  <2>3. QED BY <2>1, <2>2, StutterMapped
<1>3. CASE ReParseBegin(t)
  <2>1. /\ pool' = [pool EXCEPT !.program_indices = WithEntry(@, file[t])]
        /\ pc[t] # "closing" /\ pc' = [pc EXCEPT ![t] = "reparsing"]
    BY <1>3 DEF ReParseBegin, Goto
  <2>2. pool'.programs = pool.programs /\ pool'.open_files = pool.open_files
    BY <1>1, <2>1 DEF PoolState
  <2>3. Closing' <=> Closing BY <2>1, ClosingUnchanged
  <2>4. QED BY <2>2, <2>3, StutterMapped
<1>4. CASE CloseDone(t)
  <2>1. /\ pool' = pool /\ pc[t] = "closing" /\ MayLock(t)
        /\ pc' = [pc EXCEPT ![t] = "copy"]
    BY <1>4 DEF CloseDone, Goto, MayLock, IInv, Exclusive, Looping
  <2>2. \A u \in Threads \ {t} : pc[u] # "closing"
    BY <2>1, PoolAssumption DEF IInv, Exclusive, Looping, MayLock
  <2>3. Closing /\ ~Closing' BY <2>1, <2>2 DEF Closing, IInv, ControlType
  <2>4. QED BY <2>1, <2>3, EndCloseMapped
<1>5. QED
  BY <1>2, <1>3, <1>4, GetMapped, SubsumeMapped, ReParseMapped, CloseOneMapped
     DEF Step

LEMMA NextMapped ==
    ASSUME IInv, [Next]_vars
    PROVE  [Cache!CacheNext]_cacheVars
<1>1. CASE \E f \in Files, c \in Contents : WriteDisk(f, c)
  <2>1. UNCHANGED <<pool, pc>> BY <1>1 DEF WriteDisk
  <2>2. Closing' <=> Closing BY <2>1 DEF Closing
  <2>3. QED BY <2>1, <2>2, StutterMapped
<1>2. CASE UNCHANGED vars
  <2>1. UNCHANGED <<pool, pc>> BY <1>2 DEF vars
  <2>2. Closing' <=> Closing BY <2>1 DEF Closing
  <2>3. QED BY <2>1, <2>2, StutterMapped
<1>3. QED BY <1>1, <1>2, CallMapped, StepMapped DEF Next

\* Whatever the threads do, the pool is a bounded cache: a program is parsed only for a
\* file that none has, and goes only because the cache is full, another program covers
\* its main file, or all of its files were closed (ProgramPool.h).
THEOREM PoolImplementsCache == Spec => ImplementsCache
<1>1. Init => Cache!CacheInit
  <2> SUFFICES ASSUME Init PROVE Cache!CacheInit OBVIOUS
  <2>1. pool.programs = <<>> /\ pool.open_files = {} BY DEF Init, EmptyPool
  <2>2. Positions(pool) = {} BY <2>1, EmptySeq DEF Positions
  <2>3. \A t \in Threads : pc[t] # "closing" BY DEF Init
  <2>4. QED BY <2>1, <2>2, <2>3 DEF Cache!CacheInit
<1>2. IInv /\ [Next]_vars =>
         [Cache!CacheNext]_<<{pool.programs[k] : k \in Positions(pool)}, pool.open_files,
                             \E t \in Threads : pc[t] = "closing">>
  BY NextMapped DEF cacheVars, Held, Closing
<1>3. QED BY Inductive, <1>1, <1>2, PTL DEF Spec, ImplementsCache, Cache!CacheSpec
===============================================================================
