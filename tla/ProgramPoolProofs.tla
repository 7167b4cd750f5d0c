--------------------------- MODULE ProgramPoolProofs ---------------------------
(***************************************************************************)
(* Proofs about ProgramPool, for any threads, files, contents and limit.   *)
(*                                                                         *)
(* The argument: a pool value is Sound when its containers are well typed  *)
(* and agree with each other.  Every operator that the actions build a     *)
(* pool with keeps it Sound (first part).  The inductive invariant IInv    *)
(* says that the pool, the snapshot and every copy in flight are Sound,    *)
(* that a thread inside a loop over positions owns pool_mutex, and that    *)
(* the positions it has left are still those of programs with its file     *)
(* (second part): that is why no other thread can renumber them.           *)
(***************************************************************************)
EXTENDS ProgramPool, TLAPS, SequenceTheorems

Distinct(p) ==
    \A i, j \in Positions(p) : p.programs[i].main = p.programs[j].main => i = j

MainIsSource(p) == \A k \in Positions(p) : p.programs[k].main \in p.programs[k].sources

Sound(p) ==
    /\ p \in PoolState
    /\ IndexExact(p)
    /\ Len(p.programs) <= MaxPrograms
    /\ Distinct(p)
    /\ MainIsSource(p)

Index == UNION {[D -> SUBSET (1..MaxPrograms)] : D \in SUBSET Files}

Changes == UNION {[D -> Contents] : D \in SUBSET Files}

--------------------------------------------------------------------------------
(* The values of a pool. *)

\* A partial function is a function on some subset of the files.
LEMMA IndexIntro ==
    ASSUME NEW ix, ix = [f \in DOMAIN ix |-> ix[f]], DOMAIN ix \subseteq Files,
           \A f \in DOMAIN ix : ix[f] \subseteq 1..MaxPrograms
    PROVE  ix \in Index
<1>1. ix \in [DOMAIN ix -> SUBSET (1..MaxPrograms)] OBVIOUS
<1>2. QED BY <1>1 DEF Index

LEMMA IndexElim ==
    ASSUME NEW ix \in Index
    PROVE  /\ ix = [f \in DOMAIN ix |-> ix[f]]
           /\ DOMAIN ix \subseteq Files
           /\ \A f \in DOMAIN ix : ix[f] \subseteq 1..MaxPrograms
<1>1. PICK D \in SUBSET Files : ix \in [D -> SUBSET (1..MaxPrograms)]
  BY DEF Index
<1>2. QED BY <1>1

\* The fields of a pool, and back.
LEMMA PoolElim ==
    ASSUME NEW p \in PoolState
    PROVE  /\ p = [programs |-> p.programs, program_indices |-> p.program_indices,
                   open_files |-> p.open_files, unsaved_changes |-> p.unsaved_changes]
           /\ p.programs \in Seq(Program)
           /\ Len(p.programs) \in Nat
           /\ p.program_indices \in Index
           /\ p.open_files \in SUBSET Files
           /\ p.unsaved_changes \in Changes
BY DEF PoolState, Index, Changes

LEMMA PoolIntro ==
    ASSUME NEW ps \in Seq(Program), NEW ix \in Index,
           NEW o \in SUBSET Files, NEW u \in Changes
    PROVE  [programs |-> ps, program_indices |-> ix,
            open_files |-> o, unsaved_changes |-> u] \in PoolState
BY DEF PoolState, Index, Changes

LEMMA PoolExcept ==
    ASSUME NEW p \in PoolState, NEW ps, NEW ix, NEW o
    PROVE  [p EXCEPT !.programs = ps, !.program_indices = ix, !.open_files = o] =
              [programs |-> ps, program_indices |-> ix,
               open_files |-> o, unsaved_changes |-> p.unsaved_changes]
<1> DEFINE u == p.unsaved_changes
<1>1. [p EXCEPT !.programs = ps] =
         [programs |-> ps, program_indices |-> p.program_indices,
          open_files |-> p.open_files, unsaved_changes |-> u]
  BY DEF PoolState
<1>2. [p EXCEPT !.programs = ps, !.program_indices = ix, !.open_files = o] =
         [[[p EXCEPT !.programs = ps] EXCEPT !.program_indices = ix]
             EXCEPT !.open_files = o]
  BY DEF PoolState
<1> HIDE DEF u
<1>3. \A v, w : [[programs |-> ps, program_indices |-> v,
                open_files |-> w, unsaved_changes |-> u] EXCEPT !.program_indices = ix] =
         [programs |-> ps, program_indices |-> ix,
          open_files |-> w, unsaved_changes |-> u]
  OBVIOUS
<1>4. \A w : [[programs |-> ps, program_indices |-> ix,
              open_files |-> w, unsaved_changes |-> u] EXCEPT !.open_files = o] =
         [programs |-> ps, program_indices |-> ix,
          open_files |-> o, unsaved_changes |-> u]
  OBVIOUS
<1>5. QED BY <1>1, <1>2, <1>3, <1>4, Zenon DEF u

\* Erasing position k of a vector moves the later elements down by one.
LEMMA RemoveAtProperties ==
    ASSUME NEW S, NEW s \in Seq(S), NEW k \in 1..Len(s)
    PROVE  /\ RemoveAt(s, k) \in Seq(S)
           /\ Len(RemoveAt(s, k)) = Len(s) - 1
           /\ \A i \in 1..(Len(s) - 1) :
                 RemoveAt(s, k)[i] = IF i < k THEN s[i] ELSE s[i + 1]
<1> DEFINE a == SubSeq(s, 1, k - 1)
           b == SubSeq(s, k + 1, Len(s))
<1>1. /\ a \in Seq(S)
      /\ Len(a) = k - 1
      /\ \A i \in 1..(k - 1) : a[i] = s[i]
  <2>1. \A i \in 1..(k - 1) : s[i] \in S BY ElementOfSeq
  <2>2. QED BY <2>1, SubSeqProperties
<1>2. /\ b \in Seq(S)
      /\ Len(b) = Len(s) - k
      /\ \A i \in 1..(Len(s) - k) : b[i] = s[k + i]
  <2>1. \A i \in (k + 1)..Len(s) : s[i] \in S BY ElementOfSeq
  <2>2. QED BY <2>1, SubSeqProperties
<1>3. RemoveAt(s, k) = a \o b BY DEF RemoveAt
<1> HIDE DEF a, b
<1>4. Len(s) \in Nat BY LenProperties
<1>5. /\ a \o b \in Seq(S)
      /\ Len(a \o b) = Len(a) + Len(b)
      /\ \A i \in 1..(Len(a) + Len(b)) :
            (a \o b)[i] = IF i <= Len(a) THEN a[i] ELSE b[i - Len(a)]
  BY <1>1, <1>2, ConcatProperties
<1>6. Len(a) + Len(b) = Len(s) - 1 BY <1>1, <1>2, <1>4
<1>7. ASSUME NEW i \in 1..(Len(s) - 1)
      PROVE  (a \o b)[i] = IF i < k THEN s[i] ELSE s[i + 1]
  <2>1. CASE i < k
    <3>1. i <= Len(a) /\ i \in 1..(k - 1) BY <2>1, <1>1, <1>4
    <3>2. QED BY <3>1, <2>1, <1>1, <1>5, <1>6
  <2>2. CASE ~(i < k)
    <3>1. /\ ~(i <= Len(a))
          /\ i - (k - 1) \in 1..(Len(s) - k)
          /\ k + (i - (k - 1)) = i + 1
      BY <2>2, <1>1, <1>4
    <3>2. (a \o b)[i] = b[i - (k - 1)] BY <3>1, <1>1, <1>5, <1>6
    <3>3. b[i - (k - 1)] = s[i + 1] BY <3>1, <1>2
    <3>4. QED BY <3>2, <3>3, <2>2
  <2>3. QED BY <2>1, <2>2
<1>8. QED BY <1>3, <1>5, <1>6, <1>7

\* Shift says where an element went, and every element left came from somewhere.
LEMMA ShiftProperties ==
    ASSUME NEW S, NEW s \in Seq(S), NEW k \in 1..Len(s)
    PROVE  /\ \A i \in 1..Len(s) :
                 i # k => /\ Shift(i, k) \in 1..(Len(s) - 1)
                          /\ RemoveAt(s, k)[Shift(i, k)] = s[i]
           /\ \A j \in 1..(Len(s) - 1) :
                 \E i \in 1..Len(s) : i # k /\ j = Shift(i, k)
<1>1. Len(s) \in Nat BY LenProperties
<1>2. ASSUME NEW i \in 1..Len(s), i # k
      PROVE  /\ Shift(i, k) \in 1..(Len(s) - 1)
             /\ RemoveAt(s, k)[Shift(i, k)] = s[i]
  <2>1. CASE i < k
    <3>1. Shift(i, k) = i /\ i \in 1..(Len(s) - 1) BY <1>1, <2>1 DEF Shift
    <3>2. QED BY <3>1, <2>1, RemoveAtProperties
  <2>2. CASE i > k
    <3>1. /\ Shift(i, k) = i - 1
          /\ i - 1 \in 1..(Len(s) - 1)
          /\ ~(i - 1 < k)
          /\ (i - 1) + 1 = i
      BY <1>1, <2>2 DEF Shift
    <3>2. QED BY <3>1, RemoveAtProperties
  <2>3. QED BY <1>2, <2>1, <2>2
<1>3. ASSUME NEW j \in 1..(Len(s) - 1)
      PROVE  \E i \in 1..Len(s) : i # k /\ j = Shift(i, k)
  <2>1. CASE j < k BY <1>1, <2>1 DEF Shift
  <2>2. CASE ~(j < k)
    <3>1. j + 1 \in 1..Len(s) /\ j + 1 # k /\ j = Shift(j + 1, k)
      BY <1>1, <2>2 DEF Shift
    <3>2. QED BY <3>1
  <2>3. QED BY <2>1, <2>2
<1>4. QED BY <1>2, <1>3

\* Erasing the empty entries of an index removes nothing else.
LEMMA NonEmptyProperties ==
    ASSUME NEW ix
    PROVE  /\ DOMAIN NonEmptyEntries(ix) = {f \in DOMAIN ix : ix[f] # {}}
           /\ \A f \in DOMAIN NonEmptyEntries(ix) : NonEmptyEntries(ix)[f] = ix[f]
           /\ NonEmptyEntries(ix) =
                 [f \in DOMAIN NonEmptyEntries(ix) |-> NonEmptyEntries(ix)[f]]
BY DEF NonEmptyEntries

LEMMA MapSourcesProperties ==
    ASSUME NEW ix, NEW sources, NEW k
    PROVE  /\ DOMAIN MapSources(ix, sources, k) = DOMAIN ix \cup sources
           /\ \A f \in DOMAIN MapSources(ix, sources, k) :
                 \A j : j \in MapSources(ix, sources, k)[f] <=>
                           \/ f \in DOMAIN ix /\ j \in ix[f]
                           \/ f \in sources /\ j = k
           /\ MapSources(ix, sources, k) =
                 [f \in DOMAIN MapSources(ix, sources, k) |->
                    MapSources(ix, sources, k)[f]]
BY DEF MapSources

\* An exact index covers a file exactly when some program has the file.
LEMMA IndexedMeansSource ==
    ASSUME NEW p, IndexExact(p), NEW f
    PROVE  Indexed(p, f) <=> \E k \in Positions(p) : f \in p.programs[k].sources
BY DEF IndexExact, Indexed

--------------------------------------------------------------------------------
(* Every way the actions build a pool keeps it Sound. *)

LEMMA EmptySound == Sound(EmptyPool)
<1>1. <<>> \in Seq(Program) /\ Len(<<>>) = 0 BY EmptySeq
<1>2. <<>> \in Index
  <2>1. <<>> \in [{} -> SUBSET (1..MaxPrograms)] OBVIOUS
  <2>2. QED BY <2>1 DEF Index
<1>3. <<>> \in Changes
  <2>1. <<>> \in [{} -> Contents] OBVIOUS
  <2>2. QED BY <2>1 DEF Changes
<1>4. EmptyPool \in PoolState BY <1>1, <1>2, <1>3, PoolIntro DEF EmptyPool
<1>5. Positions(EmptyPool) = {} BY <1>1 DEF EmptyPool, Positions
<1>6. DOMAIN EmptyPool.program_indices = {} BY DEF EmptyPool
<1>7. Len(EmptyPool.programs) <= MaxPrograms
  BY <1>1, PoolAssumption DEF EmptyPool
<1>8. QED
  BY <1>4, <1>5, <1>6, <1>7 DEF Sound, IndexExact, Distinct, MainIsSource

\* Soundness does not depend on which files are open or changed.
LEMMA SoundElsewhere ==
    ASSUME NEW p, Sound(p), NEW o \in SUBSET Files, NEW u \in Changes
    PROVE  Sound([programs |-> p.programs, program_indices |-> p.program_indices,
                  open_files |-> o, unsaved_changes |-> u])
<1> DEFINE q == [programs |-> p.programs, program_indices |-> p.program_indices,
                 open_files |-> o, unsaved_changes |-> u]
<1>1. q \in PoolState BY PoolElim, PoolIntro DEF Sound
<1>2. q.programs = p.programs /\ q.program_indices = p.program_indices OBVIOUS
<1> HIDE DEF q
<1>3. Sound(q)
  BY <1>1, <1>2 DEF Sound, IndexExact, Distinct, MainIsSource, Positions
<1>4. QED BY <1>3 DEF q

LEMMA RemoveSound ==
    ASSUME NEW p, Sound(p), NEW k \in Positions(p)
    PROVE  /\ Sound(RemoveProgram(p, k))
           /\ Len(RemoveProgram(p, k).programs) = Len(p.programs) - 1
<1> DEFINE q  == RemoveProgram(p, k)
           ps == p.programs
           ix == p.program_indices
           moved == [f \in DOMAIN ix |-> {Shift(i, k) : i \in ix[f] \ {k}}]
           o  == p.open_files \ ps[k].sources
<1>1. /\ p \in PoolState /\ ps \in Seq(Program) /\ Len(ps) \in Nat
      /\ k \in 1..Len(ps) /\ Len(ps) <= MaxPrograms
  BY PoolElim DEF Sound, Positions
<1>2. q = [programs |-> RemoveAt(ps, k), program_indices |-> NonEmptyEntries(moved),
           open_files |-> o, unsaved_changes |-> p.unsaved_changes]
  <2>1. q = [p EXCEPT !.programs = RemoveAt(ps, k),
                      !.program_indices = NonEmptyEntries(moved),
                      !.open_files = o]
    BY DEF RemoveProgram
  <2>2. QED BY <1>1, <2>1, PoolExcept
<1>3. /\ q.programs = RemoveAt(ps, k)
      /\ q.program_indices = NonEmptyEntries(moved)
  BY <1>2
<1>4. /\ RemoveAt(ps, k) \in Seq(Program)
      /\ Len(RemoveAt(ps, k)) = Len(ps) - 1
  BY <1>1, RemoveAtProperties
<1>5. Positions(q) = 1..(Len(ps) - 1) BY <1>3, <1>4 DEF Positions
<1>6. \A f \in DOMAIN ix : ix[f] = {i \in 1..Len(ps) : f \in ps[i].sources}
  BY DEF Sound, IndexExact, Positions
<1>7. /\ \A i \in 1..Len(ps) :
            i # k => /\ Shift(i, k) \in 1..(Len(ps) - 1)
                     /\ RemoveAt(ps, k)[Shift(i, k)] = ps[i]
      /\ \A j \in 1..(Len(ps) - 1) :
            \E i \in 1..Len(ps) : i # k /\ j = Shift(i, k)
  BY <1>1, ShiftProperties
\* The programs after the removal are those before it, moved by Shift.
<1>8. \A f \in DOMAIN ix :
         moved[f] = {j \in 1..(Len(ps) - 1) : f \in RemoveAt(ps, k)[j].sources}
  <2> SUFFICES ASSUME NEW f \in DOMAIN ix, NEW j
               PROVE  j \in moved[f] <=>
                         j \in 1..(Len(ps) - 1) /\ f \in RemoveAt(ps, k)[j].sources
    OBVIOUS
  <2>1. j \in moved[f] <=>
           \E i \in 1..Len(ps) : i # k /\ f \in ps[i].sources /\ j = Shift(i, k)
    BY <1>6
  <2> HIDE DEF ps, ix, moved
  <2>2. QED BY <2>1, <1>7
<1>9. DOMAIN moved = DOMAIN ix OBVIOUS
<1>10. DOMAIN ix \subseteq Files BY <1>1, PoolElim, IndexElim
<1> HIDE DEF moved, q
<1>11. /\ DOMAIN NonEmptyEntries(moved) = {f \in DOMAIN moved : moved[f] # {}}
       /\ \A f \in DOMAIN NonEmptyEntries(moved) :
             NonEmptyEntries(moved)[f] = moved[f]
  BY NonEmptyProperties
<1>12. NonEmptyEntries(moved) \in Index
  <2>1. \A f \in DOMAIN ix : moved[f] \subseteq 1..MaxPrograms
    BY <1>1, <1>8, PoolAssumption
  <2>2. NonEmptyEntries(moved) =
           [f \in DOMAIN NonEmptyEntries(moved) |-> NonEmptyEntries(moved)[f]]
    BY NonEmptyProperties
  <2>3. QED BY <2>1, <2>2, <1>9, <1>10, <1>11, IndexIntro
<1>13. q \in PoolState BY <1>1, <1>2, <1>4, <1>12, PoolElim, PoolIntro
\* Every program left was one of p's, at the position Shift moved it from.
<1>14. \A j \in Positions(q) : \E i \in 1..Len(ps) :
          q.programs[j] = ps[i] /\ i # k /\ j = Shift(i, k)
  <2> HIDE DEF ps
  <2>1. QED BY <1>3, <1>5, <1>7
<1>15. IndexExact(q)
  <2>1. ASSUME NEW f \in DOMAIN q.program_indices
        PROVE  q.program_indices[f] = {j \in Positions(q) : f \in q.programs[j].sources}
    <3>1. f \in DOMAIN ix /\ q.program_indices[f] = moved[f]
      BY <1>3, <1>9, <1>11
    <3> HIDE DEF ps, ix
    <3>2. QED BY <3>1, <1>3, <1>5, <1>8
  <2>2. ASSUME NEW j \in Positions(q), NEW f \in q.programs[j].sources
        PROVE  f \in DOMAIN q.program_indices
    <3>1. f \in DOMAIN ix BY <1>14, <2>2 DEF Sound, IndexExact, Positions
    <3> HIDE DEF ps, ix
    <3>2. j \in moved[f] BY <3>1, <2>2, <1>3, <1>5, <1>8
    <3>3. QED BY <3>1, <3>2, <1>3, <1>9, <1>11
  <2>3. QED BY <2>1, <2>2 DEF IndexExact
<1>16. Distinct(q)
  <2> SUFFICES ASSUME NEW i \in Positions(q), NEW j \in Positions(q),
                      q.programs[i].main = q.programs[j].main
               PROVE  i = j
    BY DEF Distinct
  <2>1. PICK a \in 1..Len(ps) : q.programs[i] = ps[a] /\ i = Shift(a, k)
    BY <1>14
  <2>2. PICK b \in 1..Len(ps) : q.programs[j] = ps[b] /\ j = Shift(b, k)
    BY <1>14
  <2>3. a = b BY <2>1, <2>2 DEF Sound, Distinct, Positions
  <2>4. QED BY <2>1, <2>2, <2>3
<1>17. MainIsSource(q) BY <1>14 DEF Sound, MainIsSource, Positions
<1>18. Len(q.programs) = Len(ps) - 1 BY <1>3, <1>4
<1>19. Len(q.programs) <= MaxPrograms BY <1>1, <1>18, PoolAssumption
<1>20. QED BY <1>13, <1>15, <1>16, <1>17, <1>18, <1>19 DEF Sound, q

LEMMA PushSound ==
    ASSUME NEW p, Sound(p), Len(p.programs) < MaxPrograms,
           NEW prog \in Program, prog.main \in prog.sources,
           ~Indexed(p, prog.main)
    PROVE  /\ Sound(PushProgram(p, prog))
           /\ Len(PushProgram(p, prog).programs) = Len(p.programs) + 1
<1> DEFINE q  == PushProgram(p, prog)
           ps == p.programs
           n  == Len(ps) + 1
           ix == p.program_indices
           mapped == MapSources(ix, prog.sources, n)
           o  == p.open_files \cup {prog.main}
<1>1. /\ p \in PoolState /\ ps \in Seq(Program) /\ Len(ps) \in Nat
      /\ n \in 1..MaxPrograms
  BY PoolElim, PoolAssumption DEF Sound
<1>2. /\ prog.main \in Files /\ prog.sources \subseteq Files BY DEF Program
<1>3. q = [programs |-> Append(ps, prog), program_indices |-> mapped,
           open_files |-> o, unsaved_changes |-> p.unsaved_changes]
  <2>1. q = [p EXCEPT !.programs = Append(ps, prog),
                      !.program_indices = mapped, !.open_files = o]
    BY DEF PushProgram
  <2>2. QED BY <1>1, <2>1, PoolExcept
<1>4. /\ Append(ps, prog) \in Seq(Program)
      /\ Len(Append(ps, prog)) = n
      /\ \A k \in 1..Len(ps) : Append(ps, prog)[k] = ps[k]
      /\ Append(ps, prog)[n] = prog
  BY <1>1
<1>5. /\ \A f \in DOMAIN ix : ix[f] = {i \in 1..Len(ps) : f \in ps[i].sources}
      /\ \A k \in 1..Len(ps) : ps[k].sources \subseteq DOMAIN ix
      /\ \A k \in 1..Len(ps) : ps[k].main \in ps[k].sources
      /\ \A i, j \in 1..Len(ps) : ps[i].main = ps[j].main => i = j
  BY DEF Sound, IndexExact, Distinct, MainIsSource, Positions
<1>6. \A k \in 1..Len(ps) : prog.main \notin ps[k].sources
  BY IndexedMeansSource DEF Sound, Positions
<1>7. DOMAIN ix \subseteq Files BY <1>1, PoolElim, IndexElim
<1>8. /\ DOMAIN mapped = DOMAIN ix \cup prog.sources
      /\ \A f \in DOMAIN mapped : \A j : j \in mapped[f] <=>
            \/ f \in DOMAIN ix /\ j \in ix[f]
            \/ f \in prog.sources /\ j = n
  <2> HIDE DEF n, ix, ps, q, o
  <2>1. QED BY DEF MapSources
<1>9. q.programs = Append(ps, prog) /\ q.program_indices = mapped BY <1>3
<1>10. 1..n = 1..Len(ps) \cup {n} /\ n \notin 1..Len(ps) BY <1>1
<1>11. Positions(q) = 1..n BY <1>4, <1>9 DEF Positions
<1> HIDE DEF q, mapped, ps, ix, n
<1>12. \A f \in DOMAIN mapped :
          mapped[f] = {i \in 1..n : f \in Append(ps, prog)[i].sources}
  <2> SUFFICES ASSUME NEW f \in DOMAIN mapped, NEW j
               PROVE  j \in mapped[f] <=>
                         j \in 1..n /\ f \in Append(ps, prog)[j].sources
    OBVIOUS
  <2>1. QED BY <1>4, <1>5, <1>8, <1>10
<1>13. mapped \in Index
  <2>1. \A f \in DOMAIN mapped : f \in Files /\ mapped[f] \subseteq 1..MaxPrograms
    BY <1>1, <1>2, <1>7, <1>8, <1>12, PoolAssumption DEF n
  <2>2. mapped = [f \in DOMAIN mapped |-> mapped[f]]
    BY MapSourcesProperties, Zenon DEF mapped
  <2>3. QED BY <2>1, <2>2, <1>8, IndexIntro
<1>14. q \in PoolState
  <2>1. o \in SUBSET Files BY <1>1, <1>2, PoolElim
  <2>2. QED BY <2>1, <1>1, <1>3, <1>4, <1>13, PoolElim, PoolIntro
<1>15. IndexExact(q)
  <2>1. \A k \in 1..n : Append(ps, prog)[k].sources \subseteq DOMAIN mapped
    BY <1>4, <1>5, <1>8, <1>10
  <2>2. QED BY <2>1, <1>9, <1>11, <1>12 DEF IndexExact
<1>16. MainIsSource(q) BY <1>4, <1>5, <1>9, <1>10, <1>11 DEF MainIsSource
<1>17. Distinct(q)
  <2>1. \A i \in 1..Len(ps) : ps[i].main # prog.main BY <1>5, <1>6
  <2>2. QED BY <2>1, <1>4, <1>5, <1>9, <1>10, <1>11 DEF Distinct
<1>18. Len(q.programs) = n /\ n <= MaxPrograms BY <1>1, <1>4, <1>9
<1>19. QED BY <1>14, <1>15, <1>16, <1>17, <1>18 DEF Sound, q, n, ps

LEMMA ReplaceSound ==
    ASSUME NEW p, Sound(p), NEW k \in Positions(p),
           NEW prog \in Program, prog.main \in prog.sources,
           prog.main = p.programs[k].main
    PROVE  /\ Sound(ReplaceProgram(p, k, prog))
           /\ Positions(ReplaceProgram(p, k, prog)) = Positions(p)
           /\ \A i \in Positions(p) \ {k} :
                 ReplaceProgram(p, k, prog).programs[i] = p.programs[i]
<1> DEFINE q  == ReplaceProgram(p, k, prog)
           ps == p.programs
           rs == [ps EXCEPT ![k] = prog]
           n  == Len(ps)
           ix == p.program_indices
           cleared == [f \in DOMAIN ix |-> ix[f] \ {k}]
           mapped == MapSources(cleared, prog.sources, k)
<1>1. /\ p \in PoolState /\ ps \in Seq(Program) /\ n \in Nat
      /\ k \in 1..n /\ n <= MaxPrograms
  BY PoolElim DEF Sound, Positions
<1>2. /\ prog.main \in Files /\ prog.sources \subseteq Files BY DEF Program
<1>3. q = [programs |-> rs, program_indices |-> NonEmptyEntries(mapped),
           open_files |-> p.open_files, unsaved_changes |-> p.unsaved_changes]
  <2>1. q = [p EXCEPT !.programs = rs, !.program_indices = NonEmptyEntries(mapped)]
    BY DEF ReplaceProgram
  <2>2. [p EXCEPT !.programs = rs, !.program_indices = NonEmptyEntries(mapped)]
           = [p EXCEPT !.programs = rs, !.program_indices = NonEmptyEntries(mapped),
                       !.open_files = p.open_files]
    <3> HIDE DEF rs, mapped
    <3>1. QED BY <1>1 DEF PoolState
  <2> HIDE DEF rs, mapped
  <2>3. QED BY <1>1, <2>1, <2>2, PoolExcept, Zenon
<1>4. /\ rs \in Seq(Program)
      /\ Len(rs) = n
      /\ \A i \in 1..n : rs[i] = IF i = k THEN prog ELSE ps[i]
  BY <1>1, ExceptSeq
<1>5. /\ \A f \in DOMAIN ix : ix[f] = {i \in 1..n : f \in ps[i].sources}
      /\ \A i \in 1..n : ps[i].sources \subseteq DOMAIN ix
      /\ \A i \in 1..n : ps[i].main \in ps[i].sources
      /\ \A i, j \in 1..n : ps[i].main = ps[j].main => i = j
  BY DEF Sound, IndexExact, Distinct, MainIsSource, Positions
<1>6. DOMAIN ix \subseteq Files BY <1>1, PoolElim, IndexElim
<1>7. DOMAIN cleared = DOMAIN ix /\ \A f \in DOMAIN ix : cleared[f] = ix[f] \ {k}
  OBVIOUS
<1> HIDE DEF cleared
<1>8. /\ DOMAIN mapped = DOMAIN ix \cup prog.sources
      /\ \A f \in DOMAIN mapped : \A j : j \in mapped[f] <=>
            \/ f \in DOMAIN ix /\ j \in ix[f] \ {k}
            \/ f \in prog.sources /\ j = k
  <2>1. /\ DOMAIN mapped = DOMAIN cleared \cup prog.sources
        /\ \A f \in DOMAIN mapped : \A j : j \in mapped[f] <=>
              \/ f \in DOMAIN cleared /\ j \in cleared[f]
              \/ f \in prog.sources /\ j = k
    BY MapSourcesProperties, Zenon
  <2>2. QED BY <2>1, <1>7
<1> HIDE DEF mapped
<1> DEFINE kept == NonEmptyEntries(mapped)
<1>9. /\ DOMAIN kept = {f \in DOMAIN mapped : mapped[f] # {}}
      /\ \A f \in DOMAIN kept : kept[f] = mapped[f]
      /\ kept = [f \in DOMAIN kept |-> kept[f]]
  BY NonEmptyProperties
<1>10. q.programs = rs /\ q.program_indices = kept BY <1>3
<1>11. Positions(q) = 1..n BY <1>4, <1>10 DEF Positions
<1> HIDE DEF q, rs, ps, ix, n, kept
<1>12. \A f \in DOMAIN mapped :
          mapped[f] = {i \in 1..n : f \in rs[i].sources}
  <2> SUFFICES ASSUME NEW f \in DOMAIN mapped, NEW j
               PROVE  j \in mapped[f] <=> j \in 1..n /\ f \in rs[j].sources
    OBVIOUS
  <2>1. QED BY <1>1, <1>4, <1>5, <1>8
<1>13. kept \in Index
  <2>1. \A f \in DOMAIN kept : f \in Files /\ kept[f] \subseteq 1..MaxPrograms
    BY <1>1, <1>2, <1>6, <1>8, <1>9, <1>12, PoolAssumption
  <2>2. QED BY <2>1, <1>9, IndexIntro
<1>14. q \in PoolState
  BY <1>1, <1>3, <1>4, <1>13, PoolElim, PoolIntro DEF kept
<1>15. IndexExact(q)
  <2>1. \A i \in 1..n : rs[i].sources \subseteq DOMAIN mapped
    BY <1>4, <1>5, <1>8
  <2>2. \A i \in 1..n : rs[i].sources \subseteq DOMAIN kept
    BY <2>1, <1>9, <1>12
  <2>3. QED BY <2>2, <1>9, <1>10, <1>11, <1>12 DEF IndexExact
<1>16. MainIsSource(q) BY <1>4, <1>5, <1>10, <1>11 DEF MainIsSource
<1>17. Distinct(q)
  <2>1. \A i \in 1..n : rs[i].main = ps[i].main BY <1>4 DEF ps
  <2>2. QED BY <2>1, <1>5, <1>10, <1>11 DEF Distinct
<1>18. Len(q.programs) <= MaxPrograms BY <1>1, <1>4, <1>10
<1>19. Positions(p) = 1..n BY DEF Positions, n, ps
<1>20. \A i \in Positions(p) \ {k} : q.programs[i] = p.programs[i]
  BY <1>4, <1>10, <1>19 DEF ps
<1>21. QED
  BY <1>11, <1>14, <1>15, <1>16, <1>17, <1>18, <1>19, <1>20 DEF Sound, q

\* re_parse_programs may leave the file with an empty entry: no program has it.
LEMMA WithEntrySound ==
    ASSUME NEW p, Sound(p), NEW f \in Files
    PROVE  /\ Sound([p EXCEPT !.program_indices = WithEntry(@, f)])
           /\ WithEntry(p.program_indices, f)[f] =
                 {k \in Positions(p) : f \in p.programs[k].sources}
<1> DEFINE ix == p.program_indices
           wx == WithEntry(ix, f)
           q == [p EXCEPT !.program_indices = wx]
<1>1. p \in PoolState /\ ix \in Index /\ p.programs \in Seq(Program)
  BY PoolElim DEF Sound
<1>2. /\ DOMAIN wx = DOMAIN ix \cup {f}
      /\ \A g \in DOMAIN wx : wx[g] = IF g \in DOMAIN ix THEN ix[g] ELSE {}
      /\ wx = [g \in DOMAIN wx |-> wx[g]]
  BY DEF WithEntry
<1> HIDE DEF wx
<1>3. q = [programs |-> p.programs, program_indices |-> wx,
           open_files |-> p.open_files, unsaved_changes |-> p.unsaved_changes]
  BY <1>1 DEF PoolState
<1>4. /\ DOMAIN ix \subseteq Files
      /\ \A g \in DOMAIN ix : ix[g] \subseteq 1..MaxPrograms
  BY <1>1, IndexElim
<1>5. wx \in Index BY <1>2, <1>4, IndexIntro
<1>6. q \in PoolState BY <1>1, <1>3, <1>5, PoolElim, PoolIntro
<1>7. /\ \A g \in DOMAIN ix : ix[g] = {k \in Positions(p) : g \in p.programs[k].sources}
      /\ \A k \in Positions(p) : p.programs[k].sources \subseteq DOMAIN ix
  BY DEF Sound, IndexExact
<1>8. \A g \in DOMAIN wx :
         wx[g] = {k \in Positions(p) : g \in p.programs[k].sources}
  BY <1>2, <1>7
<1>9. q.programs = p.programs /\ q.program_indices = wx BY <1>3
<1> HIDE DEF q
<1>10. Positions(q) = Positions(p) BY <1>9 DEF Positions
<1>11. IndexExact(q) BY <1>2, <1>7, <1>8, <1>9, <1>10 DEF IndexExact
<1>12. Sound(q)
  BY <1>6, <1>9, <1>10, <1>11 DEF Sound, Distinct, MainIsSource
<1>13. QED BY <1>2, <1>8, <1>12 DEF q, wx

\* Parsing yields a program whose main file is one of its sources.
LEMMA ParseProgram ==
    ASSUME NEW f \in Files
    PROVE  Parse(f) \in Program /\ Parse(f).main = f /\ f \in Parse(f).sources
<1>1. SourcesOf(f) \in SUBSET Files /\ f \in SourcesOf(f)
  BY DEF SourcesOf, Reachable
<1>2. QED BY <1>1 DEF Parse, Program

\* Making room leaves room, and does not make a file known.
LEMMA EvictedSound ==
    ASSUME Sound(pool)
    PROVE  /\ Sound(Evicted)
           /\ Len(Evicted.programs) < MaxPrograms
           /\ \A f : ~Indexed(pool, f) => ~Indexed(Evicted, f)
<1>1. Len(pool.programs) \in Nat /\ Len(pool.programs) <= MaxPrograms
  BY PoolElim DEF Sound
<1>2. CASE Len(pool.programs) >= MaxPrograms
  <2>1. 1 \in Positions(pool) BY <1>1, <1>2, PoolAssumption DEF Positions
  <2>2. Evicted = RemoveProgram(pool, 1) BY <1>2 DEF Evicted
  <2>3. Sound(Evicted) /\ Len(Evicted.programs) = Len(pool.programs) - 1
    BY <2>1, <2>2, RemoveSound
  <2>4. ASSUME NEW f, Indexed(Evicted, f) PROVE Indexed(pool, f)
    <3>1. PICK j \in Positions(Evicted) : f \in Evicted.programs[j].sources
      BY <2>3, <2>4, IndexedMeansSource DEF Sound
    <3>2. Evicted.programs = RemoveAt(pool.programs, 1)
      BY <2>2, PoolElim DEF RemoveProgram, Sound, PoolState
    <3>3. pool.programs \in Seq(Program) /\ 1 \in 1..Len(pool.programs)
      BY <2>1, PoolElim DEF Sound, Positions
    <3>4. \A k \in 1..(Len(pool.programs) - 1) :
             RemoveAt(pool.programs, 1)[k] = pool.programs[k + 1]
      BY <3>3, <1>1, RemoveAtProperties
    <3>5. j \in 1..(Len(pool.programs) - 1) BY <2>3, <3>1 DEF Positions
    <3>6. /\ j + 1 \in Positions(pool)
          /\ Evicted.programs[j] = pool.programs[j + 1]
      BY <1>1, <3>2, <3>4, <3>5 DEF Positions
    <3>7. QED BY <3>1, <3>6, IndexedMeansSource DEF Sound
  <2>5. QED BY <1>1, <2>3, <2>4, PoolAssumption
<1>3. CASE ~(Len(pool.programs) >= MaxPrograms)
  BY <1>1, <1>3, PoolAssumption DEF Evicted
<1>4. QED BY <1>2, <1>3

--------------------------------------------------------------------------------
(* The inductive invariant. *)

\* The thread is in a loop that holds positions, or may renumber them.
Looping(t) == pc[t] \in {"subsume", "reparsing", "closing"}

ControlType ==
    /\ disk \in [Files -> Contents]
    /\ mutex \in Threads \cup {NoThread}
    /\ pc \in [Threads -> Labels]
    /\ file \in [Threads -> Files \cup {NoFile}]
    /\ nested \in [Threads -> BOOLEAN]
    /\ todo \in [Threads -> SUBSET (1..MaxPrograms)]

\* Positions are only kept by the owner of pool_mutex.
Exclusive == \A t \in Threads : Looping(t) \/ nested[t] => mutex = t

\* Only get_program runs inside another operation.
NestedInGet ==
    \A t \in Threads : nested[t] => pc[t] \in {"get", "subsume", "copy", "install"}

FileKnown ==
    \A t \in Threads : pc[t] \notin {"idle", "copy", "install"} => file[t] \in Files

TodoOwned == \A t \in Threads : todo[t] # {} => pc[t] \in {"reparsing", "closing"}

PoolsSound ==
    /\ Sound(pool)
    /\ Sound(snapshot)
    /\ copy \in [Threads -> PoolState]
    /\ \A t \in Threads : Sound(copy[t])

IInv ==
    /\ ControlType /\ Exclusive /\ NestedInGet /\ FileKnown /\ TodoOwned
    /\ PoolsSound
    /\ TodoValid

\* While t has the mutex, or nobody has, no other thread keeps positions.
LEMMA Alone ==
    ASSUME IInv, NEW t \in Threads, MayLock(t),
           pc[t] \notin {"reparsing", "closing"}
    PROVE  \A u \in Threads : todo[u] = {}
BY PoolAssumption DEF IInv, Exclusive, Looping, TodoOwned, MayLock, ControlType

LEMMA InitInv == Init => IInv
<1> SUFFICES ASSUME Init PROVE IInv OBVIOUS
<1>1. EmptyPool \in PoolState BY EmptySound DEF Sound
<1>2. PoolsSound BY <1>1, EmptySound DEF Init, PoolsSound
<1>3. QED
  BY <1>2, PoolAssumption DEF Init, IInv, ControlType, Exclusive, Looping,
     NestedInGet, FileKnown, TodoOwned, TodoValid, Labels

--------------------------------------------------------------------------------
(* The steps keep the pools Sound. *)

LEMMA OpenFilesSound ==
    ASSUME NEW p, Sound(p), NEW o \in SUBSET Files
    PROVE  Sound([p EXCEPT !.open_files = o])
<1>1. [p EXCEPT !.open_files = o] =
         [programs |-> p.programs, program_indices |-> p.program_indices,
          open_files |-> o, unsaved_changes |-> p.unsaved_changes]
  BY DEF Sound, PoolState
<1>2. p.unsaved_changes \in Changes BY PoolElim DEF Sound
<1>3. Sound([programs |-> p.programs, program_indices |-> p.program_indices,
             open_files |-> o, unsaved_changes |-> p.unsaved_changes])
  BY <1>2, SoundElsewhere
<1>4. QED BY <1>1, <1>3, Zenon

LEMMA UnsavedSound ==
    ASSUME NEW p, Sound(p), NEW u \in Changes
    PROVE  Sound([p EXCEPT !.unsaved_changes = u])
<1>1. [p EXCEPT !.unsaved_changes = u] =
         [programs |-> p.programs, program_indices |-> p.program_indices,
          open_files |-> p.open_files, unsaved_changes |-> u]
  BY DEF Sound, PoolState
<1>2. p.open_files \in SUBSET Files BY PoolElim DEF Sound
<1>3. Sound([programs |-> p.programs, program_indices |-> p.program_indices,
             open_files |-> p.open_files, unsaved_changes |-> u])
  BY <1>2, SoundElsewhere
<1>4. QED BY <1>1, <1>3, Zenon

LEMMA ChangesIntro ==
    ASSUME NEW u, u = [f \in DOMAIN u |-> u[f]], DOMAIN u \subseteq Files,
           \A f \in DOMAIN u : u[f] \in Contents
    PROVE  u \in Changes
<1>1. u \in [DOMAIN u -> Contents] OBVIOUS
<1>2. QED BY <1>1 DEF Changes

LEMMA ChangesElim ==
    ASSUME NEW u \in Changes
    PROVE  DOMAIN u \subseteq Files /\ \A f \in DOMAIN u : u[f] \in Contents
<1>1. PICK D \in SUBSET Files : u \in [D -> Contents] BY DEF Changes
<1>2. QED BY <1>1

\* The call steps.
LEMMA CallPool ==
    ASSUME IInv, NEW t \in Threads, Call(t)
    PROVE  Sound(pool')
<1>1. /\ Sound(pool) /\ pool \in PoolState
      /\ pool.open_files \in SUBSET Files
      /\ DOMAIN pool.unsaved_changes \subseteq Files
      /\ \A f \in DOMAIN pool.unsaved_changes : pool.unsaved_changes[f] \in Contents
  BY PoolElim, ChangesElim DEF IInv, PoolsSound, Sound
<1>2. ASSUME NEW f \in Files, NEW c \in Contents, SetUnsavedFileContents(t, f, c)
      PROVE  Sound(pool')
  <2> DEFINE u == [g \in DOMAIN pool.unsaved_changes \cup {f} |->
                     IF g = f THEN c ELSE pool.unsaved_changes[g]]
  <2>1. pool' = [pool EXCEPT !.unsaved_changes = u]
    BY <1>2 DEF SetUnsavedFileContents
  <2>2. u \in Changes
    <3>1. /\ u = [g \in DOMAIN u |-> u[g]] /\ DOMAIN u \subseteq Files
          /\ \A g \in DOMAIN u : u[g] \in Contents
      BY <1>1
    <3>2. QED BY <3>1, ChangesIntro
  <2>3. QED BY <1>1, <2>1, <2>2, UnsavedSound
<1>3. ASSUME NEW f \in Files, RemoveUnsavedFileContents(t, f)
      PROVE  Sound(pool')
  <2> DEFINE u == [g \in DOMAIN pool.unsaved_changes \ {f} |->
                     pool.unsaved_changes[g]]
  <2>1. pool' = [pool EXCEPT !.unsaved_changes = u]
    BY <1>3 DEF RemoveUnsavedFileContents
  <2>2. u \in Changes
    <3>1. /\ u = [g \in DOMAIN u |-> u[g]] /\ DOMAIN u \subseteq Files
          /\ \A g \in DOMAIN u : u[g] \in Contents
      BY <1>1
    <3>2. QED BY <3>1, ChangesIntro
  <2>3. QED BY <1>1, <2>1, <2>2, UnsavedSound
<1>4. ASSUME NEW f \in Files, OpenFile(t, f)
      PROVE  Sound(pool')
  <2>1. pool' = [pool EXCEPT !.open_files = pool.open_files \cup {f}]
    BY <1>4 DEF OpenFile
  <2>2. QED BY <1>1, <2>1, OpenFilesSound
<1>5. ASSUME NEW f \in Files, CloseFile(t, f)
      PROVE  Sound(pool')
  <2>1. pool' = [pool EXCEPT !.open_files = pool.open_files \ {f}]
    BY <1>5 DEF CloseFile
  <2>2. QED BY <1>1, <2>1, OpenFilesSound
<1>6. ASSUME Clean(t) PROVE Sound(pool')
  <2>1. pool' = [EmptyPool EXCEPT !.unsaved_changes = pool.unsaved_changes]
    BY <1>6 DEF Clean
  <2>2. pool.unsaved_changes \in Changes BY <1>1, PoolElim
  <2>3. QED BY <2>1, <2>2, EmptySound, UnsavedSound
<1>7. ASSUME NEW f \in Files,
             \/ GetProgram(t, f)
             \/ GetProgramsForFileNew(t, f)
             \/ ReParsePrograms(t, f)
      PROVE  Sound(pool')
  BY <1>1, <1>7 DEF GetProgram, GetProgramsForFileNew, ReParsePrograms
<1>8. QED BY <1>2, <1>3, <1>4, <1>5, <1>6, <1>7 DEF Call

\* The steps inside a call.
LEMMA StepPool ==
    ASSUME IInv, NEW t \in Threads, Step(t)
    PROVE  Sound(pool')
<1>1. Sound(pool) /\ pool \in PoolState /\ pool.programs \in Seq(Program)
  BY PoolElim DEF IInv, PoolsSound, Sound
<1>2. CASE GetParseFails(t) BY <1>1, <1>2, EvictedSound DEF GetParseFails
<1>3. CASE GetCreate(t)
  <2>1. file[t] \in Files /\ ~Indexed(pool, file[t])
    BY <1>3 DEF GetCreate, IInv, FileKnown
  <2>2. pool' = PushProgram(Evicted, Parse(file[t])) BY <1>3 DEF GetCreate
  <2>3. QED BY <1>1, <2>1, <2>2, EvictedSound, ParseProgram, PushSound
<1>4. CASE SubsumeOne(t)
  <2>1. PICK k \in Subsumed(pool, file[t]) : pool' = RemoveProgram(pool, k)
    BY <1>4 DEF SubsumeOne
  <2>2. Len(pool.programs) \in Nat BY <1>1, PoolElim
  <2>3. k \in Positions(pool) BY <2>1, <2>2 DEF Subsumed, Positions
  <2>4. QED BY <1>1, <2>1, <2>3, RemoveSound
<1>5. CASE ReParseBegin(t)
  <2>1. file[t] \in Files BY <1>5 DEF ReParseBegin, IInv, FileKnown
  <2>2. QED BY <1>1, <1>5, <2>1, WithEntrySound DEF ReParseBegin
<1>6. CASE ReParseOne(t)
  <2>1. PICK k \in todo[t] :
           IF Parses(pool.programs[k].main)
           THEN pool' = ReplaceProgram(pool, k, Parse(pool.programs[k].main))
           ELSE UNCHANGED pool
    BY <1>6 DEF ReParseOne
  <2>2. k \in Positions(pool) BY <2>1 DEF IInv, TodoValid
  <2>3. pool.programs[k].main \in Files
    <3>1. pool.programs[k] \in Program BY <1>1, <2>2, ElementOfSeq DEF Positions
    <3>2. QED BY <3>1 DEF Program
  <2>4. QED BY <1>1, <2>1, <2>2, <2>3, ParseProgram, ReplaceSound
<1>7. CASE CloseOne(t)
  <2>1. PICK k \in todo[t] :
           pool' = IF pool.programs[k].sources \cap pool.open_files = {}
                   THEN RemoveProgram(pool, k) ELSE pool
    BY <1>7 DEF CloseOne
  <2>2. k \in Positions(pool) BY <2>1 DEF IInv, TodoValid
  <2>3. QED BY <1>1, <2>1, <2>2, RemoveSound
<1>8. CASE \/ GetFound(t) \/ SubsumeDone(t) \/ ReParseDone(t) \/ CloseDone(t)
           \/ CopyPool(t) \/ InstallSnapshot(t)
  BY <1>1, <1>8
     DEF GetFound, SubsumeDone, ReParseDone, CloseDone, CopyPool, InstallSnapshot
<1>9. QED BY <1>2, <1>3, <1>4, <1>5, <1>6, <1>7, <1>8 DEF Step

\* The snapshot and the copies in flight are former values of the pool.
LEMMA NextPools ==
    ASSUME IInv, [Next]_vars
    PROVE  PoolsSound'
<1>1. /\ Sound(pool) /\ Sound(snapshot) /\ copy \in [Threads -> PoolState]
      /\ \A t \in Threads : Sound(copy[t])
  BY DEF IInv, PoolsSound
<1>2. ASSUME NEW t \in Threads, Call(t) PROVE PoolsSound'
  <2>1. UNCHANGED <<snapshot, copy>>
    BY <1>2 DEF Call, SetUnsavedFileContents, RemoveUnsavedFileContents,
       GetProgram, GetProgramsForFileNew, ReParsePrograms, OpenFile, CloseFile, Clean
  <2>2. QED BY <1>1, <1>2, <2>1, CallPool DEF PoolsSound
<1>3. ASSUME NEW t \in Threads, Step(t) PROVE PoolsSound'
  <2>1. Sound(pool') BY <1>3, StepPool
  <2>2. CASE CopyPool(t)
    <3>1. snapshot' = snapshot /\ copy' = [copy EXCEPT ![t] = pool]
      BY <2>2 DEF CopyPool
    <3>2. QED BY <1>1, <2>1, <3>1 DEF PoolsSound, Sound
  <2>3. CASE InstallSnapshot(t)
    <3>1. snapshot' = copy[t] /\ copy' = [copy EXCEPT ![t] = EmptyPool]
      BY <2>3 DEF InstallSnapshot
    <3>2. Sound(snapshot') /\ EmptyPool \in PoolState
      BY <1>1, <3>1, EmptySound DEF Sound
    <3>3. copy' \in [Threads -> PoolState] BY <1>1, <3>1, <3>2
    <3>4. \A u \in Threads : Sound(copy'[u]) BY <1>1, <3>1, EmptySound
    <3>5. QED BY <2>1, <3>2, <3>3, <3>4 DEF PoolsSound
  <2>4. CASE ~CopyPool(t) /\ ~InstallSnapshot(t)
    <3>1. UNCHANGED <<snapshot, copy>>
      BY <1>3, <2>4 DEF Step, GetFound, GetParseFails, GetCreate, SubsumeOne,
         SubsumeDone, ReParseBegin, ReParseOne, ReParseDone, CloseOne, CloseDone
    <3>2. QED BY <1>1, <2>1, <3>1 DEF PoolsSound
  <2>5. QED BY <2>2, <2>3, <2>4
<1>4. ASSUME NEW f \in Files, NEW c \in Contents, WriteDisk(f, c) PROVE PoolsSound'
  BY <1>1, <1>4 DEF WriteDisk, PoolsSound
<1>5. CASE UNCHANGED vars BY <1>1, <1>5 DEF vars, PoolsSound
<1>6. QED BY <1>2, <1>3, <1>4, <1>5 DEF Next

--------------------------------------------------------------------------------
(* The steps keep positions with the owner of the mutex. *)

LEMMA NextControl ==
    ASSUME IInv, [Next]_vars
    PROVE  ControlType' /\ Exclusive' /\ NestedInGet' /\ FileKnown' /\ TodoOwned'
<1> DEFINE Control ==
             ControlType /\ Exclusive /\ NestedInGet /\ FileKnown /\ TodoOwned
<1> USE PoolAssumption
    DEF IInv, ControlType, Exclusive, NestedInGet, Looping, FileKnown, TodoOwned, Labels,
        Idle, Goto, MayLock, Return, UnlockInner
<1>1. \A f \in DOMAIN pool.program_indices :
         /\ f \in Files
         /\ pool.program_indices[f] \subseteq 1..MaxPrograms
  BY PoolElim, IndexElim DEF PoolsSound, Sound
<1>2. ASSUME NEW t \in Threads, NEW f \in Files, Idle(t)
      PROVE  /\ \A c \in Contents : SetUnsavedFileContents(t, f, c) => Control'
             /\ RemoveUnsavedFileContents(t, f) => Control'
             /\ GetProgram(t, f) => Control'
             /\ GetProgramsForFileNew(t, f) => Control'
             /\ ReParsePrograms(t, f) => Control'
             /\ OpenFile(t, f) => Control'
             /\ CloseFile(t, f) => Control'
  <2>1. ASSUME NEW c \in Contents, SetUnsavedFileContents(t, f, c) PROVE Control'
    BY <1>2, <2>1 DEF SetUnsavedFileContents
  <2>2. ASSUME RemoveUnsavedFileContents(t, f) PROVE Control'
    BY <1>2, <2>2 DEF RemoveUnsavedFileContents
  <2>3. ASSUME GetProgram(t, f) PROVE Control'
    BY <1>2, <2>3 DEF GetProgram
  <2>4. ASSUME GetProgramsForFileNew(t, f) PROVE Control'
    BY <1>2, <2>4 DEF GetProgramsForFileNew
  <2>5. ASSUME ReParsePrograms(t, f) PROVE Control'
    BY <1>2, <2>5 DEF ReParsePrograms
  <2>6. ASSUME OpenFile(t, f) PROVE Control'
    BY <1>2, <2>6 DEF OpenFile
  <2>7. ASSUME CloseFile(t, f) PROVE Control'
    BY <1>1, <1>2, <2>7 DEF CloseFile
  <2>8. QED BY <2>1, <2>2, <2>3, <2>4, <2>5, <2>6, <2>7, Zenon
<1>3. ASSUME NEW t \in Threads, Step(t) PROVE Control'
  <2>1. CASE GetFound(t) BY <2>1 DEF GetFound
  <2>2. CASE GetParseFails(t) BY <2>2 DEF GetParseFails
  <2>3. CASE GetCreate(t) BY <2>3 DEF GetCreate
  <2>4. CASE SubsumeOne(t) BY <2>4 DEF SubsumeOne
  <2>5. CASE SubsumeDone(t) BY <2>5 DEF SubsumeDone
  <2>6. CASE ReParseBegin(t)
    <3>1. WithEntry(pool.program_indices, file[t])[file[t]] \subseteq 1..MaxPrograms
      BY <1>1 DEF WithEntry
    <3>2. QED BY <2>6, <3>1 DEF ReParseBegin
  <2>7. CASE ReParseOne(t) BY <2>7 DEF ReParseOne
  <2>8. CASE ReParseDone(t) BY <2>8 DEF ReParseDone
  <2>9. CASE CloseOne(t) BY <2>9 DEF CloseOne
  <2>10. CASE CloseDone(t) BY <2>10 DEF CloseDone
  <2>11. CASE CopyPool(t) BY <2>11 DEF CopyPool
  <2>12. CASE InstallSnapshot(t) BY <2>12 DEF InstallSnapshot
  <2>13. QED
    BY <1>3, <2>1, <2>2, <2>3, <2>4, <2>5, <2>6, <2>7, <2>8, <2>9, <2>10,
       <2>11, <2>12 DEF Step
<1>4. ASSUME NEW f \in Files, NEW c \in Contents, WriteDisk(f, c) PROVE Control'
  BY <1>4 DEF WriteDisk
<1>5. CASE UNCHANGED vars BY <1>5 DEF vars
<1>6. ASSUME NEW t \in Threads, Call(t) PROVE Control'
  <2>1. Idle(t)
    BY <1>6 DEF Call, SetUnsavedFileContents, RemoveUnsavedFileContents, GetProgram,
       GetProgramsForFileNew, ReParsePrograms, OpenFile, CloseFile, Clean
  <2>2. CASE Clean(t) BY <2>1, <2>2 DEF Clean
  <2>3. CASE ~Clean(t) BY <1>2, <1>6, <2>1, <2>3 DEF Call
  <2>4. QED BY <2>2, <2>3
<1>7. QED BY <1>3, <1>4, <1>5, <1>6 DEF Next

LEMMA NextTodo ==
    ASSUME IInv, [Next]_vars
    PROVE  TodoValid'
<1> USE DEF ControlType
<1>1. \A t \in Threads : \A k \in todo[t] :
         k \in Positions(pool) /\ file[t] \in pool.programs[k].sources
  BY DEF IInv, TodoValid
<1>2. /\ todo \in [Threads -> SUBSET (1..MaxPrograms)]
      /\ file \in [Threads -> Files \cup {NoFile}]
      /\ Sound(pool)
      /\ NoThread \notin Threads
  BY PoolAssumption DEF IInv, PoolsSound
\* Nobody keeps positions when the pool changes outside the two loops.
<1>3. ASSUME NEW t \in Threads, \A u \in Threads : todo[u] = {}, UNCHANGED todo
      PROVE  TodoValid'
  BY <1>3 DEF TodoValid
<1>4. ASSUME NEW t \in Threads, Call(t) PROVE TodoValid'
  <2>1. CASE \E f \in Files : CloseFile(t, f)
    <3>1. PICK f \in Files : CloseFile(t, f) BY <2>1
    <3>2. /\ \A u \in Threads : todo[u] = {}
          /\ pool' = [pool EXCEPT !.open_files = pool.open_files \ {f}]
          /\ \/ UNCHANGED <<todo, file>>
             \/ /\ f \in DOMAIN pool.program_indices
                /\ file' = [file EXCEPT ![t] = f]
                /\ todo' = [todo EXCEPT ![t] = pool.program_indices[f]]
      BY <3>1, Alone DEF CloseFile, Idle, MayLock
    <3>3. pool'.programs = pool.programs BY <3>2, <1>2 DEF Sound, PoolState
    <3>4. CASE UNCHANGED todo BY <3>2, <3>4 DEF TodoValid
    <3>5. CASE /\ f \in DOMAIN pool.program_indices
               /\ file' = [file EXCEPT ![t] = f]
               /\ todo' = [todo EXCEPT ![t] = pool.program_indices[f]]
      <4>1. \A k \in pool.program_indices[f] :
               k \in Positions(pool) /\ f \in pool.programs[k].sources
        BY <1>2, <3>5 DEF Sound, IndexExact
      <4>2. QED BY <1>2, <3>2, <3>3, <3>5, <4>1 DEF TodoValid, Positions
    <3>6. QED BY <3>2, <3>4, <3>5
  <2>2. CASE \E f \in Files : GetProgram(t, f) \/ ReParsePrograms(t, f)
    <3>1. PICK f \in Files : GetProgram(t, f) \/ ReParsePrograms(t, f) BY <2>2
    <3>2. todo[t] = {}
      BY <3>1 DEF GetProgram, ReParsePrograms, Idle, IInv, TodoOwned
    <3>3. UNCHANGED <<pool, todo>> /\ file' = [file EXCEPT ![t] = f]
      BY <3>1 DEF GetProgram, ReParsePrograms
    <3>4. QED BY <1>1, <1>2, <3>2, <3>3 DEF TodoValid, Positions
  <2>3. CASE ~(\/ \E f \in Files : CloseFile(t, f)
               \/ \E f \in Files : GetProgram(t, f) \/ ReParsePrograms(t, f))
    <3>1. Idle(t) /\ MayLock(t) /\ UNCHANGED todo
      BY <1>4, <2>3 DEF Call, SetUnsavedFileContents, RemoveUnsavedFileContents,
         GetProgramsForFileNew, OpenFile, Clean, MayLock
    <3>2. QED BY <1>3, <3>1, Alone DEF Idle
  <2>4. QED BY <2>1, <2>2, <2>3
<1>5. ASSUME NEW t \in Threads, Step(t) PROVE TodoValid'
  <2>1. CASE ReParseBegin(t)
    <3>1. /\ \A u \in Threads : todo[u] = {}
          /\ file[t] \in Files /\ UNCHANGED file
          /\ pool' = [pool EXCEPT !.program_indices =
                                     WithEntry(pool.program_indices, file[t])]
          /\ todo' = [todo EXCEPT ![t] =
                         WithEntry(pool.program_indices, file[t])[file[t]]]
      BY <2>1, Alone DEF ReParseBegin, MayLock, IInv, FileKnown
    <3>2. pool'.programs = pool.programs BY <1>2, <3>1 DEF Sound, PoolState
    <3>3. WithEntry(pool.program_indices, file[t])[file[t]] =
             {k \in Positions(pool) : file[t] \in pool.programs[k].sources}
      BY <1>2, <3>1, WithEntrySound
    <3>4. QED BY <1>2, <3>1, <3>2, <3>3 DEF TodoValid, Positions
  <2>2. CASE ReParseOne(t)
    <3>1. PICK k \in todo[t] :
             /\ todo' = [todo EXCEPT ![t] = @ \ {k}]
             /\ IF Parses(pool.programs[k].main)
                THEN pool' = ReplaceProgram(pool, k, Parse(pool.programs[k].main))
                ELSE UNCHANGED pool
      BY <2>2 DEF ReParseOne
    <3>2. \A u \in Threads \ {t} : todo[u] = {}
      BY <2>2 DEF ReParseOne, IInv, Exclusive, Looping, TodoOwned
    <3>3. k \in Positions(pool) BY <1>1, <3>1
    <3>4. pool.programs[k].main \in Files
      <4>1. pool.programs \in Seq(Program) BY <1>2, PoolElim DEF Sound
      <4>2. pool.programs[k] \in Program BY <3>3, <4>1, ElementOfSeq DEF Positions
      <4>3. QED BY <4>2 DEF Program
    <3>5. /\ Positions(pool') = Positions(pool)
          /\ \A i \in Positions(pool) \ {k} : pool'.programs[i] = pool.programs[i]
      <4>1. CASE Parses(pool.programs[k].main)
        BY <1>2, <3>1, <3>3, <3>4, <4>1, ParseProgram, ReplaceSound
      <4>2. CASE ~Parses(pool.programs[k].main) BY <3>1, <4>2
      <4>3. QED BY <4>1, <4>2
    <3>6. UNCHANGED file BY <2>2 DEF ReParseOne
    <3>7. QED BY <1>1, <1>2, <3>1, <3>2, <3>5, <3>6 DEF TodoValid
  <2>3. CASE CloseOne(t)
    <3>1. PICK k \in todo[t] :
             /\ \A j \in todo[t] : j <= k
             /\ todo' = [todo EXCEPT ![t] = @ \ {k}]
             /\ pool' = IF pool.programs[k].sources \cap pool.open_files = {}
                        THEN RemoveProgram(pool, k) ELSE pool
      BY <2>3 DEF CloseOne
    <3>2. \A u \in Threads \ {t} : todo[u] = {}
      BY <2>3 DEF CloseOne, IInv, Exclusive, Looping, TodoOwned
    <3>3. k \in Positions(pool) /\ pool.programs \in Seq(Program)
      BY <1>1, <1>2, <3>1, PoolElim DEF Sound
    <3>4. \A j \in todo[t] \ {k} :
             j \in Positions(pool') /\ pool'.programs[j] = pool.programs[j]
      <4>1. CASE pool' = pool BY <1>1, <4>1
      <4>2. CASE pool' = RemoveProgram(pool, k)
        <5>1. pool'.programs = RemoveAt(pool.programs, k)
          BY <1>2, <4>2 DEF RemoveProgram, Sound, PoolState
        <5>2. /\ Len(pool.programs) \in Nat /\ k \in 1..Len(pool.programs)
              /\ Len(RemoveAt(pool.programs, k)) = Len(pool.programs) - 1
              /\ \A i \in 1..(Len(pool.programs) - 1) : i < k =>
                    RemoveAt(pool.programs, k)[i] = pool.programs[i]
          BY <3>3, LenProperties, RemoveAtProperties DEF Positions
        <5>3. \A j \in todo[t] \ {k} : j \in 1..Len(pool.programs) /\ j < k
          BY <1>1, <3>1, <5>2 DEF Positions
        <5>4. QED BY <5>1, <5>2, <5>3 DEF Positions
      <4>3. QED BY <3>1, <4>1, <4>2
    <3>5. UNCHANGED file BY <2>3 DEF CloseOne
    <3>6. QED BY <1>1, <1>2, <3>1, <3>2, <3>4, <3>5 DEF TodoValid
  <2>4. CASE GetCreate(t) \/ GetParseFails(t) \/ SubsumeOne(t)
    <3>1. /\ MayLock(t) /\ pc[t] \notin {"reparsing", "closing"}
          /\ UNCHANGED todo
      BY <2>4 DEF GetCreate, GetParseFails, SubsumeOne, MayLock,
         IInv, Exclusive, Looping
    <3>2. QED BY <1>3, <3>1, Alone
  <2>5. CASE \/ GetFound(t) \/ InstallSnapshot(t)
             \/ SubsumeDone(t) \/ ReParseDone(t) \/ CloseDone(t) \/ CopyPool(t)
    <3>1. UNCHANGED <<pool, todo>>
      BY <2>5 DEF GetFound, SubsumeDone, ReParseDone, CloseDone, CopyPool,
         InstallSnapshot
    <3>2. \A u \in Threads : file'[u] = file[u] \/ todo[u] = {}
      BY <1>2, <2>5 DEF GetFound, SubsumeDone, ReParseDone, CloseDone, CopyPool,
         InstallSnapshot, Return, IInv, TodoOwned
    <3>3. QED BY <1>1, <3>1, <3>2 DEF TodoValid, Positions
  <2>6. QED BY <1>5, <2>1, <2>2, <2>3, <2>4, <2>5 DEF Step
<1>6. ASSUME NEW f \in Files, NEW c \in Contents, WriteDisk(f, c) PROVE TodoValid'
  BY <1>1, <1>6 DEF WriteDisk, TodoValid, Positions
<1>7. CASE UNCHANGED vars BY <1>1, <1>7 DEF vars, TodoValid, Positions
<1>8. QED BY <1>4, <1>5, <1>6, <1>7 DEF Next

--------------------------------------------------------------------------------
(* The theorems. *)

LEMMA Inductive == Spec => []IInv
<1>1. IInv /\ [Next]_vars => IInv'
  BY NextControl, NextPools, NextTodo DEF IInv
<1>2. QED BY InitInv, <1>1, PTL DEF Spec

\* Every container and every local of every thread keeps its type, whatever the
\* threads, the files and the limit of the pool are.
THEOREM TypeCorrect == Spec => []TypeOK
<1>1. IInv => TypeOK
  BY DEF IInv, ControlType, PoolsSound, Sound, TypeOK
<1>2. QED BY Inductive, <1>1, PTL

\* program_indices and programs agree at every step of every operation.
THEOREM IndexCorrect == Spec => []PoolIndexExact
<1>1. IInv => PoolIndexExact BY DEF IInv, PoolsSound, Sound, PoolIndexExact
<1>2. QED BY Inductive, <1>1, PTL

\* Whatever snapshot a reader that jumps the queue loads, its positions exist.
THEOREM SnapshotCorrect == Spec => []SnapshotIndexExact
<1>1. IInv => SnapshotIndexExact
  BY DEF IInv, PoolsSound, Sound, SnapshotIndexExact
<1>2. QED BY Inductive, <1>1, PTL

\* max_programs is never exceeded.
THEOREM LimitRespected == Spec => []WithinLimit
<1>1. IInv => WithinLimit BY DEF IInv, PoolsSound, Sound, WithinLimit
<1>2. QED BY Inductive, <1>1, PTL

\* No file is parsed as the main file of two programs of the pool.
THEOREM OneProgramPerMain == Spec => []MainsDistinct
<1>1. IInv => MainsDistinct BY DEF IInv, PoolsSound, Sound, Distinct, MainsDistinct
<1>2. QED BY Inductive, <1>1, PTL

\* No loop of the pool ever indexes a program that is gone or renumbered.
THEOREM LoopsSafe == Spec => []TodoValid
<1>1. IInv => TodoValid BY DEF IInv
<1>2. QED BY Inductive, <1>1, PTL
================================================================================
