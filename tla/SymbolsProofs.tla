----------------------------- MODULE SymbolsProofs -----------------------------
(***************************************************************************)
(* The compiler finds what the documentation lets it find.                 *)
(***************************************************************************)
EXTENDS Symbols, SequenceTheorems, FiniteSetTheorems, WellFoundedInduction, TLAPS

--------------------------------------------------------------------------------
(* The tree of scopes. *)

\* What holds of a number when it holds of all that are less holds of all.
LEMMA Upwards ==
    ASSUME NEW N \in Nat, NEW S,
           \A s \in 1..N : (\A t \in 1..(s - 1) : t \in S) => s \in S
    PROVE  \A s \in 1..N : s \in S
<1> SUFFICES ASSUME NEW u \in 1..N, u \notin S PROVE FALSE OBVIOUS
<1> DEFINE R == {s \in 1..N : s \notin S}
           below == {ss \in Nat \X Nat : ss[1] < ss[2]}
<1>1. IsWellFoundedOn(below, Nat) BY NatLessThanWellFounded DEF OpToRel
<1>2. \A i \in Nat, j \in Nat : i < j => <<i, j>> \in below OBVIOUS
<1>3. R \in SUBSET Nat /\ R # {} OBVIOUS
<1> HIDE DEF below
<1>4. PICK s \in R : \A t \in R : <<t, s>> \notin below BY <1>1, <1>3, WFMin
<1>5. ASSUME NEW t \in 1..(s - 1) PROVE t \in S
  <2>1. t \in 1..N /\ t \in Nat /\ s \in Nat /\ t < s BY <1>4
  <2>2. QED BY <1>2, <1>4, <2>1
<1>6. QED BY <1>4, <1>5

Scope == [kind : Kinds, parent : ScopeId, low : Position, local_objects : Seq(EntityId),
          parent_visible_object_count_at_creation : 0 .. SIZE_MAX,
          program_visible_class_count_at_creation : 0 .. SIZE_MAX]

\* Every scope but the program has a parent that was opened before.
Tree(sc) ==
    /\ sc \in Seq(Scope) /\ Len(sc) >= 1
    /\ sc[1].parent = 1 /\ sc[1].kind = "program"
    /\ \A s \in 2..Len(sc) : sc[s].parent < s /\ sc[s].kind # "program"

IsEnclosing(E, sc) ==
    E = [s \in DOMAIN sc |-> IF s = Program THEN {Program} ELSE {s} \cup E[sc[s].parent]]

IsHolder(H, sc, st) ==
    H = [s \in DOMAIN sc |->
            IF sc[s].kind = "supershell" /\ s \notin Range(st) THEN H[sc[s].parent] ELSE s]

IsKnown(K, sc) ==
    K = [e \in DOMAIN sc |->
            Len(sc[e].local_objects) + (IF e = Program THEN 0 ELSE K[sc[e].parent])]

LEMMA TreeFacts ==
    ASSUME NEW sc, Tree(sc)
    PROVE  /\ Len(sc) \in Nat /\ DOMAIN sc = 1..Len(sc) /\ 1 \in 1..Len(sc)
           /\ \A s \in 1..Len(sc) : sc[s] \in Scope /\ s \in Nat
           /\ \A s \in 1..Len(sc) : s # 1 => sc[s].parent \in 1..(s - 1) /\ sc[s].kind # "program"
           /\ \A s \in 1..Len(sc) : sc[s].parent \in 1..Len(sc)
<1>1. Len(sc) \in Nat /\ DOMAIN sc = 1..Len(sc) /\ \A s \in 1..Len(sc) : sc[s] \in Scope
  BY LenProperties, ElementOfSeq DEF Tree
<1>2. \A s \in 1..Len(sc) : sc[s].parent \in Nat /\ sc[s].parent >= 1
  BY <1>1, SymbolsAssumption DEF Scope, ScopeId
<1>3. ASSUME NEW s \in 1..Len(sc), s # 1
      PROVE  sc[s].parent \in 1..(s - 1) /\ sc[s].kind # "program"
  <2>1. s \in 2..Len(sc) BY <1>1, <1>3
  <2>2. sc[s].parent < s /\ sc[s].kind # "program" BY <2>1 DEF Tree
  <2>3. QED BY <1>2, <2>1, <2>2
<1>4. \A s \in 1..Len(sc) : sc[s].parent \in 1..Len(sc)
  BY <1>1, <1>3 DEF Tree
<1>5. QED BY <1>1, <1>3, <1>4 DEF Tree

LEMMA EnclosingUnique ==
    ASSUME NEW sc, NEW E, NEW F, Tree(sc), IsEnclosing(E, sc), IsEnclosing(F, sc)
    PROVE  E = F
<1> DEFINE S == {s \in 1..Len(sc) : E[s] = F[s]}
<1>1. ASSUME NEW s \in 1..Len(sc), \A t \in 1..(s - 1) : t \in S PROVE s \in S
  <2>1. s # 1 => E[sc[s].parent] = F[sc[s].parent] BY <1>1, TreeFacts
  <2>2. E[s] = IF s = 1 THEN {1} ELSE {s} \cup E[sc[s].parent]
    BY TreeFacts, ZenonT(30) DEF IsEnclosing, Program
  <2>3. F[s] = IF s = 1 THEN {1} ELSE {s} \cup F[sc[s].parent]
    BY TreeFacts DEF IsEnclosing, Program
  <2>4. QED BY <2>1, <2>2, <2>3
<1>2. \A s \in 1..Len(sc) : s \in S
  <2> HIDE DEF S
  <2>1. QED BY <1>1, TreeFacts, Upwards
<1>3. DOMAIN E = 1..Len(sc) /\ DOMAIN F = 1..Len(sc)
      /\ E = [s \in 1..Len(sc) |-> E[s]] /\ F = [s \in 1..Len(sc) |-> F[s]]
  BY TreeFacts DEF IsEnclosing
<1>4. QED BY <1>2, <1>3

LEMMA HolderUnique ==
    ASSUME NEW sc, NEW st, NEW E, NEW F, Tree(sc), IsHolder(E, sc, st), IsHolder(F, sc, st)
    PROVE  E = F
<1> DEFINE S == {s \in 1..Len(sc) : E[s] = F[s]}
<1>1. ASSUME NEW s \in 1..Len(sc), \A t \in 1..(s - 1) : t \in S PROVE s \in S
  <2>1. s # 1 => E[sc[s].parent] = F[sc[s].parent] BY <1>1, TreeFacts
  <2>2. E[s] = IF sc[s].kind = "supershell" /\ s \notin Range(st) THEN E[sc[s].parent] ELSE s
    BY TreeFacts DEF IsHolder
  <2>3. F[s] = IF sc[s].kind = "supershell" /\ s \notin Range(st) THEN F[sc[s].parent] ELSE s
    BY TreeFacts DEF IsHolder
  <2>4. s = 1 => sc[s].kind # "supershell" BY DEF Tree
  <2>5. QED BY <2>1, <2>2, <2>3, <2>4
<1>2. \A s \in 1..Len(sc) : s \in S
  <2> HIDE DEF S
  <2>1. QED BY <1>1, TreeFacts, Upwards
<1>3. E = [s \in 1..Len(sc) |-> E[s]] /\ F = [s \in 1..Len(sc) |-> F[s]]
  BY TreeFacts DEF IsHolder
<1>4. QED BY <1>2, <1>3

LEMMA KnownUnique ==
    ASSUME NEW sc, NEW E, NEW F, Tree(sc), IsKnown(E, sc), IsKnown(F, sc)
    PROVE  E = F
<1> DEFINE S == {s \in 1..Len(sc) : E[s] = F[s]}
<1>1. ASSUME NEW s \in 1..Len(sc), \A t \in 1..(s - 1) : t \in S PROVE s \in S
  <2>1. s # 1 => E[sc[s].parent] = F[sc[s].parent] BY <1>1, TreeFacts
  <2>2. QED BY <2>1, TreeFacts DEF IsKnown, Program
<1>2. \A s \in 1..Len(sc) : s \in S
  <2> HIDE DEF S
  <2>1. QED BY <1>1, TreeFacts, Upwards
<1>3. E = [s \in 1..Len(sc) |-> E[s]] /\ F = [s \in 1..Len(sc) |-> F[s]]
  BY TreeFacts DEF IsKnown
<1>4. QED BY <1>2, <1>3

\* A scope encloses itself, the program encloses all, and what encloses is older.
LEMMA EnclosingFacts ==
    ASSUME NEW sc, NEW E, Tree(sc), IsEnclosing(E, sc)
    PROVE  /\ E[1] = {1}
           /\ \A s \in 1..Len(sc) : /\ s \in E[s] /\ 1 \in E[s] /\ E[s] \subseteq 1..s
                                    /\ s # 1 => E[s] = {s} \cup E[sc[s].parent]
<1>1. /\ E[1] = {1}
      /\ \A s \in 1..Len(sc) : s # 1 => E[s] = {s} \cup E[sc[s].parent]
  BY TreeFacts DEF IsEnclosing, Program
<1> DEFINE S == {s \in 1..Len(sc) : s \in E[s] /\ 1 \in E[s] /\ E[s] \subseteq 1..s}
<1>2. ASSUME NEW s \in 1..Len(sc), \A t \in 1..(s - 1) : t \in S PROVE s \in S
  <2>1. CASE s = 1 BY <1>1, <2>1
  <2>2. CASE s # 1
    <3>1. sc[s].parent \in 1..(s - 1) /\ s \in Nat BY <2>2, TreeFacts
    <3>2. 1 \in E[sc[s].parent] /\ E[sc[s].parent] \subseteq 1..sc[s].parent
      BY <1>2, <3>1
    <3>3. 1..sc[s].parent \subseteq 1..s /\ s \in 1..s BY <3>1
    <3>4. QED BY <1>1, <2>2, <3>2, <3>3
  <2>3. QED BY <2>1, <2>2
<1>3. \A s \in 1..Len(sc) : s \in S
  <2> HIDE DEF S
  <2>1. QED BY <1>2, TreeFacts, Upwards
<1>4. QED BY <1>1, <1>3

LEMMA HolderFacts ==
    ASSUME NEW sc, NEW st, NEW H, Tree(sc), IsHolder(H, sc, st)
    PROVE  /\ \A s \in 1..Len(sc) : H[s] \in 1..s /\ H[s] \in 1..Len(sc)
           /\ \A s \in 1..Len(sc) : s \in Range(st) \/ sc[s].kind # "supershell" => H[s] = s
<1>1. \A s \in 1..Len(sc) : H[s] = IF sc[s].kind = "supershell" /\ s \notin Range(st)
                                    THEN H[sc[s].parent] ELSE s
  BY TreeFacts DEF IsHolder
<1> DEFINE S == {s \in 1..Len(sc) : H[s] \in 1..s}
<1>2. ASSUME NEW s \in 1..Len(sc), \A t \in 1..(s - 1) : t \in S PROVE s \in S
  <2>1. CASE H[s] = s BY <2>1, TreeFacts
  <2>2. CASE H[s] # s
    <3>1. H[s] = H[sc[s].parent] /\ sc[s].kind = "supershell" BY <1>1, <2>2
    <3>2. s # 1 BY <3>1 DEF Tree
    <3>3. sc[s].parent \in 1..(s - 1) /\ s \in Nat BY <3>2, TreeFacts
    <3>4. H[s] \in 1..sc[s].parent BY <1>2, <3>1, <3>3
    <3>5. QED BY <3>3, <3>4
  <2>3. QED BY <2>1, <2>2
<1>3. \A s \in 1..Len(sc) : s \in S
  <2> HIDE DEF S
  <2>1. QED BY <1>2, TreeFacts, Upwards
<1>4. \A s \in 1..Len(sc) : s \in Nat /\ s <= Len(sc) /\ Len(sc) \in Nat BY TreeFacts
<1>5. QED BY <1>1, <1>3, <1>4

LEMMA KnownFacts ==
    ASSUME NEW sc, NEW K, Tree(sc), IsKnown(K, sc)
    PROVE  /\ \A s \in 1..Len(sc) : /\ K[s] \in Nat /\ Len(sc[s].local_objects) \in Nat
                                    /\ Len(sc[s].local_objects) <= K[s]
           /\ K[1] = Len(sc[1].local_objects)
           /\ \A s \in 1..Len(sc) :
                 s # 1 => K[s] = Len(sc[s].local_objects) + K[sc[s].parent]
<1>1. \A s \in 1..Len(sc) : Len(sc[s].local_objects) \in Nat
  BY TreeFacts, LenProperties DEF Scope
<1>2. \A s \in 1..Len(sc) :
         s # 1 => K[s] = Len(sc[s].local_objects) + K[sc[s].parent]
  BY TreeFacts DEF IsKnown, Program
<1>3. K[1] = Len(sc[1].local_objects)
  BY <1>1, TreeFacts DEF IsKnown, Program
<1> DEFINE S == {s \in 1..Len(sc) : K[s] \in Nat}
<1>4. ASSUME NEW s \in 1..Len(sc), \A t \in 1..(s - 1) : t \in S PROVE s \in S
  <2>1. s # 1 => K[sc[s].parent] \in Nat BY <1>4, TreeFacts
  <2>2. QED BY <1>1, <1>2, <1>3, <2>1
<1>5. \A s \in 1..Len(sc) : s \in S
  <2> HIDE DEF S
  <2>1. QED BY <1>4, TreeFacts, Upwards
<1>6. ASSUME NEW s \in 1..Len(sc) PROVE Len(sc[s].local_objects) <= K[s]
  <2>1. CASE s = 1 BY <1>1, <1>3, <2>1
  <2>2. CASE s # 1
    <3>1. sc[s].parent \in 1..Len(sc) BY TreeFacts
    <3>2. K[sc[s].parent] \in Nat BY <1>5, <3>1
    <3>3. QED BY <1>1, <1>2, <2>2, <3>2
  <2>3. QED BY <2>1, <2>2
<1>7. QED BY <1>1, <1>2, <1>3, <1>5, <1>6

--------------------------------------------------------------------------------
(* How the tree and the stack change. *)

Stacked(sc, st) ==
    /\ st \in Seq(1..Len(sc)) /\ Len(st) >= 1 /\ st[1] = 1
    /\ \A i, j \in 1..Len(st) : i < j => st[i] < st[j]
    /\ \A i \in 2..Len(st) : \E j \in 1..(i - 1) : sc[st[i]].parent = st[j]
    /\ \A i \in 2..Len(st) : sc[st[i]].kind = "supershell" => sc[st[i]].parent = st[i - 1]

LEMMA StackFacts ==
    ASSUME NEW sc, NEW st, Tree(sc), Stacked(sc, st)
    PROVE  /\ Len(st) \in Nat /\ DOMAIN st = 1..Len(st) /\ 1 \in 1..Len(st) /\ Len(st) \in 1..Len(st)
           /\ \A i \in 1..Len(st) : st[i] \in 1..Len(sc) /\ st[i] \in Nat
           /\ \A i \in 1..Len(st) : i # 1 => st[i] # 1
           /\ \A i, j \in 1..Len(st) : st[i] = st[j] => i = j
           /\ \A i, j \in 1..Len(st) : i <= j => st[i] <= st[j]
<1>1. Len(st) \in Nat /\ DOMAIN st = 1..Len(st) /\ 1 \in 1..Len(st) /\ Len(st) \in 1..Len(st)
  BY LenProperties DEF Stacked
<1>2. \A i \in 1..Len(st) : st[i] \in 1..Len(sc) /\ st[i] \in Nat
  BY <1>1, TreeFacts DEF Stacked
<1>3. \A i, j \in 1..Len(st) : i < j \/ i = j \/ j < i BY <1>1
<1>4. \A i, j \in 1..Len(st) : i < j => st[i] < st[j] BY DEF Stacked
<1>5. ASSUME NEW i \in 1..Len(st), i # 1 PROVE st[i] # 1
  <2>1. 1 < i BY <1>1, <1>5
  <2>2. st[1] < st[i] BY <1>1, <1>4, <2>1
  <2>3. QED BY <1>2, <2>2 DEF Stacked
<1>6. \A i, j \in 1..Len(st) : st[i] = st[j] => i = j BY <1>2, <1>3, <1>4
<1>7. \A i, j \in 1..Len(st) : i <= j => st[i] <= st[j] BY <1>1, <1>2, <1>3, <1>4
<1>8. QED BY <1>1, <1>2, <1>5, <1>6, <1>7

LEMMA AppendFacts ==
    ASSUME NEW S, NEW list \in Seq(S), NEW x
    PROVE  /\ Len(Append(list, x)) = Len(list) + 1 /\ Len(list) \in Nat
           /\ \A i \in 1..Len(list) : Append(list, x)[i] = list[i]
           /\ Append(list, x)[Len(list) + 1] = x
           /\ \A i \in 1..(Len(list) + 1) : i \in 1..Len(list) \/ i = Len(list) + 1
           /\ Range(Append(list, x)) = Range(list) \cup {x}
<1>1. Len(list) \in Nat /\ DOMAIN list = 1..Len(list) BY LenProperties
<1>2. /\ Len(Append(list, x)) = Len(list) + 1
      /\ DOMAIN Append(list, x) = 1..(Len(list) + 1)
      /\ \A i \in 1..Len(list) : Append(list, x)[i] = list[i]
      /\ Append(list, x)[Len(list) + 1] = x
  BY <1>1
<1>3. /\ \A i \in 1..(Len(list) + 1) : i \in 1..Len(list) \/ i = Len(list) + 1
      /\ \A i \in 1..Len(list) : i \in 1..(Len(list) + 1)
      /\ Len(list) + 1 \in 1..(Len(list) + 1)
  BY <1>1
<1>4. Range(Append(list, x)) = Range(list) \cup {x}
  BY <1>1, <1>2, <1>3 DEF Range
<1>5. QED BY <1>1, <1>2, <1>3, <1>4

OpenEnclosing(E, new, n) == [s \in 1..n |-> IF s = n THEN {n} \cup E[new.parent] ELSE E[s]]

OpenHolder(H, n) == [s \in 1..n |-> IF s = n THEN n ELSE H[s]]

OpenKnown(K, new, n) ==
    [s \in 1..n |-> IF s = n THEN Len(new.local_objects) + K[new.parent] ELSE K[s]]

\* A scope is opened in one that is open.
LEMMA Opened ==
    ASSUME NEW sc, NEW st, Tree(sc), Stacked(sc, st), NEW new \in Scope,
           new.kind # "program", new.parent \in Range(st),
           new.kind = "supershell" => new.parent = st[Len(st)],
           NEW E, NEW H, NEW K, IsEnclosing(E, sc), IsHolder(H, sc, st), IsKnown(K, sc),
           NEW n, n = Len(sc) + 1
    PROVE  LET tc == Append(sc, new)
           IN  /\ Tree(tc) /\ Stacked(tc, Append(st, n))
               /\ IsEnclosing(OpenEnclosing(E, new, n), tc)
               /\ IsHolder(OpenHolder(H, n), tc, Append(st, n))
               /\ IsKnown(OpenKnown(K, new, n), tc)
<1> DEFINE tc == Append(sc, new)
           ut == Append(st, n)
<1>1. /\ tc \in Seq(Scope) /\ Len(tc) = n /\ DOMAIN tc = 1..n /\ tc[n] = new
      /\ \A s \in 1..Len(sc) : tc[s] = sc[s]
      /\ \A s \in 1..n : s \in 1..Len(sc) \/ s = n
      /\ n \notin 1..Len(sc) /\ n # 1 /\ n \in Nat /\ n \in 1..n
  BY AppendFacts, AppendProperties, TreeFacts, LenProperties DEF Tree
<1>2. new.parent \in 1..Len(sc) /\ \E j \in 1..Len(st) : new.parent = st[j]
  BY StackFacts DEF Range
<1>3. Tree(tc)
  <2>1. \A s \in 2..n : s \in 2..Len(sc) \/ s = n BY TreeFacts
  <2>2. new.parent < n BY <1>2, TreeFacts
  <2>3. Len(tc) >= 1 BY <1>1
  <2>4. QED BY <1>1, <2>1, <2>2, <2>3, TreeFacts DEF Tree
<1>4. /\ \A s \in 1..Len(sc) : tc[s].parent \in 1..Len(sc)
      /\ \A s \in 1..Len(sc) : s = 1 => tc[s].kind # "supershell"
  BY <1>1, TreeFacts DEF Tree
<1>5. /\ Len(ut) = Len(st) + 1 /\ Range(ut) = Range(st) \cup {n} /\ Len(st) \in Nat
      /\ \A i \in 1..Len(st) : ut[i] = st[i] /\ st[i] \in 1..Len(sc)
      /\ ut[Len(st) + 1] = n
  BY AppendFacts, StackFacts DEF Stacked
<1> HIDE DEF tc, ut
<1>6. Stacked(tc, ut)
  <2>1. ut \in Seq(1..n)
    <3>1. 1..Len(sc) \subseteq 1..n BY TreeFacts
    <3>2. st \in Seq(1..n) BY <3>1, SeqMonotonic DEF Stacked
    <3>3. QED BY <1>1, <3>2, AppendProperties DEF ut
  <2>2. ut[1] = 1 BY <1>5, StackFacts DEF Stacked
  <2>3. ASSUME NEW i \in 1..Len(ut), NEW j \in 1..Len(ut), i < j PROVE ut[i] < ut[j]
    <3>1. i \in 1..Len(st) BY <1>5, <2>3
    <3>2. j \in 1..Len(st) \/ j = Len(st) + 1 BY <1>5, <2>3, SMTT(30)
    <3>3. CASE j \in 1..Len(st) BY <1>5, <2>3, <3>1, <3>3 DEF Stacked
    <3>4. CASE j = Len(st) + 1
      <4>1. st[i] < n BY <1>5, <3>1, TreeFacts
      <4>2. QED BY <1>5, <3>1, <3>4, <4>1
    <3>5. QED BY <3>2, <3>3, <3>4
  <2>4. ASSUME NEW i \in 2..Len(ut)
        PROVE  /\ \E j \in 1..(i - 1) : tc[ut[i]].parent = ut[j]
               /\ tc[ut[i]].kind = "supershell" => tc[ut[i]].parent = ut[i - 1]
    <3>1. i \in 2..Len(st) \/ i = Len(st) + 1 BY <1>5, <2>4
    <3>2. CASE i \in 2..Len(st)
      <4>1. /\ i \in 1..Len(st) /\ i - 1 \in 1..Len(st)
            /\ \A j \in 1..(i - 1) : j \in 1..Len(st)
        BY <1>5, <3>2
      <4>2. PICK j \in 1..(i - 1) : sc[st[i]].parent = st[j] BY <3>2 DEF Stacked
      <4>3. tc[ut[i]] = sc[st[i]] BY <1>1, <1>5, <4>1
      <4>4. sc[st[i]].kind = "supershell" => sc[st[i]].parent = st[i - 1]
        BY <3>2 DEF Stacked
      <4>5. QED BY <1>5, <4>1, <4>2, <4>3, <4>4
    <3>3. CASE i = Len(st) + 1
      <4>1. i - 1 = Len(st) /\ Len(st) \in 1..Len(st) BY <1>5, <3>3, StackFacts
      <4>2. tc[ut[i]] = new BY <1>1, <1>5, <3>3
      <4>3. PICK j \in 1..Len(st) : new.parent = st[j] BY <1>2
      <4>4. QED BY <1>5, <4>1, <4>2, <4>3
    <3>4. QED BY <3>1, <3>2, <3>3
  <2>5. Len(ut) >= 1 BY <1>5
  <2>6. QED BY <1>1, <2>1, <2>2, <2>3, <2>4, <2>5 DEF Stacked
<1> DEFINE F == [s \in 1..n |-> IF s = n THEN {n} \cup E[new.parent] ELSE E[s]]
           G == [s \in 1..n |-> IF s = n THEN n ELSE H[s]]
           L == [s \in 1..n |-> IF s = n THEN Len(new.local_objects) + K[new.parent] ELSE K[s]]
<1>7. IsEnclosing(F, tc)
  <2>1. ASSUME NEW s \in 1..n
        PROVE  F[s] = IF s = 1 THEN {1} ELSE {s} \cup F[tc[s].parent]
    <3>1. CASE s = n BY <1>1, <1>2, <3>1
    <3>2. CASE s # n
      <4>1. s \in 1..Len(sc) /\ tc[s] = sc[s] BY <1>1, <3>2
      <4>2. E[s] = IF s = 1 THEN {1} ELSE {s} \cup E[sc[s].parent]
        BY <4>1, TreeFacts DEF IsEnclosing, Program
      <4>3. sc[s].parent # n /\ sc[s].parent \in 1..n BY <1>1, <1>4, <4>1
      <4>4. QED BY <3>2, <4>1, <4>2, <4>3
    <3>3. QED BY <3>1, <3>2
  <2> HIDE DEF F
  <2>2. F = [s \in 1..n |-> F[s]] BY DEF F
  <2>3. QED BY <1>1, <2>1, <2>2 DEF IsEnclosing, Program
<1>8. IsHolder(G, tc, ut)
  <2>1. ASSUME NEW s \in 1..n
        PROVE  G[s] = IF tc[s].kind = "supershell" /\ s \notin Range(ut) THEN G[tc[s].parent] ELSE s
    <3>1. CASE s = n BY <1>5, <3>1
    <3>2. CASE s # n
      <4>1. s \in 1..Len(sc) /\ tc[s] = sc[s] BY <1>1, <3>2
      <4>2. H[s] = IF sc[s].kind = "supershell" /\ s \notin Range(st) THEN H[sc[s].parent] ELSE s
        BY <4>1, TreeFacts DEF IsHolder
      <4>3. sc[s].parent # n BY <1>1, <1>4, <4>1
      <4>4. G[tc[s].parent] = H[sc[s].parent] BY <1>1, <1>4, <4>1, <4>3
      <4>5. QED BY <1>5, <3>2, <4>1, <4>2, <4>4
    <3>3. QED BY <3>1, <3>2
  <2> HIDE DEF G
  <2>2. G = [s \in 1..n |-> G[s]] BY DEF G
  <2>3. QED BY <1>1, <2>1, <2>2 DEF IsHolder
<1>9. IsKnown(L, tc)
  <2>1. ASSUME NEW s \in 1..n
        PROVE  L[s] = Len(tc[s].local_objects) + (IF s = Program THEN 0 ELSE L[tc[s].parent])
    <3>1. CASE s = n BY <1>1, <1>2, <3>1 DEF Program
    <3>2. CASE s # n
      <4>1. s \in 1..Len(sc) /\ tc[s] = sc[s] BY <1>1, <3>2
      <4>2. K[s] = Len(sc[s].local_objects) + (IF s = Program THEN 0 ELSE K[sc[s].parent])
        BY <4>1, TreeFacts DEF IsKnown
      <4>3. sc[s].parent # n /\ sc[s].parent \in 1..n BY <1>1, <1>4, <4>1
      <4>4. QED BY <3>2, <4>1, <4>2, <4>3
    <3>3. QED BY <3>1, <3>2
  <2> HIDE DEF L
  <2>2. L = [s \in 1..n |-> L[s]] BY DEF L
  <2>3. QED BY <1>1, <2>1, <2>2 DEF IsKnown
<1>10. F = OpenEnclosing(E, new, n) /\ G = OpenHolder(H, n) /\ L = OpenKnown(K, new, n)
  BY DEF OpenEnclosing, OpenHolder, OpenKnown
<1> HIDE DEF F, G, L
<1>11. QED BY <1>3, <1>6, <1>7, <1>8, <1>9, <1>10 DEF tc, ut

\* Scopes that only differ in their objects.
Alike(a, b) ==
    /\ a.kind = b.kind /\ a.parent = b.parent /\ a.low = b.low
    /\ a.parent_visible_object_count_at_creation = b.parent_visible_object_count_at_creation
    /\ a.program_visible_class_count_at_creation = b.program_visible_class_count_at_creation

Grow(sc, u, more) == [sc EXCEPT ![u].local_objects = sc[u].local_objects \o more]

GrowKnown(sc, E, K, u, more) ==
    [s \in 1..Len(sc) |-> IF u \in E[s] THEN K[s] + Len(more) ELSE K[s]]

\* Objects come to a scope: what depends on its number of objects is what it encloses.
LEMMA Grown ==
    ASSUME NEW sc, NEW st, Tree(sc), Stacked(sc, st),
           NEW E, NEW H, NEW K, IsEnclosing(E, sc), IsHolder(H, sc, st), IsKnown(K, sc),
           NEW u \in 1..Len(sc), NEW more \in Seq(EntityId)
    PROVE  /\ Tree(Grow(sc, u, more)) /\ Stacked(Grow(sc, u, more), st)
           /\ Len(Grow(sc, u, more)) = Len(sc)
           /\ IsEnclosing(E, Grow(sc, u, more)) /\ IsHolder(H, Grow(sc, u, more), st)
           /\ IsKnown(GrowKnown(sc, E, K, u, more), Grow(sc, u, more))
           /\ \A s \in 1..Len(sc) :
                 /\ Alike(Grow(sc, u, more)[s], sc[s])
                 /\ Grow(sc, u, more)[s].local_objects =
                       IF s = u THEN sc[u].local_objects \o more ELSE sc[s].local_objects
<1> DEFINE list == sc[u].local_objects
           tc   == Grow(sc, u, more)
<1>1. sc[u] \in Scope /\ list \in Seq(EntityId) /\ list \o more \in Seq(EntityId)
      /\ Len(list \o more) = Len(list) + Len(more) /\ Len(list) \in Nat /\ Len(more) \in Nat
  BY TreeFacts, ConcatProperties, LenProperties DEF Scope
<1>2. tc = [sc EXCEPT ![u] = [sc[u] EXCEPT !.local_objects = list \o more]]
  BY DEF Grow
<1>3. [sc[u] EXCEPT !.local_objects = list \o more] \in Scope
  BY <1>1 DEF Scope
<1>4. /\ tc \in Seq(Scope) /\ Len(tc) = Len(sc)
      /\ \A s \in 1..Len(sc) :
            tc[s] = IF s = u THEN [sc[u] EXCEPT !.local_objects = list \o more] ELSE sc[s]
  BY <1>2, <1>3, ExceptSeq DEF Tree
<1>5. \A s \in 1..Len(sc) :
         /\ Alike(tc[s], sc[s]) /\ tc[s].kind = sc[s].kind /\ tc[s].parent = sc[s].parent
         /\ tc[s].local_objects = IF s = u THEN list \o more ELSE sc[s].local_objects
  BY <1>1, <1>4 DEF Scope, Alike
<1>6. DOMAIN tc = DOMAIN sc /\ DOMAIN sc = 1..Len(sc) /\ Len(sc) \in Nat
  BY <1>2, TreeFacts
<1> HIDE DEF tc, list
<1>7. Tree(tc)
  <2>1. \A s \in 2..Len(sc) : s \in 1..Len(sc) BY <1>6
  <2>2. 1 \in 1..Len(sc) BY TreeFacts
  <2>3. QED BY <1>4, <1>5, <2>1, <2>2 DEF Tree
<1>8. Stacked(tc, st)
  <2>1. \A i \in 2..Len(st) : i \in 1..Len(st) BY StackFacts
  <2>2. \A i \in 1..Len(st) : tc[st[i]].kind = sc[st[i]].kind /\ tc[st[i]].parent = sc[st[i]].parent
    BY <1>5, StackFacts
  <2>3. \A i \in 2..Len(st) : \E j \in 1..(i - 1) : tc[st[i]].parent = st[j]
    BY <2>1, <2>2 DEF Stacked
  <2>4. \A i \in 2..Len(st) : tc[st[i]].kind = "supershell" => tc[st[i]].parent = st[i - 1]
    BY <2>1, <2>2 DEF Stacked
  <2>5. QED BY <1>4, <2>3, <2>4 DEF Stacked
<1>9. IsEnclosing(E, tc) BY <1>5, <1>6 DEF IsEnclosing
<1>10. IsHolder(H, tc, st) BY <1>5, <1>6 DEF IsHolder
<1> DEFINE L == [s \in 1..Len(sc) |-> IF u \in E[s] THEN K[s] + Len(more) ELSE K[s]]
<1>13. L = GrowKnown(sc, E, K, u, more) BY DEF GrowKnown
<1>11. IsKnown(L, tc)
  <2>1. ASSUME NEW s \in 1..Len(sc)
        PROVE  L[s] = Len(tc[s].local_objects) + (IF s = Program THEN 0 ELSE L[tc[s].parent])
    <3>1. K[s] = Len(sc[s].local_objects) + (IF s = 1 THEN 0 ELSE K[sc[s].parent])
      BY <1>6 DEF IsKnown, Program
    <3>2. /\ sc[s].parent \in 1..Len(sc) /\ K[sc[s].parent] \in Nat /\ K[s] \in Nat
          /\ Len(sc[s].local_objects) \in Nat
      BY TreeFacts, KnownFacts
    <3>3. CASE s = u
      <4>1. s \in E[s] BY EnclosingFacts
      <4>2. s # 1 => s \notin E[sc[s].parent]
        <5>1. s # 1 => sc[s].parent \in 1..(s - 1) /\ E[sc[s].parent] \subseteq 1..sc[s].parent
          BY TreeFacts, EnclosingFacts
        <5>2. QED BY <5>1
      <4>3. Len(tc[s].local_objects) = Len(sc[s].local_objects) + Len(more)
        BY <1>1, <1>5, <3>3 DEF list
      <4>4. L[s] = K[s] + Len(more) /\ (s # 1 => L[tc[s].parent] = K[sc[s].parent])
        BY <1>5, <3>2, <3>3, <4>1, <4>2
      <4> HIDE DEF L
      <4>5. QED BY <1>1, <3>1, <3>2, <4>3, <4>4 DEF Program
    <3>4. CASE s # u
      <4>1. s # 1 => (u \in E[s] <=> u \in E[sc[s].parent]) BY <3>4, EnclosingFacts
      <4>2. s = 1 => u \notin E[s] BY <3>4, EnclosingFacts
      <4>3. Len(tc[s].local_objects) = Len(sc[s].local_objects) /\ tc[s].parent = sc[s].parent
        BY <1>5, <3>4
      <4>4. L[s] = IF u \in E[s] THEN K[s] + Len(more) ELSE K[s]
        OBVIOUS
      <4>5. L[sc[s].parent] = IF u \in E[sc[s].parent] THEN K[sc[s].parent] + Len(more)
                                                       ELSE K[sc[s].parent]
        BY <3>2
      <4> HIDE DEF L
      <4>6. CASE s = 1 BY <3>1, <4>2, <4>3, <4>4, <4>6 DEF Program
      <4>7. CASE s # 1 BY <1>1, <3>1, <3>2, <4>1, <4>3, <4>4, <4>5, <4>7, SMTT(30) DEF Program
      <4>8. QED BY <4>6, <4>7
    <3>5. QED BY <3>3, <3>4
  <2> HIDE DEF L
  <2>2. L = [s \in 1..Len(sc) |-> L[s]] BY DEF L
  <2>3. QED BY <1>6, <2>1, <2>2 DEF IsKnown
<1> HIDE DEF L
<1>12. QED BY <1>4, <1>5, <1>7, <1>8, <1>9, <1>10, <1>11, <1>13 DEF tc, list

CloseHolder(sc, H, top) ==
    [s \in 1..Len(sc) |-> IF sc[top].kind = "supershell" /\ H[s] = top
                          THEN sc[top].parent ELSE H[s]]

\* The innermost scope is closed: a supershell hands its objects on.
LEMMA Closed ==
    ASSUME NEW sc, NEW st, Tree(sc), Stacked(sc, st), Len(st) >= 2,
           NEW H, IsHolder(H, sc, st),
           NEW top, top = st[Len(st)], NEW down, down = Len(st) - 1
    PROVE  LET ut == SubSeq(st, 1, down)
           IN  /\ Stacked(sc, ut) /\ Len(ut) = down /\ \A i \in 1..down : ut[i] = st[i]
               /\ IsHolder(CloseHolder(sc, H, top), sc, ut)
<1> DEFINE ut == SubSeq(st, 1, down)
<1>1. /\ Len(st) \in Nat /\ down \in Nat /\ down >= 1 /\ down + 1 = Len(st)
      /\ \A i \in 1..down : i \in 1..Len(st)
      /\ \A i \in 1..Len(st) : i \in 1..down \/ i = Len(st)
      /\ Len(st) \notin 1..down /\ Len(st) \in 2..Len(st) /\ down \in 1..down
  BY StackFacts
<1>2. /\ ut \in Seq(1..Len(sc)) /\ Len(ut) = down
      /\ \A i \in 1..down : ut[i] = st[i]
  BY <1>1, SubSeqProperties, SMTT(30) DEF Stacked
<1> HIDE DEF ut
<1>3. Stacked(sc, ut)
  <2>1. \A i \in 2..down : i \in 2..Len(st) /\ i \in 1..down /\ i - 1 \in 1..down BY <1>1
  <2>2. \A i \in 2..down : \A j \in 1..(i - 1) : j \in 1..down BY <1>1
  <2>3. ut[1] = 1
    <3>1. 1 \in 1..down BY <1>1
    <3>2. QED BY <1>2, <3>1 DEF Stacked
  <2>4. \A i, j \in 1..down : i < j => ut[i] < ut[j] BY <1>1, <1>2 DEF Stacked
  <2>5. ASSUME NEW i \in 2..down
        PROVE  /\ \E j \in 1..(i - 1) : sc[ut[i]].parent = ut[j]
               /\ sc[ut[i]].kind = "supershell" => sc[ut[i]].parent = ut[i - 1]
    <3>1. PICK j \in 1..(i - 1) : sc[st[i]].parent = st[j] BY <2>1 DEF Stacked
    <3>2. sc[st[i]].kind = "supershell" => sc[st[i]].parent = st[i - 1]
      BY <2>1 DEF Stacked
    <3>3. QED BY <1>2, <2>1, <2>2, <3>1, <3>2
  <2>6. QED BY <1>1, <1>2, <2>3, <2>4, <2>5 DEF Stacked
<1>4. /\ Range(st) = Range(ut) \cup {top} /\ top \notin Range(ut)
      /\ top \in 1..Len(sc) /\ st[down] \in Range(ut) /\ st[down] # top
  <2>1. DOMAIN ut = 1..down /\ DOMAIN st = 1..Len(st) BY <1>2, StackFacts, LenProperties
  <2>2. Range(st) = Range(ut) \cup {top}
    <3>1. Range(st) = {st[i] : i \in 1..Len(st)} /\ Range(ut) = {st[i] : i \in 1..down}
      BY <1>2, <2>1 DEF Range
    <3>2. 1..Len(st) = 1..down \cup {Len(st)} BY <1>1
    <3>3. QED BY <3>1, <3>2
  <2>3. ASSUME NEW i \in 1..down PROVE ut[i] # top BY <1>1, <1>2, StackFacts, SMTT(30)
  <2>4. top \notin Range(ut) BY <2>1, <2>3 DEF Range
  <2>5. st[down] \in Range(ut) BY <1>1, <1>2, <2>1 DEF Range
  <2>6. QED BY <1>1, <2>2, <2>4, <2>5, StackFacts
<1>5. sc[top].kind = "supershell" => sc[top].parent = st[down]
  BY <1>1 DEF Stacked
<1> DEFINE G == [s \in 1..Len(sc) |-> IF sc[top].kind = "supershell" /\ H[s] = top
                                      THEN sc[top].parent ELSE H[s]]
<1>6. IsHolder(G, sc, ut)
  <2>1. ASSUME NEW s \in 1..Len(sc)
        PROVE  G[s] = IF sc[s].kind = "supershell" /\ s \notin Range(ut) THEN G[sc[s].parent] ELSE s
    <3>1. H[s] = IF sc[s].kind = "supershell" /\ s \notin Range(st) THEN H[sc[s].parent] ELSE s
      BY TreeFacts DEF IsHolder
    <3>2. sc[s].parent \in 1..Len(sc) BY TreeFacts
    <3>3. CASE s = top /\ sc[s].kind = "supershell"
      <4>1. G[s] = st[down] BY <1>4, <1>5, <3>1, <3>3
      <4>2. H[st[down]] = st[down]
        <5>1. st[down] \in Range(st) /\ st[down] \in 1..Len(sc) BY <1>1, <1>4, StackFacts
        <5>2. QED BY <5>1, HolderFacts
      <4>3. G[sc[s].parent] = st[down] BY <1>4, <1>5, <3>2, <3>3, <4>2
      <4>4. QED BY <1>4, <3>3, <4>1, <4>3
    <3>4. CASE ~(s = top /\ sc[s].kind = "supershell")
      <4>1. CASE sc[s].kind = "supershell" /\ s \notin Range(ut)
        BY <1>4, <3>1, <3>2, <3>4, <4>1
      <4>2. CASE ~(sc[s].kind = "supershell" /\ s \notin Range(ut))
        BY <1>4, <3>1, <3>4, <4>2
      <4>3. QED BY <4>1, <4>2
    <3>5. QED BY <3>3, <3>4
  <2> HIDE DEF G
  <2>2. G = [s \in 1..Len(sc) |-> G[s]] BY DEF G
  <2>3. QED BY <2>1, <2>2, TreeFacts DEF IsHolder
<1>7. G = CloseHolder(sc, H, top) BY DEF CloseHolder
<1> HIDE DEF G
<1>8. QED BY <1>2, <1>3, <1>6, <1>7 DEF ut

LEMMA RangeConcat ==
    ASSUME NEW S, NEW a \in Seq(S), NEW b \in Seq(S)
    PROVE  Range(a \o b) = Range(a) \cup Range(b)
<1>1. /\ Len(a) \in Nat /\ Len(b) \in Nat /\ DOMAIN a = 1..Len(a) /\ DOMAIN b = 1..Len(b)
      /\ DOMAIN (a \o b) = 1..(Len(a) + Len(b))
      /\ \A i \in 1..(Len(a) + Len(b)) :
            (a \o b)[i] = IF i <= Len(a) THEN a[i] ELSE b[i - Len(a)]
  BY LenProperties
<1>2. \A i \in 1..(Len(a) + Len(b)) :
         (a \o b)[i] \in {a[j] : j \in 1..Len(a)} \cup {b[j] : j \in 1..Len(b)}
  BY <1>1
<1>3. \A j \in 1..Len(a) : j \in 1..(Len(a) + Len(b)) /\ (a \o b)[j] = a[j]
  BY <1>1
<1>4. \A j \in 1..Len(b) : Len(a) + j \in 1..(Len(a) + Len(b)) /\ (a \o b)[Len(a) + j] = b[j]
  BY <1>1
<1>5. Range(a \o b) = {(a \o b)[i] : i \in 1..(Len(a) + Len(b))} BY <1>1 DEF Range
<1>6. Range(a) = {a[j] : j \in 1..Len(a)} /\ Range(b) = {b[j] : j \in 1..Len(b)}
  BY <1>1 DEF Range
<1>7. Range(a \o b) \subseteq Range(a) \cup Range(b) BY <1>2, <1>5, <1>6
<1>8. ASSUME NEW x \in Range(a) \cup Range(b) PROVE x \in Range(a \o b)
  BY <1>3, <1>4, <1>5, <1>6, <1>8
<1>9. QED BY <1>7, <1>8

--------------------------------------------------------------------------------
(* The objects of the scopes. *)

Entity == [name : Names, class : Nat, scope : Nat, references : Seq(Position)]

ObjectsOf(es) == {e \in DOMAIN es : es[e].class # 0}

\* The objects that s has, its own and those of closed supershells in it.
Held(es, H, s) == {o \in ObjectsOf(es) : H[es[o].scope] = s}

\* No two of the objects in the scopes S have the same name.
Distinct(es, H, S) ==
    \A o, p \in ObjectsOf(es) :
        H[es[o].scope] \in S /\ H[es[p].scope] \in S /\ es[o].name = es[p].name => o = p

Accounted(sc, es, E, H, K, s) ==
    /\ Range(sc[s].local_objects) = Held(es, H, s)
    /\ s # 1 => sc[s].parent_visible_object_count_at_creation
                   >= Len(sc[sc[s].parent].local_objects)
    /\ K[s] <= Len(es)
    /\ Distinct(es, H, E[s])

\* The scopes on the stack have the objects that were declared in them, and see all that
\* those around them have.
Scoped(sc, st, es, E, H, K) ==
    /\ es \in Seq(Entity)
    /\ \A o \in ObjectsOf(es) : es[o].scope \in 1..Len(sc)
    /\ \A i \in 1..Len(st) : Accounted(sc, es, E, H, K, st[i])

\* Entities that only differ in their references.
Likewise(es, fs) ==
    /\ Len(fs) = Len(es)
    /\ \A e \in 1..Len(es) :
          fs[e].name = es[e].name /\ fs[e].class = es[e].class /\ fs[e].scope = es[e].scope

LEMMA LikewiseScoped ==
    ASSUME NEW sc, NEW st, NEW es, NEW fs, NEW E, NEW H, NEW K, Scoped(sc, st, es, E, H, K),
           fs \in Seq(Entity), Likewise(es, fs)
    PROVE  Scoped(sc, st, fs, E, H, K)
<1>1. DOMAIN es = 1..Len(es) /\ DOMAIN fs = 1..Len(es)
  BY LenProperties DEF Scoped, Likewise
<1>2. ObjectsOf(fs) = ObjectsOf(es) BY <1>1 DEF ObjectsOf, Likewise
<1>3. \A o \in ObjectsOf(es) : es[o].scope = fs[o].scope /\ es[o].name = fs[o].name
  BY <1>1 DEF ObjectsOf, Likewise
<1>4. \A s : Held(fs, H, s) = Held(es, H, s) BY <1>2, <1>3 DEF Held
<1>5. \A S : Distinct(es, H, S) => Distinct(fs, H, S) BY <1>2, <1>3 DEF Distinct
<1>6. \A i \in 1..Len(st) : Accounted(sc, fs, E, H, K, st[i])
  BY <1>4, <1>5 DEF Accounted, Scoped, Likewise
<1>7. QED BY <1>2, <1>3, <1>6 DEF Scoped

\* An entity more.
LEMMA MoreEntities ==
    ASSUME NEW es \in Seq(Entity), NEW x \in Entity
    PROVE  /\ Append(es, x) \in Seq(Entity)
           /\ Len(Append(es, x)) = Len(es) + 1 /\ Len(es) \in Nat
           /\ \A o \in ObjectsOf(es) : Append(es, x)[o] = es[o] /\ o \in 1..Len(es) /\ o # Len(es) + 1
           /\ Append(es, x)[Len(es) + 1] = x
           /\ ObjectsOf(Append(es, x)) =
                 ObjectsOf(es) \cup IF x.class # 0 THEN {Len(es) + 1} ELSE {}
<1> DEFINE fs == Append(es, x)
<1>1. /\ Len(es) \in Nat /\ DOMAIN es = 1..Len(es)
      /\ fs \in Seq(Entity) /\ Len(fs) = Len(es) + 1 /\ fs[Len(es) + 1] = x
      /\ \A i \in 1..Len(es) : fs[i] = es[i]
      /\ DOMAIN fs = 1..(Len(es) + 1)
  BY AppendProperties, LenProperties
<1>2. /\ \A i \in 1..(Len(es) + 1) : i \in 1..Len(es) \/ i = Len(es) + 1
      /\ \A i \in 1..Len(es) : i \in 1..(Len(es) + 1) /\ i # Len(es) + 1
      /\ Len(es) + 1 \in 1..(Len(es) + 1)
  BY <1>1
<1> HIDE DEF fs
<1>3. ObjectsOf(fs) = ObjectsOf(es) \cup IF x.class # 0 THEN {Len(es) + 1} ELSE {}
  BY <1>1, <1>2 DEF ObjectsOf
<1>4. QED BY <1>1, <1>2, <1>3 DEF ObjectsOf, fs

\* A class more.
LEMMA ClassScoped ==
    ASSUME NEW sc, NEW st, NEW es, NEW E, NEW H, NEW K, Scoped(sc, st, es, E, H, K),
           NEW x \in Entity, x.class = 0,
           \A i \in 1..Len(st) : K[st[i]] \in Nat
    PROVE  Scoped(sc, st, Append(es, x), E, H, K)
<1> DEFINE fs == Append(es, x)
<1>1. /\ fs \in Seq(Entity) /\ Len(fs) = Len(es) + 1 /\ Len(es) \in Nat
      /\ ObjectsOf(fs) = ObjectsOf(es) /\ \A o \in ObjectsOf(es) : fs[o] = es[o]
  <2>1. es \in Seq(Entity) BY DEF Scoped
  <2>2. ObjectsOf(fs) = ObjectsOf(es) \cup IF x.class # 0 THEN {Len(es) + 1} ELSE {}
    BY <2>1, MoreEntities
  <2>3. ObjectsOf(fs) = ObjectsOf(es) BY <2>2
  <2> HIDE DEF fs
  <2>4. QED BY <2>1, <2>3, MoreEntities DEF fs
<1> HIDE DEF fs
<1>2. ASSUME NEW i \in 1..Len(st) PROVE Accounted(sc, fs, E, H, K, st[i])
  <2>1. Accounted(sc, es, E, H, K, st[i]) BY DEF Scoped
  <2>2. Held(fs, H, st[i]) = Held(es, H, st[i]) BY <1>1 DEF Held
  <2>3. Distinct(fs, H, E[st[i]]) BY <1>1, <2>1 DEF Accounted, Distinct
  <2>4. K[st[i]] <= Len(fs) BY <1>1, <2>1 DEF Accounted
  <2>5. QED BY <2>1, <2>2, <2>3, <2>4 DEF Accounted
<1>3. QED BY <1>1, <1>2 DEF Scoped, fs

\* A scope is opened with no objects, or with a parameter that nothing is named like.
LEMMA OpenedScoped ==
    ASSUME NEW sc, NEW st, Tree(sc), Stacked(sc, st), NEW new \in Scope,
           new.kind # "program", new.parent \in Range(st),
           NEW E, NEW H, NEW K, IsEnclosing(E, sc), IsHolder(H, sc, st), IsKnown(K, sc),
           NEW n, n = Len(sc) + 1,
           NEW es, NEW fs, Scoped(sc, st, es, E, H, K),
           new.parent_visible_object_count_at_creation = K[new.parent],
           \/ new.local_objects = <<>> /\ fs = es
           \/ \E x \in Entity :
                 /\ x.class # 0 /\ x.scope = n
                 /\ \A o \in ObjectsOf(es) : H[es[o].scope] \in E[new.parent] => es[o].name # x.name
                 /\ new.local_objects = <<Len(es) + 1>> /\ fs = Append(es, x)
    PROVE  Scoped(Append(sc, new), Append(st, n), fs,
                  OpenEnclosing(E, new, n), OpenHolder(H, n), OpenKnown(K, new, n))
<1> DEFINE tc == Append(sc, new)
           ut == Append(st, n)
           F == OpenEnclosing(E, new, n)
           G == OpenHolder(H, n)
           L == OpenKnown(K, new, n)
           fresh == ObjectsOf(fs) \ ObjectsOf(es)
<1>1. /\ Len(sc) \in Nat /\ n \in Nat /\ Len(tc) = n /\ tc[n] = new
      /\ \A s \in 1..Len(sc) : tc[s] = sc[s] /\ s \in 1..n /\ s # n
      /\ n \notin 1..Len(sc) /\ n # 1 /\ n \in 1..n
  BY AppendFacts, TreeFacts DEF Tree
<1>2. new.parent \in 1..Len(sc) /\ \E j \in 1..Len(st) : new.parent = st[j]
  BY StackFacts DEF Range
<1>3. /\ Len(ut) = Len(st) + 1 /\ Len(st) \in Nat
      /\ \A i \in 1..Len(st) : ut[i] = st[i] /\ st[i] \in 1..Len(sc)
      /\ \A i \in 1..(Len(st) + 1) : i \in 1..Len(st) \/ i = Len(st) + 1
      /\ ut[Len(st) + 1] = n
  BY AppendFacts, StackFacts DEF Stacked
<1>4. /\ \A s \in 1..Len(sc) : F[s] = E[s] /\ G[s] = H[s] /\ L[s] = K[s]
      /\ F[n] = {n} \cup E[new.parent] /\ G[n] = n
      /\ L[n] = Len(new.local_objects) + K[new.parent]
  BY <1>1 DEF OpenEnclosing, OpenHolder, OpenKnown
<1>5. /\ \A s \in 1..Len(sc) : H[s] \in 1..Len(sc) /\ E[s] \subseteq 1..s /\ K[s] \in Nat
      /\ \A s \in 1..Len(sc) : Len(sc[s].local_objects) <= K[s] /\ n \notin 1..s
  BY <1>1, HolderFacts, EnclosingFacts, KnownFacts
<1> HIDE DEF F, G, L, tc, ut
<1>6. /\ fs \in Seq(Entity) /\ Len(es) \in Nat
      /\ Len(fs) = Len(es) + Len(new.local_objects)
      /\ ObjectsOf(es) \subseteq ObjectsOf(fs) /\ \A o \in ObjectsOf(es) : fs[o] = es[o]
      /\ Range(new.local_objects) = fresh
      /\ \A o \in fresh : fs[o].scope = n
      /\ \A o, p \in fresh : o = p
      /\ \A o \in ObjectsOf(es), p \in fresh :
            H[es[o].scope] \in E[new.parent] => es[o].name # fs[p].name
  <2>1. CASE new.local_objects = <<>> /\ fs = es
    BY <2>1, LenProperties DEF Scoped, Range
  <2>2. CASE \E x \in Entity :
                 /\ x.class # 0 /\ x.scope = n
                 /\ \A o \in ObjectsOf(es) : H[es[o].scope] \in E[new.parent] => es[o].name # x.name
                 /\ new.local_objects = <<Len(es) + 1>> /\ fs = Append(es, x)
    <3>1. PICK x \in Entity :
                 /\ x.class # 0 /\ x.scope = n
                 /\ \A o \in ObjectsOf(es) : H[es[o].scope] \in E[new.parent] => es[o].name # x.name
                 /\ new.local_objects = <<Len(es) + 1>> /\ fs = Append(es, x)
      BY <2>2
    <3>2. /\ fs \in Seq(Entity) /\ Len(fs) = Len(es) + 1 /\ Len(es) \in Nat
          /\ \A o \in ObjectsOf(es) : fs[o] = es[o] /\ o # Len(es) + 1
          /\ fs[Len(es) + 1] = x
          /\ ObjectsOf(fs) = ObjectsOf(es) \cup {Len(es) + 1}
      BY <3>1, MoreEntities DEF Scoped
    <3>3. fresh = {Len(es) + 1} BY <3>2
    <3>4. Len(new.local_objects) = 1 /\ Range(new.local_objects) = {Len(es) + 1}
      BY <3>1 DEF Range
    <3>5. QED BY <3>1, <3>2, <3>3, <3>4
  <2>3. QED BY <2>1, <2>2
<1> HIDE DEF fresh
<1>7. \A o \in ObjectsOf(fs) : o \in ObjectsOf(es) \/ o \in fresh BY DEF fresh
<1>8. \A o \in fresh : o \in ObjectsOf(fs) /\ o \notin ObjectsOf(es) BY DEF fresh
<1>9. \A o \in ObjectsOf(es) : es[o].scope \in 1..Len(sc) BY DEF Scoped
<1>10. \A o \in ObjectsOf(es) : G[fs[o].scope] = H[es[o].scope] /\ G[fs[o].scope] # n
  BY <1>1, <1>4, <1>5, <1>6, <1>9
<1>11. \A o \in fresh : G[fs[o].scope] = n BY <1>4, <1>6
<1>12. ASSUME NEW i \in 1..Len(st) PROVE Accounted(tc, fs, F, G, L, ut[i])
  <2> DEFINE s == st[i]
  <2>1. s \in 1..Len(sc) /\ ut[i] = s /\ Accounted(sc, es, E, H, K, s)
    BY <1>3 DEF Scoped
  <2> HIDE DEF s
  <2>2. Held(fs, G, s) = Held(es, H, s)
    BY <1>1, <1>6, <1>7, <1>10, <1>11, <2>1 DEF Held
  <2>3. Distinct(fs, G, F[s])
    <3>1. n \notin E[s] BY <1>5, <2>1
    <3>2. QED BY <1>4, <1>6, <1>7, <1>10, <1>11, <2>1, <3>1, SMTT(30) DEF Distinct, Accounted
  <2>4. L[s] <= Len(fs)
    <3>1. Len(new.local_objects) \in Nat BY LenProperties DEF Scope
    <3>2. QED BY <1>4, <1>5, <1>6, <2>1, <3>1, SMTT(30) DEF Accounted
  <2>5. sc[s].parent \in 1..Len(sc) BY <2>1, TreeFacts
  <2>6. QED BY <1>1, <2>1, <2>2, <2>3, <2>4, <2>5 DEF Accounted
<1>13. Accounted(tc, fs, F, G, L, n)
  <2>1. Range(new.local_objects) = Held(fs, G, n)
    BY <1>6, <1>7, <1>8, <1>10, <1>11 DEF Held
  <2>2. PICK j \in 1..Len(st) : new.parent = st[j] BY <1>2
  <2>3. Accounted(sc, es, E, H, K, new.parent) BY <2>2 DEF Scoped
  <2>4. Distinct(fs, G, F[n])
    <3> SUFFICES ASSUME NEW o \in ObjectsOf(fs), NEW p \in ObjectsOf(fs),
                        G[fs[o].scope] \in F[n], G[fs[p].scope] \in F[n],
                        fs[o].name = fs[p].name
                 PROVE  o = p
      BY DEF Distinct
    <3>1. CASE o \in ObjectsOf(es) /\ p \in ObjectsOf(es)
      BY <1>4, <1>6, <1>10, <2>3, <3>1 DEF Accounted, Distinct
    <3>2. CASE o \in fresh /\ p \in ObjectsOf(es)
      BY <1>4, <1>6, <1>10, <3>2
    <3>3. CASE o \in ObjectsOf(es) /\ p \in fresh
      BY <1>4, <1>6, <1>10, <3>3
    <3>4. CASE o \in fresh /\ p \in fresh BY <1>6, <3>4
    <3>5. QED BY <1>7, <3>1, <3>2, <3>3, <3>4
  <2>5. L[n] <= Len(fs)
    <3>1. Len(new.local_objects) \in Nat BY LenProperties DEF Scope
    <3>2. K[new.parent] \in Nat /\ K[new.parent] <= Len(es)
      BY <1>2, <1>5, <2>3 DEF Accounted
    <3>3. QED BY <1>4, <1>6, <3>1, <3>2
  <2>6. new.parent_visible_object_count_at_creation >= Len(tc[new.parent].local_objects)
    <3>1. Len(sc[new.parent].local_objects) \in Nat /\ K[new.parent] \in Nat
      BY <1>2, KnownFacts
    <3>2. QED BY <1>1, <1>2, <1>5, <3>1
  <2>7. QED BY <1>1, <2>1, <2>4, <2>5, <2>6 DEF Accounted
<1>14. \A i \in 1..Len(ut) : Accounted(tc, fs, F, G, L, ut[i])
  BY <1>3, <1>12, <1>13
<1>15. \A o \in ObjectsOf(fs) : fs[o].scope \in 1..n
  BY <1>1, <1>6, <1>7, <1>9
<1>16. Scoped(tc, ut, fs, F, G, L) BY <1>1, <1>6, <1>14, <1>15 DEF Scoped
<1>17. QED BY <1>16 DEF tc, ut, F, G, L

\* The innermost scope gets an object that nothing it sees is named like.
LEMMA GrownScoped ==
    ASSUME NEW sc, NEW st, Tree(sc), Stacked(sc, st),
           NEW E, NEW H, NEW K, IsEnclosing(E, sc), IsHolder(H, sc, st), IsKnown(K, sc),
           NEW es, Scoped(sc, st, es, E, H, K),
           NEW top, top = st[Len(st)], Len(es) + 1 \in EntityId,
           NEW x \in Entity, x.class # 0, x.scope = top,
           \A o \in ObjectsOf(es) : H[es[o].scope] \in E[top] => es[o].name # x.name
    PROVE  Scoped(Grow(sc, top, <<Len(es) + 1>>), st, Append(es, x), E, H,
                  GrowKnown(sc, E, K, top, <<Len(es) + 1>>))
<1> DEFINE new == Len(es) + 1
           tc == Grow(sc, top, <<new>>)
           fs == Append(es, x)
           L == GrowKnown(sc, E, K, top, <<new>>)
<1>1. /\ Len(st) \in Nat /\ Len(st) \in 1..Len(st) /\ top \in 1..Len(sc)
      /\ \A i \in 1..Len(st) : st[i] \in 1..Len(sc) /\ st[i] <= top /\ st[i] \in Nat /\ top \in Nat
      /\ \A i \in 1..Len(st) : st[i] = top => i = Len(st)
  BY StackFacts
<1>2. /\ Len(tc) = Len(sc)
      /\ \A s \in 1..Len(sc) :
            /\ Alike(tc[s], sc[s])
            /\ tc[s].local_objects = IF s = top THEN sc[top].local_objects \o <<new>>
                                                ELSE sc[s].local_objects
  <2>1. <<new>> \in Seq(EntityId) OBVIOUS
  <2>2. \A m \in Seq(EntityId) :
           /\ Len(Grow(sc, top, m)) = Len(sc)
           /\ \A s \in 1..Len(sc) :
                 /\ Alike(Grow(sc, top, m)[s], sc[s])
                 /\ Grow(sc, top, m)[s].local_objects =
                       IF s = top THEN sc[top].local_objects \o m ELSE sc[s].local_objects
    BY <1>1, Grown
  <2>3. QED BY <2>1, <2>2
<1>3. /\ fs \in Seq(Entity) /\ Len(fs) = Len(es) + 1 /\ Len(es) \in Nat
      /\ \A o \in ObjectsOf(es) : fs[o] = es[o] /\ o # new
      /\ fs[new] = x
      /\ ObjectsOf(fs) = ObjectsOf(es) \cup {new}
  <2>1. es \in Seq(Entity) BY DEF Scoped
  <2>2. ObjectsOf(fs) = ObjectsOf(es) \cup IF x.class # 0 THEN {Len(es) + 1} ELSE {}
    BY <2>1, MoreEntities
  <2>3. ObjectsOf(fs) = ObjectsOf(es) \cup {new} BY <2>2
  <2> HIDE DEF fs
  <2>4. QED BY <2>1, <2>3, MoreEntities DEF fs
<1>4. Len(<<new>>) = 1 OBVIOUS
<1>5. \A s \in 1..Len(sc) : L[s] = IF top \in E[s] THEN K[s] + 1 ELSE K[s]
  BY DEF GrowKnown
<1>6. /\ H[top] = top
      /\ \A s \in 1..Len(sc) : E[s] \subseteq 1..s /\ s \in E[s] /\ K[s] \in Nat
  <2>1. top \in Range(st) BY <1>1, StackFacts DEF Range
  <2>2. H[top] = top BY <1>1, <2>1, HolderFacts
  <2>3. QED BY <2>2, EnclosingFacts, KnownFacts
<1>7. sc[top].local_objects \in Seq(EntityId) BY <1>1, TreeFacts DEF Scope
<1>8. Range(sc[top].local_objects \o <<new>>) = Range(sc[top].local_objects) \cup {new}
  <2> DEFINE list == sc[top].local_objects
  <2>1. /\ list \in Seq(EntityId) /\ Len(list) \in Nat /\ DOMAIN list = 1..Len(list)
        /\ DOMAIN (list \o <<new>>) = 1..(Len(list) + 1)
        /\ \A i \in 1..Len(list) : (list \o <<new>>)[i] = list[i]
        /\ (list \o <<new>>)[Len(list) + 1] = new
    BY <1>7, LenProperties
  <2>2. 1..(Len(list) + 1) = 1..Len(list) \cup {Len(list) + 1} BY <2>1
  <2> HIDE DEF list
  <2>3. QED BY <2>1, <2>2, ZenonT(30) DEF Range, list
<1>9. \A s \in 1..Len(sc) : s # 1 => sc[s].parent \in 1..Len(sc) /\ sc[s].parent < s /\ s \in Nat
  BY TreeFacts
<1> HIDE DEF tc, fs, L, new
<1>10. ASSUME NEW i \in 1..Len(st) PROVE Accounted(tc, fs, E, H, L, st[i])
  <2> DEFINE s == st[i]
  <2>1. s \in 1..Len(sc) /\ s \in Nat /\ s <= top /\ top \in Nat /\ Accounted(sc, es, E, H, K, s)
    BY <1>1 DEF Scoped
  <2> HIDE DEF s
  <2>2. s # 1 => /\ tc[s].parent = sc[s].parent
                 /\ tc[sc[s].parent].local_objects = sc[sc[s].parent].local_objects
                 /\ tc[s].parent_visible_object_count_at_creation
                       = sc[s].parent_visible_object_count_at_creation
    <3>1. s # 1 => sc[s].parent # top BY <1>9, <2>1
    <3>2. QED BY <1>2, <1>9, <2>1, <3>1 DEF Alike
  <2>3. CASE s = top
    <3>1. Held(fs, H, top) = Held(es, H, top) \cup {new}
      BY <1>3, <1>6 DEF Held
    <3>2. Range(tc[top].local_objects) = Held(fs, H, top)
      BY <1>2, <1>8, <2>1, <2>3, <3>1 DEF Accounted
    <3>3. L[top] <= Len(fs) BY <1>1, <1>3, <1>5, <1>6, <2>1, <2>3 DEF Accounted
    <3>4. Distinct(fs, H, E[top])
      <4> SUFFICES ASSUME NEW o \in ObjectsOf(fs), NEW p \in ObjectsOf(fs),
                          H[fs[o].scope] \in E[top], H[fs[p].scope] \in E[top],
                          fs[o].name = fs[p].name
                   PROVE  o = p
        BY DEF Distinct
      <4>1. o \in ObjectsOf(es) /\ p \in ObjectsOf(es) => o = p
        BY <1>3, <2>1, <2>3 DEF Accounted, Distinct
      <4>2. QED BY <1>3, <4>1
    <3>5. QED BY <2>1, <2>2, <2>3, <3>2, <3>3, <3>4 DEF Accounted, s
  <2>4. CASE s # top
    <3>1. top \notin E[s] BY <1>6, <2>1, <2>4
    <3>2. Held(fs, H, s) = Held(es, H, s) BY <1>3, <1>6, <2>4 DEF Held
    <3>3. Distinct(fs, H, E[s])
      <4>1. Distinct(es, H, E[s]) BY <2>1 DEF Accounted
      <4>2. H[fs[new].scope] \notin E[s] BY <1>3, <1>6, <3>1
      <4>3. QED BY <1>3, <4>1, <4>2 DEF Distinct
    <3>4. L[s] <= Len(fs) BY <1>3, <1>5, <1>6, <2>1, <3>1 DEF Accounted
    <3>5. QED BY <1>2, <2>1, <2>2, <2>4, <3>2, <3>3, <3>4 DEF Accounted, s
  <2>5. QED BY <2>3, <2>4 DEF s
<1>11. \A o \in ObjectsOf(fs) : fs[o].scope \in 1..Len(tc)
  BY <1>1, <1>2, <1>3 DEF Scoped
<1>12. Scoped(tc, st, fs, E, H, L) BY <1>3, <1>10, <1>11 DEF Scoped
<1>13. QED BY <1>12 DEF tc, fs, L, new

\* The innermost scope is closed: its objects are out of sight ...
LEMMA ClosedScoped ==
    ASSUME NEW sc, NEW st, Tree(sc), Stacked(sc, st), Len(st) >= 2,
           NEW E, NEW H, NEW K, IsEnclosing(E, sc), IsHolder(H, sc, st), IsKnown(K, sc),
           NEW es, Scoped(sc, st, es, E, H, K),
           NEW top, top = st[Len(st)], NEW down, down = Len(st) - 1,
           sc[top].kind # "supershell"
    PROVE  Scoped(sc, SubSeq(st, 1, down), es, E, CloseHolder(sc, H, top), K)
<1> DEFINE ut == SubSeq(st, 1, down)
           G == CloseHolder(sc, H, top)
<1>1. Len(ut) = down /\ \A i \in 1..down : ut[i] = st[i]
  BY Closed
<1>2. \A i \in 1..down : i \in 1..Len(st) BY StackFacts
<1>3. \A s \in 1..Len(sc) : G[s] = H[s] BY DEF CloseHolder
<1> HIDE DEF ut, G
<1>4. \A o \in ObjectsOf(es) : G[es[o].scope] = H[es[o].scope]
  BY <1>3 DEF Scoped
<1>5. \A s : Held(es, G, s) = Held(es, H, s) BY <1>4 DEF Held
<1>6. \A S : Distinct(es, H, S) => Distinct(es, G, S) BY <1>4 DEF Distinct
<1>7. \A i \in 1..Len(ut) : Accounted(sc, es, E, G, K, ut[i])
  BY <1>1, <1>2, <1>5, <1>6 DEF Accounted, Scoped
<1>8. QED BY <1>7 DEF Scoped, ut, G

\* ... or become those of the scope around it.
LEMMA AdoptedScoped ==
    ASSUME NEW sc, NEW st, Tree(sc), Stacked(sc, st), Len(st) >= 2,
           NEW E, NEW H, NEW K, IsEnclosing(E, sc), IsHolder(H, sc, st), IsKnown(K, sc),
           NEW es, Scoped(sc, st, es, E, H, K),
           NEW top, top = st[Len(st)], NEW down, down = Len(st) - 1,
           sc[top].kind = "supershell"
    PROVE  LET p == sc[top].parent
               more == sc[top].local_objects
           IN  Scoped(Grow(sc, p, more), SubSeq(st, 1, down), es, E,
                      CloseHolder(sc, H, top), GrowKnown(sc, E, K, p, more))
<1> DEFINE p == sc[top].parent
           more == sc[top].local_objects
           tc == Grow(sc, p, more)
           ut == SubSeq(st, 1, down)
           G == CloseHolder(sc, H, top)
           L == GrowKnown(sc, E, K, p, more)
<1>1. Len(ut) = down /\ \A i \in 1..down : ut[i] = st[i]
  BY Closed
<1>2. /\ Len(st) \in Nat /\ down \in Nat /\ down \in 1..down /\ down \in 1..Len(st)
      /\ Len(st) \in 2..Len(st) /\ Len(st) \in 1..Len(st) /\ Len(st) - 1 = down
      /\ \A i \in 1..down : i \in 1..Len(st) /\ i # Len(st) /\ i <= down
  BY StackFacts
<1>3. p = st[down] /\ p \in 1..Len(sc) /\ top \in 1..Len(sc) /\ top # 1 /\ p # top
  <2>1. p = st[Len(st) - 1] BY <1>2 DEF Stacked
  <2>2. Len(st) # 1 /\ down # Len(st) BY <1>2
  <2>3. p = st[down] BY <2>1, <1>2
  <2>4. st[down] \in 1..Len(sc) BY <1>2, StackFacts
  <2>5. top \in 1..Len(sc) BY <1>2, StackFacts
  <2>6. top # 1 BY <1>2, <2>2, StackFacts
  <2>7. st[down] # top BY <1>2, <2>2, StackFacts
  <2> HIDE DEF p
  <2>8. QED BY <2>3, <2>4, <2>5, <2>6, <2>7
<1>4. \A i \in 1..down : /\ st[i] \in 1..Len(sc) /\ st[i] <= p /\ st[i] # top
                         /\ st[i] \in Nat /\ p \in Nat
                         /\ st[i] = p => i = down
  <2> HIDE DEF p
  <2>1. QED BY <1>2, <1>3, StackFacts
<1>5. /\ more \in Seq(EntityId) /\ sc[p].local_objects \in Seq(EntityId)
      /\ Len(more) \in Nat
  BY <1>3, TreeFacts, LenProperties DEF Scope
<1>6. /\ Len(tc) = Len(sc)
      /\ \A s \in 1..Len(sc) :
            /\ Alike(tc[s], sc[s])
            /\ tc[s].local_objects = IF s = p THEN sc[p].local_objects \o more
                                              ELSE sc[s].local_objects
  BY <1>3, <1>5, Grown, SMTT(30)
<1>7. \A s \in 1..Len(sc) : G[s] = IF H[s] = top THEN p ELSE H[s]
  BY DEF CloseHolder
<1>8. \A s \in 1..Len(sc) : L[s] = IF p \in E[s] THEN K[s] + Len(more) ELSE K[s]
  BY DEF GrowKnown
<1>9. Range(sc[p].local_objects \o more) = Range(sc[p].local_objects) \cup Range(more)
  BY <1>5, RangeConcat
<1>10. /\ \A s \in 1..Len(sc) : E[s] \subseteq 1..s /\ s \in E[s] /\ K[s] \in Nat
       /\ E[top] = {top} \cup E[p]
       /\ K[top] = Len(more) + K[p]
  <2>1. \A s \in 1..Len(sc) : E[s] \subseteq 1..s /\ s \in E[s]
    BY EnclosingFacts
  <2>2. E[top] = {top} \cup E[p] BY <1>3, EnclosingFacts
  <2>3. \A s \in 1..Len(sc) : K[s] \in Nat BY KnownFacts
  <2>4. K[top] = Len(sc[top].local_objects) + K[sc[top].parent]
    BY <1>3, KnownFacts
  <2>5. QED BY <2>1, <2>2, <2>3, <2>4
<1>11. \A s \in 1..Len(sc) : s # 1 => sc[s].parent \in 1..Len(sc) /\ sc[s].parent < s /\ s \in Nat
  BY TreeFacts
<1>12. Accounted(sc, es, E, H, K, top) BY <1>2 DEF Scoped
<1>13. \A o \in ObjectsOf(es) : G[es[o].scope] = IF H[es[o].scope] = top THEN p
                                                                      ELSE H[es[o].scope]
  BY <1>7 DEF Scoped
<1> HIDE DEF tc, ut, G, L, p, more
<1>14. ASSUME NEW i \in 1..down PROVE Accounted(tc, es, E, G, L, st[i])
  <2> DEFINE s == st[i]
  <2>1. /\ s \in 1..Len(sc) /\ s \in Nat /\ s <= p /\ p \in Nat /\ s # top
        /\ Accounted(sc, es, E, H, K, s)
    BY <1>2, <1>4 DEF Scoped
  <2> HIDE DEF s
  <2>2. s # 1 => /\ tc[s].parent = sc[s].parent
                 /\ tc[sc[s].parent].local_objects = sc[sc[s].parent].local_objects
                 /\ tc[s].parent_visible_object_count_at_creation
                       = sc[s].parent_visible_object_count_at_creation
    <3>1. s # 1 => sc[s].parent # p BY <1>11, <2>1
    <3>2. QED BY <1>6, <1>11, <2>1, <3>1 DEF Alike
  <2>3. CASE s = p
    <3>1. Held(es, G, p) = Held(es, H, p) \cup Held(es, H, top)
      BY <1>3, <1>13 DEF Held
    <3>2. Range(tc[p].local_objects) = Held(es, G, p)
      BY <1>6, <1>9, <1>12, <2>1, <2>3, <3>1 DEF Accounted, more
    <3>3. L[p] <= Len(es)
      <4>1. L[p] = K[p] + Len(more) /\ K[p] \in Nat BY <1>3, <1>8, <1>10
      <4>2. K[top] <= Len(es) BY <1>12 DEF Accounted
      <4>3. QED BY <1>5, <1>10, <4>1, <4>2
    <3>4. Distinct(es, G, E[p])
      <4>1. \A o \in ObjectsOf(es) : G[es[o].scope] \in E[p] => H[es[o].scope] \in E[top]
        BY <1>10, <1>13
      <4>2. QED BY <1>12, <4>1 DEF Accounted, Distinct
    <3>5. QED BY <2>1, <2>2, <2>3, <3>2, <3>3, <3>4 DEF Accounted, s
  <2>4. CASE s # p
    <3>1. p \notin E[s] BY <1>10, <2>1, <2>4
    <3>2. Held(es, G, s) = Held(es, H, s) BY <1>13, <2>1, <2>4 DEF Held
    <3>3. Distinct(es, G, E[s])
      <4>1. \A o \in ObjectsOf(es) : G[es[o].scope] \in E[s] => H[es[o].scope] \in E[s]
        BY <1>13, <3>1
      <4>2. QED BY <2>1, <4>1 DEF Accounted, Distinct
    <3>4. L[s] <= Len(es) BY <1>8, <2>1, <3>1 DEF Accounted
    <3>5. QED BY <1>6, <2>1, <2>2, <2>4, <3>2, <3>3, <3>4 DEF Accounted, s
  <2>5. QED BY <2>3, <2>4 DEF s
<1>15. Scoped(tc, ut, es, E, G, L) BY <1>1, <1>6, <1>14 DEF Scoped
<1>16. QED BY <1>15 DEF tc, ut, G, L, p, more

--------------------------------------------------------------------------------
(* What a lookup finds. *)

\* The objects of a list that are called n, up to an index.
Named(es, list, n, max) ==
    {list[i] : i \in {j \in DOMAIN list : es[list[j]].name = n /\ j - 1 <= max}}

IsFrom(f, sc, es, n) ==
    f = [e \in DOMAIN sc |-> [max \in 0 .. SIZE_MAX |->
            LET own == Named(es, sc[e].local_objects, n, max)
            IN  IF own # {} \/ e = Program
                THEN own
                ELSE f[sc[e].parent][sc[e].parent_visible_object_count_at_creation]]]

\* The lookup ends: every scope asks one that is older.
LEMMA FromExists ==
    ASSUME NEW sc, NEW es, NEW n, Tree(sc)
    PROVE  \E f : IsFrom(f, sc, es, n)
<1> DEFINE Own(e, max) == Named(es, sc[e].local_objects, n, max)
           Is(f, k) == f = [e \in 1..k |-> [max \in 0 .. SIZE_MAX |->
                               IF Own(e, max) # {} \/ e = 1
                               THEN Own(e, max)
                               ELSE f[sc[e].parent][sc[e].parent_visible_object_count_at_creation]]]
           S == {k \in 1..Len(sc) : \E f : Is(f, k)}
<1>1. ASSUME NEW k \in 1..Len(sc), \A t \in 1..(k - 1) : t \in S PROVE k \in S
  <2>1. PICK g : k # 1 => Is(g, k - 1)
    <3>1. k # 1 => k - 1 \in 1..(k - 1) BY TreeFacts
    <3> HIDE DEF Is
    <3>2. k # 1 => \E g : Is(g, k - 1) BY <1>1, <3>1
    <3>3. QED BY <3>2
  <2>2. \A e \in 1..k : /\ e # k => k # 1 /\ e \in 1..(k - 1)
                        /\ e # 1 => /\ sc[e].parent \in 1..(k - 1) /\ sc[e].parent \in 1..k
                                    /\ sc[e].parent # k /\ k # 1
                                    /\ sc[e].parent_visible_object_count_at_creation \in 0..SIZE_MAX
    <3>1. ASSUME NEW e \in 1..k PROVE e \in 1..Len(sc) /\ e \in Nat /\ e <= k /\ k \in Nat
      BY TreeFacts
    <3>2. \A e \in 1..k : e # 1 => sc[e].parent \in 1..(e - 1)
      BY <3>1, TreeFacts
    <3>3. \A e \in 1..k : sc[e].parent_visible_object_count_at_creation \in 0..SIZE_MAX
      BY <3>1, TreeFacts DEF Scope
    <3>4. QED BY <3>1, <3>2, <3>3
  <2> DEFINE h == [e \in 1..k |-> [max \in 0 .. SIZE_MAX |->
                      IF Own(e, max) # {} \/ e = 1
                      THEN Own(e, max)
                      ELSE g[sc[e].parent][sc[e].parent_visible_object_count_at_creation]]]
  <2> HIDE DEF Own
  <2>3. ASSUME NEW e \in 1..k, NEW max \in 0..SIZE_MAX, e # k PROVE h[e][max] = g[e][max]
    <3>1. e \in 1..(k - 1) /\ Is(g, k - 1) BY <2>1, <2>2, <2>3
    <3>2. QED BY <3>1
  <2>4. ASSUME NEW e \in 1..k, NEW max \in 0..SIZE_MAX
        PROVE  h[e][max] = IF Own(e, max) # {} \/ e = 1
                           THEN Own(e, max)
                           ELSE h[sc[e].parent][sc[e].parent_visible_object_count_at_creation]
    BY <2>2, <2>3
  <2>5. Is(h, k)
    <3>1. h = [e \in 1..k |-> [max \in 0 .. SIZE_MAX |-> h[e][max]]] OBVIOUS
    <3> HIDE DEF h
    <3>2. [e \in 1..k |-> [max \in 0 .. SIZE_MAX |-> h[e][max]]] =
             [e \in 1..k |-> [max \in 0 .. SIZE_MAX |->
                IF Own(e, max) # {} \/ e = 1
                THEN Own(e, max)
                ELSE h[sc[e].parent][sc[e].parent_visible_object_count_at_creation]]]
      BY <2>4
    <3>3. QED BY <3>1, <3>2
  <2> HIDE DEF Is, h
  <2>6. QED BY <2>5
<1>2. Len(sc) \in S
  <2> HIDE DEF S
  <2>1. \A s \in 1..Len(sc) : s \in S BY <1>1, TreeFacts, Upwards
  <2>2. Len(sc) \in 1..Len(sc) BY TreeFacts
  <2>3. QED BY <2>1, <2>2
<1>3. PICK f : Is(f, Len(sc)) BY <1>2
<1>4. DOMAIN sc = 1..Len(sc) BY TreeFacts
<1>5. QED BY <1>3, <1>4, ZenonT(30) DEF IsFrom, Program

\* On the stack it finds what the scope and those around it hold.
LEMMA FromFinds ==
    ASSUME NEW sc, NEW st, NEW es, NEW E, NEW H, NEW K, NEW n, NEW f,
           Tree(sc), Stacked(sc, st), IsEnclosing(E, sc), IsHolder(H, sc, st), IsKnown(K, sc),
           Scoped(sc, st, es, E, H, K), IsFrom(f, sc, es, n)
    PROVE  \A i \in 1..Len(st) : \A max \in 0..SIZE_MAX :
              max >= Len(sc[st[i]].local_objects) =>
                 f[st[i]][max] = {o \in ObjectsOf(es) : es[o].name = n /\ H[es[o].scope] \in E[st[i]]}
<1> DEFINE Means(s) == {o \in ObjectsOf(es) : es[o].name = n /\ H[es[o].scope] \in E[s]}
           S == {i \in 1..Len(st) : \A max \in 0..SIZE_MAX :
                    max >= Len(sc[st[i]].local_objects) => f[st[i]][max] = Means(st[i])}
<1>1. ASSUME NEW i \in 1..Len(st), \A t \in 1..(i - 1) : t \in S PROVE i \in S
  <2> SUFFICES ASSUME NEW max \in 0..SIZE_MAX, max >= Len(sc[st[i]].local_objects)
               PROVE  f[st[i]][max] = Means(st[i])
    OBVIOUS
  <2> DEFINE s == st[i]
             list == sc[s].local_objects
             own == Named(es, list, n, max)
  <2>1. s \in 1..Len(sc) /\ Accounted(sc, es, E, H, K, s)
    BY StackFacts DEF Scoped
  <2>2. list \in Seq(EntityId) /\ Len(list) \in Nat /\ DOMAIN list = 1..Len(list)
    BY <2>1, TreeFacts, LenProperties DEF Scope
  <2>3. own = {o \in Held(es, H, s) : es[o].name = n}
    <3>1. \A j \in 1..Len(list) : j - 1 <= max
      <4>1. Len(list) <= max /\ max \in Int OBVIOUS
      <4> HIDE DEF list
      <4>2. QED BY <2>2, <4>1
    <3>2. Range(list) = Held(es, H, s) BY <2>1 DEF Accounted
    <3>3. Range(list) = {list[j] : j \in 1..Len(list)} BY <2>2 DEF Range
    <3> HIDE DEF list
    <3>4. own = {list[j] : j \in {k \in 1..Len(list) : es[list[k]].name = n}}
      BY <2>2, <3>1 DEF Named
    <3>5. QED BY <3>2, <3>3, <3>4
  <2>4. f[s][max] = IF own # {} \/ s = 1 THEN own
                    ELSE f[sc[s].parent][sc[s].parent_visible_object_count_at_creation]
    <3>1. DOMAIN sc = 1..Len(sc) BY TreeFacts
    <3>2. \A e \in DOMAIN sc : f[e] = [m \in 0 .. SIZE_MAX |->
             LET mine == Named(es, sc[e].local_objects, n, m)
             IN  IF mine # {} \/ e = Program
                 THEN mine
                 ELSE f[sc[e].parent][sc[e].parent_visible_object_count_at_creation]]
      BY DEF IsFrom
    <3> HIDE DEF s
    <3>3. f[s] = [m \in 0 .. SIZE_MAX |->
             LET mine == Named(es, sc[s].local_objects, n, m)
             IN  IF mine # {} \/ s = Program
                 THEN mine
                 ELSE f[sc[s].parent][sc[s].parent_visible_object_count_at_creation]]
      BY <2>1, <3>1, <3>2
    <3>4. QED BY <3>3 DEF Program
  <2>5. s \in E[s] BY <2>1, EnclosingFacts
  <2> HIDE DEF s, list, own
  <2>6. CASE own # {}
    <3>1. PICK o \in own : TRUE BY <2>6
    <3>2. Distinct(es, H, E[s]) BY <2>1 DEF Accounted
    <3>3. own \subseteq Means(s) BY <2>3, <2>5 DEF Held
    <3>4. o \in Means(s) BY <3>1, <3>3
    <3>5. \A p \in Means(s) : p = o BY <3>2, <3>4 DEF Distinct
    <3>6. own = Means(s) BY <3>1, <3>3, <3>5
    <3>7. QED BY <2>4, <2>6, <3>6 DEF s
  <2>7. CASE own = {} /\ s = 1
    <3>1. E[s] = {s} BY <2>7, EnclosingFacts
    <3>2. Means(s) = own BY <2>3, <3>1 DEF Held
    <3>3. QED BY <2>4, <2>7, <3>2 DEF s
  <2>8. CASE own = {} /\ s # 1
    <3>1. i # 1 /\ i \in Nat BY <2>8 DEF s, Stacked
    <3>2. i \in 2..Len(st) BY <3>1, StackFacts
    <3>3. PICK j \in 1..(i - 1) : sc[s].parent = st[j] BY <3>2 DEF Stacked, s
    <3>4. j \in S BY <1>1
    <3>5. sc[s].parent_visible_object_count_at_creation >= Len(sc[st[j]].local_objects)
      BY <2>1, <2>8, <3>3 DEF Accounted
    <3>6. sc[s].parent_visible_object_count_at_creation \in 0..SIZE_MAX
      BY <2>1, TreeFacts DEF Scope
    <3>7. f[s][max] = Means(st[j]) BY <2>4, <2>8, <3>3, <3>4, <3>5, <3>6
    <3>8. E[s] = {s} \cup E[st[j]] BY <2>1, <2>8, <3>3, EnclosingFacts
    <3>9. Means(s) = Means(st[j]) BY <2>3, <2>8, <3>8 DEF Held
    <3>10. QED BY <3>7, <3>9 DEF s
  <2>9. QED BY <2>6, <2>7, <2>8
<1>2. \A i \in 1..Len(st) : i \in S
  <2> HIDE DEF S
  <2>1. QED BY <1>1, StackFacts, Upwards
<1>3. QED BY <1>2

--------------------------------------------------------------------------------
(* What is true of scopes, stack, entities and classes between two tokens. *)

ClassesOf(es) == DOMAIN es \ ObjectsOf(es)

\* The list of classes is complete.
Owned(es, own) ==
    /\ own \in Seq(ClassesOf(es)) /\ Range(own) = ClassesOf(es)
    /\ Len(own) <= Len(es)

\* The names of classes are taken once, and not by objects in sight; what is open sees
\* every class (a class that is being defined looks its own name up in the program).
Classed(sc, st, es, own, E, H) ==
    /\ \A c, d \in ClassesOf(es) : es[c].name = es[d].name => c = d
    /\ \A i \in 1..Len(st) : \A o \in ObjectsOf(es), c \in ClassesOf(es) :
          H[es[o].scope] \in E[st[i]] => es[o].name # es[c].name
    /\ \A i \in 1..Len(st) :
          i # 1 => sc[st[i]].program_visible_class_count_at_creation + 1 >= Len(own)

Counted(sc, st, es, own, E, H, K) ==
    /\ IsEnclosing(E, sc) /\ IsHolder(H, sc, st) /\ IsKnown(K, sc)
    /\ Scoped(sc, st, es, E, H, K)
    /\ ~NestedClasses => Classed(sc, st, es, own, E, H)

Ordered(sc, st, es, own) ==
    /\ Tree(sc) /\ Stacked(sc, st) /\ Owned(es, own)
    /\ \E E, H, K : Counted(sc, st, es, own, E, H, K)

\* Another reference.
LEMMA CountedLikewise ==
    ASSUME NEW sc, NEW st, NEW es, NEW own, NEW fs, Owned(es, own),
           NEW E, NEW H, NEW K, Counted(sc, st, es, own, E, H, K),
           fs \in Seq(Entity), Likewise(es, fs)
    PROVE  Owned(fs, own) /\ Counted(sc, st, fs, own, E, H, K)
<1>2. Scoped(sc, st, es, E, H, K) BY DEF Counted
<1>3. Scoped(sc, st, fs, E, H, K) BY <1>2, LikewiseScoped
<1>4. DOMAIN es = 1..Len(es) /\ DOMAIN fs = 1..Len(es)
  BY <1>2, LenProperties DEF Scoped, Likewise
<1>5. /\ ObjectsOf(fs) = ObjectsOf(es) /\ ClassesOf(fs) = ClassesOf(es)
      /\ \A e \in ObjectsOf(es) \cup ClassesOf(es) :
            fs[e].name = es[e].name /\ fs[e].scope = es[e].scope
  BY <1>4 DEF ObjectsOf, ClassesOf, Likewise
<1>6. Owned(fs, own) BY <1>5 DEF Owned, Likewise
<1>7. Classed(sc, st, es, own, E, H) => Classed(sc, st, fs, own, E, H)
  BY <1>5 DEF Classed
<1>8. QED BY <1>3, <1>6, <1>7 DEF Counted

LEMMA OrderedLikewise ==
    ASSUME NEW sc, NEW st, NEW es, NEW own, NEW fs,
           Ordered(sc, st, es, own), fs \in Seq(Entity), Likewise(es, fs)
    PROVE  Ordered(sc, st, fs, own)
<1>1. PICK E, H, K : Counted(sc, st, es, own, E, H, K) BY DEF Ordered
<1>2. Tree(sc) /\ Stacked(sc, st) /\ Owned(es, own) BY DEF Ordered
<1>3. Owned(fs, own) /\ Counted(sc, st, fs, own, E, H, K) BY <1>1, <1>2, CountedLikewise
<1>4. QED BY <1>2, <1>3 DEF Ordered

\* Another class.
LEMMA OrderedDefined ==
    ASSUME NEW sc, NEW st, NEW es, NEW own, Ordered(sc, st, es, own),
           NEW x \in Entity, x.class = 0,
           NEW E, NEW H, NEW K, Counted(sc, st, es, own, E, H, K),
           ~NestedClasses => Len(st) = 1,
           \A c \in ClassesOf(es) : es[c].name # x.name,
           \A o \in ObjectsOf(es) : H[es[o].scope] \in E[1] => es[o].name # x.name
    PROVE  Ordered(sc, st, Append(es, x), Append(own, Len(es) + 1))
<1> DEFINE fs == Append(es, x)
           new == Len(es) + 1
<1>1. es \in Seq(Entity) BY DEF Counted, Scoped
<1>2. /\ fs \in Seq(Entity) /\ Len(fs) = Len(es) + 1 /\ Len(es) \in Nat
      /\ \A i \in 1..Len(es) : fs[i] = es[i] /\ i \in 1..(Len(es) + 1) /\ i # new
      /\ fs[new] = x /\ DOMAIN es = 1..Len(es) /\ DOMAIN fs = 1..new
      /\ \A i \in 1..new : i \in 1..Len(es) \/ i = new
      /\ new \in 1..new
  BY <1>1, LenProperties, AppendProperties
<1> HIDE DEF fs, new
<1>3. /\ ObjectsOf(fs) = ObjectsOf(es) /\ ClassesOf(fs) = ClassesOf(es) \cup {new}
      /\ \A e \in ObjectsOf(es) \cup ClassesOf(es) : fs[e] = es[e]
  BY <1>2 DEF ObjectsOf, ClassesOf
<1>4. Owned(fs, Append(own, new))
  <2>1. Owned(es, own) BY DEF Ordered
  <2>2. own \in Seq(ClassesOf(es)) /\ Range(own) = ClassesOf(es) BY <2>1 DEF Owned
  <2>3. /\ Range(Append(own, new)) = ClassesOf(fs)
        /\ Len(Append(own, new)) = Len(own) + 1 /\ Len(own) \in Nat
    BY <1>3, <2>2, AppendFacts
  <2>4. own \in Seq(ClassesOf(fs)) BY <1>3, <2>2, SeqMonotonic
  <2>5. Append(own, new) \in Seq(ClassesOf(fs)) BY <1>3, <2>4, AppendProperties
  <2>6. QED BY <1>2, <2>1, <2>3, <2>5 DEF Owned
<1>5. Scoped(sc, st, fs, E, H, K)
  <2>1. \A i \in 1..Len(st) : K[st[i]] \in Nat
    BY StackFacts, KnownFacts DEF Ordered, Counted
  <2>2. Scoped(sc, st, es, E, H, K) BY DEF Counted
  <2>3. QED BY <2>1, <2>2, ClassScoped DEF fs
<1>6. ~NestedClasses => Classed(sc, st, fs, Append(own, new), E, H)
  <2> SUFFICES ASSUME ~NestedClasses
               PROVE  Classed(sc, st, fs, Append(own, new), E, H)
    OBVIOUS
  <2> HIDE DEF fs, new
  <2>6. Len(st) = 1 /\ st[1] = 1 BY DEF Ordered, Stacked
  <2>1. Len(st) = 1 /\ st[1] = 1 /\ \A i \in 1..Len(st) : i = 1
    <3>1. 1..Len(st) = {1} BY <2>6
    <3>2. QED BY <2>6, <3>1
  <2>2. Classed(sc, st, es, own, E, H) BY DEF Counted
  <2>3. \A c, d \in ClassesOf(fs) : fs[c].name = fs[d].name => c = d
    BY <1>2, <1>3, <2>2 DEF Classed
  <2>4. \A i \in 1..Len(st) : \A o \in ObjectsOf(fs), c \in ClassesOf(fs) :
           H[fs[o].scope] \in E[st[i]] => fs[o].name # fs[c].name
    BY <1>2, <1>3, <2>1, <2>2 DEF Classed
  <2>5. QED BY <2>1, <2>3, <2>4 DEF Classed
<1>7. Counted(sc, st, fs, Append(own, new), E, H, K) BY <1>5, <1>6 DEF Counted
<1>8. QED BY <1>4, <1>7 DEF Ordered, fs, new

\* Another scope, which may have a parameter.
LEMMA OrderedOpened ==
    ASSUME NEW sc, NEW st, NEW es, NEW fs, NEW own, Ordered(sc, st, es, own),
           NEW E, NEW H, NEW K, Counted(sc, st, es, own, E, H, K),
           NEW new \in Scope, new.kind # "program", new.parent \in Range(st),
           new.kind = "supershell" => new.parent = st[Len(st)],
           new.parent_visible_object_count_at_creation = K[new.parent],
           new.program_visible_class_count_at_creation + 1 >= Len(own),
           NEW n, n = Len(sc) + 1,
           \/ new.local_objects = <<>> /\ fs = es
           \/ \E x \in Entity :
                 /\ x.class # 0 /\ x.scope = n
                 /\ \A o \in ObjectsOf(es) : H[es[o].scope] \in E[new.parent] => es[o].name # x.name
                 /\ \A c \in ClassesOf(es) : es[c].name # x.name
                 /\ new.local_objects = <<Len(es) + 1>> /\ fs = Append(es, x)
    PROVE  Ordered(Append(sc, new), Append(st, n), fs, own)
<1> DEFINE tc == Append(sc, new)
           ut == Append(st, n)
           F == OpenEnclosing(E, new, n)
           G == OpenHolder(H, n)
           L == OpenKnown(K, new, n)
<1>1. /\ Tree(sc) /\ Stacked(sc, st) /\ Owned(es, own)
      /\ IsEnclosing(E, sc) /\ IsHolder(H, sc, st) /\ IsKnown(K, sc)
      /\ Scoped(sc, st, es, E, H, K) /\ (~NestedClasses => Classed(sc, st, es, own, E, H))
  BY DEF Ordered, Counted
<1>2. /\ Tree(tc) /\ Stacked(tc, ut)
      /\ IsEnclosing(F, tc) /\ IsHolder(G, tc, ut) /\ IsKnown(L, tc)
  BY <1>1, Opened
<1>3. \/ new.local_objects = <<>> /\ fs = es
      \/ \E x \in Entity :
            /\ x.class # 0 /\ x.scope = n
            /\ \A o \in ObjectsOf(es) : H[es[o].scope] \in E[new.parent] => es[o].name # x.name
            /\ new.local_objects = <<Len(es) + 1>> /\ fs = Append(es, x)
  OBVIOUS
<1>4. Scoped(tc, ut, fs, F, G, L)
  <2>1. CASE new.local_objects = <<>> /\ fs = es BY <1>1, <2>1, OpenedScoped
  <2>2. CASE \E x \in Entity :
                 /\ x.class # 0 /\ x.scope = n
                 /\ \A o \in ObjectsOf(es) : H[es[o].scope] \in E[new.parent] => es[o].name # x.name
                 /\ new.local_objects = <<Len(es) + 1>> /\ fs = Append(es, x)
    BY <1>1, <2>2, OpenedScoped
  <2>3. QED BY <1>3, <2>1, <2>2
<1>5. /\ Len(sc) \in Nat /\ n \in Nat /\ tc[n] = new
      /\ \A s \in 1..Len(sc) : tc[s] = sc[s] /\ s \in 1..n /\ s # n
      /\ n \notin 1..Len(sc) /\ n \in 1..n
  BY <1>1, AppendFacts, TreeFacts DEF Tree
<1>6. /\ Len(ut) = Len(st) + 1 /\ Len(st) \in Nat
      /\ \A i \in 1..Len(st) : ut[i] = st[i] /\ st[i] \in 1..Len(sc)
      /\ \A i \in 1..(Len(st) + 1) : i \in 1..Len(st) \/ i = Len(st) + 1
      /\ ut[Len(st) + 1] = n
  BY <1>1, AppendFacts, StackFacts DEF Stacked
<1>7. PICK j \in 1..Len(st) : new.parent = st[j] BY <1>1, StackFacts, SMTT(30) DEF Range
<1>8. /\ \A s \in 1..Len(sc) : F[s] = E[s] /\ G[s] = H[s]
      /\ F[n] = {n} \cup E[new.parent] /\ G[n] = n
  BY <1>5 DEF OpenEnclosing, OpenHolder
<1>9. \A s \in 1..Len(sc) : H[s] \in 1..Len(sc) /\ n \notin E[s]
  <2>1. \A s \in 1..Len(sc) : n \notin 1..s BY <1>5
  <2>2. QED BY <1>1, <2>1, HolderFacts, EnclosingFacts
<1>10. \A o \in ObjectsOf(es) : es[o].scope \in 1..Len(sc) BY <1>1 DEF Scoped
<1> HIDE DEF F, G, L, tc, ut
<1>15. \A i \in 1..Len(ut), o \in ObjectsOf(es) :
          G[es[o].scope] \in F[ut[i]] => \E k \in 1..Len(st) : H[es[o].scope] \in E[st[k]]
  <2> SUFFICES ASSUME NEW i \in 1..Len(ut), NEW o \in ObjectsOf(es), G[es[o].scope] \in F[ut[i]]
               PROVE  \E k \in 1..Len(st) : H[es[o].scope] \in E[st[k]]
    OBVIOUS
  <2>1. G[es[o].scope] = H[es[o].scope] /\ H[es[o].scope] # n
    BY <1>5, <1>8, <1>9, <1>10
  <2>2. CASE i \in 1..Len(st)
    <3>1. F[ut[i]] = E[st[i]] BY <1>6, <1>8, <2>2
    <3>2. QED BY <2>1, <2>2, <3>1
  <2>3. CASE i = Len(st) + 1
    <3>1. F[ut[i]] = {n} \cup E[st[j]] BY <1>6, <1>7, <1>8, <2>3
    <3>2. QED BY <2>1, <3>1
  <2>4. QED BY <1>6, <2>2, <2>3
<1>16. ASSUME NEW i \in 1..Len(ut), i # 1, ~NestedClasses
       PROVE  tc[ut[i]].program_visible_class_count_at_creation + 1 >= Len(own)
  <2>1. CASE i \in 1..Len(st)
    <3>1. tc[ut[i]] = sc[st[i]] BY <1>5, <1>6, <2>1
    <3>2. QED BY <1>1, <1>16, <2>1, <3>1 DEF Classed
  <2>2. CASE i = Len(st) + 1
    <3>1. tc[ut[i]] = new BY <1>5, <1>6, <2>2
    <3>2. QED BY <3>1
  <2>3. QED BY <1>6, <2>1, <2>2
<1>17. /\ Owned(fs, own) /\ ClassesOf(fs) = ClassesOf(es)
       /\ \A e \in ObjectsOf(es) \cup ClassesOf(es) : fs[e] = es[e]
       /\ \A o \in ObjectsOf(fs) : o \notin ObjectsOf(es) =>
              \A c \in ClassesOf(es) : es[c].name # fs[o].name
  <2>1. CASE new.local_objects = <<>> /\ fs = es
    BY <1>1, <2>1
  <2>2. CASE \E x \in Entity :
                 /\ x.class # 0 /\ x.scope = n
                 /\ \A c \in ClassesOf(es) : es[c].name # x.name
                 /\ fs = Append(es, x)
    <3>1. PICK x \in Entity :
                 /\ x.class # 0 /\ x.scope = n
                 /\ \A c \in ClassesOf(es) : es[c].name # x.name
                 /\ fs = Append(es, x)
      BY <2>2
    <3>2. /\ es \in Seq(Entity) /\ DOMAIN es = 1..Len(es) /\ Len(es) \in Nat
          /\ DOMAIN fs = 1..(Len(es) + 1) /\ Len(fs) = Len(es) + 1
          /\ \A i \in 1..Len(es) : fs[i] = es[i]
          /\ fs[Len(es) + 1] = x
      BY <1>1, <3>1, LenProperties, AppendProperties DEF Scoped
    <3>3. 1..(Len(es) + 1) = 1..Len(es) \cup {Len(es) + 1} /\ Len(es) + 1 \notin 1..Len(es)
      BY <3>2
    <3>4. /\ \A o \in ObjectsOf(fs) : o \notin ObjectsOf(es) => o = Len(es) + 1
          /\ \A c : c \in ClassesOf(fs) <=> c \in ClassesOf(es)
          /\ \A e \in ObjectsOf(es) \cup ClassesOf(es) : fs[e] = es[e]
      BY <3>1, <3>2, <3>3, ZenonT(30) DEF ObjectsOf, ClassesOf
    <3>5. ClassesOf(fs) = ClassesOf(es) BY <3>4
    <3>6. Owned(fs, own)
      <4>1. Len(own) \in Nat /\ Len(own) <= Len(es) BY <1>1, LenProperties DEF Owned
      <4>2. Len(own) <= Len(fs) BY <3>2, <4>1
      <4>3. QED BY <1>1, <3>5, <4>2 DEF Owned
    <3>7. QED BY <3>1, <3>2, <3>4, <3>5, <3>6
  <2>3. QED BY <1>3, <2>1, <2>2
<1>11. ~NestedClasses => Classed(tc, ut, fs, own, F, G)
  <2> SUFFICES ASSUME ~NestedClasses PROVE Classed(tc, ut, fs, own, F, G) OBVIOUS
  <2>1. Classed(sc, st, es, own, E, H) BY <1>1
  <2>2. \A c, d \in ClassesOf(fs) : fs[c].name = fs[d].name => c = d
    BY <1>17, <2>1 DEF Classed
  <2>3. ASSUME NEW i \in 1..Len(ut), NEW o \in ObjectsOf(fs), NEW c \in ClassesOf(fs),
               G[fs[o].scope] \in F[ut[i]]
        PROVE  fs[o].name # fs[c].name
    <3>1. CASE o \in ObjectsOf(es)
      <4>1. fs[o] = es[o] /\ fs[c] = es[c] /\ c \in ClassesOf(es) BY <1>17, <3>1
      <4>2. PICK k \in 1..Len(st) : H[es[o].scope] \in E[st[k]]
        BY <1>15, <2>3, <3>1, <4>1
      <4>3. QED BY <2>1, <3>1, <4>1, <4>2 DEF Classed
    <3>2. CASE o \notin ObjectsOf(es) BY <1>17, <3>2
    <3>3. QED BY <3>1, <3>2
  <2>4. QED BY <1>16, <2>2, <2>3 DEF Classed
<1>12. Counted(tc, ut, fs, own, F, G, L) BY <1>2, <1>4, <1>11 DEF Counted
<1>13. Ordered(tc, ut, fs, own) BY <1>2, <1>12, <1>17 DEF Ordered
<1>14. QED BY <1>13 DEF tc, ut

LEMMA OrderedParameter ==
    ASSUME NEW sc, NEW st, NEW es, NEW own, Ordered(sc, st, es, own),
           NEW E, NEW H, NEW K, Counted(sc, st, es, own, E, H, K),
           NEW new \in Scope, new.kind # "program", new.kind # "supershell",
           new.parent \in Range(st),
           new.parent_visible_object_count_at_creation = K[new.parent],
           new.program_visible_class_count_at_creation + 1 >= Len(own),
           NEW n, n = Len(sc) + 1,
           NEW x \in Entity, x.class # 0, x.scope = n,
           \A o \in ObjectsOf(es) : H[es[o].scope] \in E[new.parent] => es[o].name # x.name,
           \A c \in ClassesOf(es) : es[c].name # x.name,
           new.local_objects = <<Len(es) + 1>>
    PROVE  Ordered(Append(sc, new), Append(st, n), Append(es, x), own)
<1> DEFINE fs == Append(es, x)
<1>1. \E y \in Entity :
         /\ y.class # 0 /\ y.scope = n
         /\ \A o \in ObjectsOf(es) : H[es[o].scope] \in E[new.parent] => es[o].name # y.name
         /\ \A c \in ClassesOf(es) : es[c].name # y.name
         /\ new.local_objects = <<Len(es) + 1>> /\ fs = Append(es, y)
  OBVIOUS
<1> HIDE DEF fs
<1>2. Ordered(Append(sc, new), Append(st, n), fs, own) BY <1>1, OrderedOpened
<1>3. QED BY <1>2 DEF fs

\* Another object.
LEMMA OrderedGrown ==
    ASSUME NEW sc, NEW st, NEW es, NEW own, Ordered(sc, st, es, own),
           NEW E, NEW H, NEW K, Counted(sc, st, es, own, E, H, K),
           NEW top, top = st[Len(st)], Len(es) + 1 \in EntityId,
           NEW x \in Entity, x.class # 0, x.scope = top,
           \A o \in ObjectsOf(es) : H[es[o].scope] \in E[top] => es[o].name # x.name,
           ~NestedClasses => \A c \in ClassesOf(es) : es[c].name # x.name
    PROVE  Ordered(Grow(sc, top, <<Len(es) + 1>>), st, Append(es, x), own)
<1> DEFINE more == <<Len(es) + 1>>
           tc == Grow(sc, top, more)
           fs == Append(es, x)
           L == GrowKnown(sc, E, K, top, more)
<1>1. /\ Tree(sc) /\ Stacked(sc, st) /\ Owned(es, own)
      /\ IsEnclosing(E, sc) /\ IsHolder(H, sc, st) /\ IsKnown(K, sc)
      /\ Scoped(sc, st, es, E, H, K) /\ (~NestedClasses => Classed(sc, st, es, own, E, H))
  BY DEF Ordered, Counted
<1>2. top \in 1..Len(sc) /\ more \in Seq(EntityId)
      /\ \A i \in 1..Len(st) : st[i] \in 1..Len(sc)
  BY <1>1, StackFacts
<1>3. /\ Tree(tc) /\ Stacked(tc, st)
      /\ IsEnclosing(E, tc) /\ IsHolder(H, tc, st) /\ IsKnown(L, tc)
      /\ \A s \in 1..Len(sc) : Alike(tc[s], sc[s])
  <2> HIDE DEF more
  <2>1. QED BY <1>1, <1>2, Grown
<1>4. Scoped(tc, st, fs, E, H, L) BY <1>1, GrownScoped
<1> HIDE DEF tc, L, more
<1>5. /\ es \in Seq(Entity) /\ DOMAIN es = 1..Len(es) /\ Len(es) \in Nat
      /\ DOMAIN fs = 1..(Len(es) + 1) /\ Len(fs) = Len(es) + 1
      /\ \A i \in 1..Len(es) : fs[i] = es[i]
      /\ fs[Len(es) + 1] = x
  BY <1>1, LenProperties, AppendProperties DEF Scoped
<1> HIDE DEF fs
<1>6. 1..(Len(es) + 1) = 1..Len(es) \cup {Len(es) + 1} /\ Len(es) + 1 \notin 1..Len(es)
  BY <1>5
<1>7. /\ \A o \in ObjectsOf(fs) : o \in ObjectsOf(es) \/ o = Len(es) + 1
      /\ \A c : c \in ClassesOf(fs) <=> c \in ClassesOf(es)
      /\ \A e \in ObjectsOf(es) \cup ClassesOf(es) : fs[e] = es[e]
  BY <1>5, <1>6 DEF ObjectsOf, ClassesOf
<1>8. ClassesOf(fs) = ClassesOf(es) BY <1>7
<1>9. Owned(fs, own)
  <2>1. Len(own) \in Nat /\ Len(own) <= Len(es) BY <1>1, LenProperties DEF Owned
  <2>2. Len(own) <= Len(fs) BY <1>5, <2>1
  <2>3. QED BY <1>1, <1>8, <2>2 DEF Owned
<1>10. ~NestedClasses => Classed(tc, st, fs, own, E, H)
  <2> SUFFICES ASSUME ~NestedClasses PROVE Classed(tc, st, fs, own, E, H) OBVIOUS
  <2>1. Classed(sc, st, es, own, E, H) BY <1>1
  <2>2. \A c, d \in ClassesOf(fs) : fs[c].name = fs[d].name => c = d
    BY <1>7, <2>1 DEF Classed
  <2>3. ASSUME NEW i \in 1..Len(st), NEW o \in ObjectsOf(fs), NEW c \in ClassesOf(fs),
               H[fs[o].scope] \in E[st[i]]
        PROVE  fs[o].name # fs[c].name
    <3>1. CASE o \in ObjectsOf(es) BY <1>7, <2>1, <2>3, <3>1 DEF Classed
    <3>2. CASE o = Len(es) + 1 BY <1>5, <1>7, <3>2
    <3>3. QED BY <1>7, <3>1, <3>2
  <2>4. \A i \in 1..Len(st) :
           i # 1 => tc[st[i]].program_visible_class_count_at_creation + 1 >= Len(own)
    BY <1>2, <1>3, <2>1 DEF Classed, Alike
  <2>5. QED BY <2>2, <2>3, <2>4 DEF Classed
<1>11. Counted(tc, st, fs, own, E, H, L) BY <1>3, <1>4, <1>10 DEF Counted
<1>12. QED BY <1>3, <1>9, <1>11 DEF Ordered, tc, fs, more

\* One scope less.
LEMMA OrderedClosed ==
    ASSUME NEW sc, NEW st, NEW es, NEW own, Ordered(sc, st, es, own), Len(st) >= 2,
           NEW top, top = st[Len(st)], NEW down, down = Len(st) - 1,
           NEW tc,
           tc = IF sc[top].kind = "supershell"
                THEN Grow(sc, sc[top].parent, sc[top].local_objects) ELSE sc
    PROVE  Ordered(tc, SubSeq(st, 1, down), es, own)
<1> DEFINE ut == SubSeq(st, 1, down)
           p == sc[top].parent
           more == sc[top].local_objects
<1>1. PICK E, H, K : Counted(sc, st, es, own, E, H, K) BY DEF Ordered
<1> DEFINE G == CloseHolder(sc, H, top)
           L == IF sc[top].kind = "supershell" THEN GrowKnown(sc, E, K, p, more) ELSE K
<1>2. /\ Tree(sc) /\ Stacked(sc, st) /\ Owned(es, own)
      /\ IsEnclosing(E, sc) /\ IsHolder(H, sc, st) /\ IsKnown(K, sc)
      /\ Scoped(sc, st, es, E, H, K) /\ (~NestedClasses => Classed(sc, st, es, own, E, H))
  BY <1>1 DEF Ordered, Counted
<1>3. /\ Stacked(sc, ut) /\ Len(ut) = down /\ \A i \in 1..down : ut[i] = st[i]
      /\ IsHolder(G, sc, ut)
  BY <1>2, Closed
<1>4. /\ Len(st) \in Nat /\ Len(st) \in 2..Len(st) /\ Len(st) \in 1..Len(st)
      /\ Len(st) - 1 = down /\ \A i \in 1..down : i \in 1..Len(st)
      /\ down \in 1..Len(st)
      /\ top \in 1..Len(sc) /\ \A i \in 1..Len(st) : st[i] \in 1..Len(sc)
  BY <1>2, StackFacts
<1> HIDE DEF G, L, ut, p, more
<1>5. /\ Tree(tc) /\ Stacked(tc, ut)
      /\ IsEnclosing(E, tc) /\ IsHolder(G, tc, ut) /\ IsKnown(L, tc)
      /\ \A s \in 1..Len(sc) : Alike(tc[s], sc[s])
      /\ Scoped(tc, ut, es, E, G, L)
  <2>1. CASE sc[top].kind = "supershell"
    <3>1. p \in 1..Len(sc) /\ more \in Seq(EntityId)
      BY <1>2, <1>4, TreeFacts DEF Scope, p, more
    <3>2. tc = Grow(sc, p, more) /\ L = GrowKnown(sc, E, K, p, more)
      BY <2>1 DEF L, p, more
    <3>3. /\ Tree(tc) /\ Stacked(tc, ut)
          /\ IsEnclosing(E, tc) /\ IsHolder(G, tc, ut) /\ IsKnown(L, tc)
          /\ \A s \in 1..Len(sc) : Alike(tc[s], sc[s])
      BY <1>2, <1>3, <3>1, <3>2, Grown
    <3>4. Scoped(tc, ut, es, E, G, L)
      BY <1>2, <2>1, <3>2, AdoptedScoped DEF p, more, ut, G
    <3>5. QED BY <3>3, <3>4
  <2>2. CASE sc[top].kind # "supershell"
    <3>1. tc = sc /\ L = K BY <2>2 DEF L
    <3>2. Scoped(sc, ut, es, E, G, K) BY <1>2, <2>2, ClosedScoped DEF ut, G
    <3>3. \A s \in 1..Len(sc) : Alike(sc[s], sc[s]) BY DEF Alike
    <3>4. QED BY <1>2, <1>3, <3>1, <3>2, <3>3
  <2>3. QED BY <2>1, <2>2
<1>6. \A i \in 1..down, o \in ObjectsOf(es) :
         G[es[o].scope] \in E[st[i]] => \E k \in 1..Len(st) : H[es[o].scope] \in E[st[k]]
  <2> SUFFICES ASSUME NEW i \in 1..down, NEW o \in ObjectsOf(es), G[es[o].scope] \in E[st[i]]
               PROVE  \E k \in 1..Len(st) : H[es[o].scope] \in E[st[k]]
    OBVIOUS
  <2>1. es[o].scope \in 1..Len(sc) BY <1>2 DEF Scoped
  <2>2. G[es[o].scope] = H[es[o].scope] \/ H[es[o].scope] = top
    BY <2>1 DEF G, CloseHolder
  <2>3. top \in E[top] BY <1>2, <1>4, EnclosingFacts
  <2>4. QED BY <1>4, <2>2, <2>3
<1>7. ~NestedClasses => Classed(tc, ut, es, own, E, G)
  <2> SUFFICES ASSUME ~NestedClasses PROVE Classed(tc, ut, es, own, E, G) OBVIOUS
  <2>1. Classed(sc, st, es, own, E, H) BY <1>2
  <2>2. \A i \in 1..Len(ut) : \A o \in ObjectsOf(es), c \in ClassesOf(es) :
           G[es[o].scope] \in E[ut[i]] => es[o].name # es[c].name
    BY <1>3, <1>6, <2>1 DEF Classed
  <2>3. \A i \in 1..Len(ut) :
           i # 1 => tc[ut[i]].program_visible_class_count_at_creation + 1 >= Len(own)
    <3> SUFFICES ASSUME NEW i \in 1..Len(ut), i # 1
                 PROVE  tc[ut[i]].program_visible_class_count_at_creation + 1 >= Len(own)
      OBVIOUS
    <3>1. ut[i] = st[i] /\ i \in 1..Len(st) /\ st[i] \in 1..Len(sc) BY <1>3, <1>4
    <3>2. sc[st[i]].program_visible_class_count_at_creation + 1 >= Len(own)
      BY <2>1, <3>1 DEF Classed
    <3>3. Alike(tc[st[i]], sc[st[i]]) BY <1>5, <3>1
    <3>4. QED BY <3>1, <3>2, <3>3 DEF Alike
  <2>4. QED BY <2>1, <2>2, <2>3 DEF Classed
<1>8. Counted(tc, ut, es, own, E, G, L) BY <1>5, <1>7 DEF Counted
<1>9. QED BY <1>2, <1>5, <1>8 DEF Ordered, ut

--------------------------------------------------------------------------------
(* The compiler's questions. *)

Placed(sc, es, at) ==
    /\ at \in Position /\ Len(sc) <= MaxScopes /\ Len(es) <= at
    /\ \A s \in 1..Len(sc) : sc[s].low <= at
    /\ \A e \in 1..Len(es) : es[e].class <= Len(es) /\ es[e].scope \in 1..Len(sc)

Marks(map, tokens, sc, es) ==
    /\ map \subseteq [low : Position, high : Position, entity : 1..Len(sc)]
    /\ \A m \in map : m.low < m.high
    /\ tokens \subseteq [at : Position, scope : 1..Len(sc), token : Tokens, name : Names,
                         means : 1..Len(es)]

IInv ==
    /\ Ordered(scopes, stack, entities, owned_classes)
    /\ Placed(scopes, entities, here)
    /\ Marks(entity_map, occurrences, scopes, entities)

CountedNow(E, H, K) == Counted(scopes, stack, entities, owned_classes, E, H, K)

LEMMA KnownObjects ==
    ASSUME Tree(scopes), NEW K, IsKnown(K, scopes), NEW s \in 1..Len(scopes)
    PROVE  number_of_known_objects(s) = K[s]
<1> DEFINE F == CHOOSE f : IsKnown(f, scopes)
<1>1. IsKnown(F, scopes) OBVIOUS
<1>2. F = K
  <2> HIDE DEF F
  <2>1. QED BY <1>1, KnownUnique
<1>3. number_of_known_objects(s) = F[s] BY DEF number_of_known_objects, IsKnown
<1>4. QED BY <1>2, <1>3

Meant(E, H, n, s) ==
    {o \in ObjectsOf(entities) : entities[o].name = n /\ H[entities[o].scope] \in E[s]}

\* In an open scope get_object finds what is declared there and around it.
LEMMA ObjectsSeen ==
    ASSUME IInv, NEW E, NEW H, NEW K, CountedNow(E, H, K), NEW n, NEW i \in 1..Len(stack)
    PROVE  get_object(stack[i], n) = Meant(E, H, n, stack[i])
<1>1. /\ Tree(scopes) /\ Stacked(scopes, stack)
      /\ IsEnclosing(E, scopes) /\ IsHolder(H, scopes, stack) /\ IsKnown(K, scopes)
      /\ Scoped(scopes, stack, entities, E, H, K)
  BY DEF IInv, Ordered, CountedNow, Counted
<1> DEFINE F == CHOOSE f : IsFrom(f, scopes, entities, n)
<1>2. IsFrom(F, scopes, entities, n)
  <2>1. \E f : IsFrom(f, scopes, entities, n) BY <1>1, FromExists
  <2>2. QED BY <2>1
<1>3. get_object(stack[i], n) = F[stack[i]][SIZE_MAX]
  BY DEF get_object, find, IsFrom, Named
<1> HIDE DEF F
<1>4. SIZE_MAX \in 0..SIZE_MAX BY SymbolsAssumption DEF SIZE_MAX
<1>5. SIZE_MAX >= Len(scopes[stack[i]].local_objects)
  <2>1. stack[i] \in 1..Len(scopes) BY <1>1, StackFacts
  <2>2. K[stack[i]] <= Len(entities) BY <1>1 DEF Scoped, Accounted
  <2>3. Len(entities) <= here /\ here \in 0..MaxHere /\ Len(entities) \in Nat
    BY <1>1, LenProperties DEF IInv, Placed, Position, Scoped
  <2>4. /\ Len(scopes[stack[i]].local_objects) <= K[stack[i]] /\ K[stack[i]] \in Nat
        /\ Len(scopes[stack[i]].local_objects) \in Nat
    BY <1>1, <2>1, KnownFacts
  <2>5. QED BY <2>2, <2>3, <2>4, SymbolsAssumption DEF SIZE_MAX
<1>6. QED BY <1>1, <1>2, <1>3, <1>4, <1>5, FromFinds DEF Meant

LEMMA ObjectsNotSeen ==
    ASSUME IInv, NEW E, NEW H, NEW K, CountedNow(E, H, K), NEW n, NEW i \in 1..Len(stack)
    PROVE  get_object(stack[i], n) = {} =>
              \A o \in ObjectsOf(entities) :
                 H[entities[o].scope] \in E[stack[i]] => entities[o].name # n
<1>1. get_object(stack[i], n) = Meant(E, H, n, stack[i]) BY ObjectsSeen
<1>2. QED BY <1>1 DEF Meant

\* What get_class finds has the name.
LEMMA ClassesSeen ==
    ASSUME IInv, NEW n, NEW s \in 1..Len(scopes)
    PROVE  /\ get_class(s, n) \subseteq {c \in ClassesOf(entities) : entities[c].name = n}
           /\ s = Program \/ scopes[s].program_visible_class_count_at_creation + 1 >= Len(owned_classes)
                 => {c \in ClassesOf(entities) : entities[c].name = n} \subseteq get_class(s, n)
<1> DEFINE visible == IF s = Program THEN SIZE_MAX
                      ELSE scopes[s].program_visible_class_count_at_creation
<1>1. Owned(entities, owned_classes) BY DEF IInv, Ordered
<1>2. /\ DOMAIN owned_classes = 1..Len(owned_classes) /\ Len(owned_classes) \in Nat
      /\ Range(owned_classes) = {owned_classes[j] : j \in 1..Len(owned_classes)}
      /\ Range(owned_classes) = ClassesOf(entities)
  BY <1>1, LenProperties DEF Owned, Range
<1>3. get_class(s, n) = {owned_classes[j] : j \in {k \in 1..Len(owned_classes) :
                            entities[owned_classes[k]].name = n /\ k - 1 <= visible}}
  BY <1>2 DEF get_class, find
<1>4. get_class(s, n) \subseteq {c \in ClassesOf(entities) : entities[c].name = n}
  BY <1>2, <1>3
<1>5. ASSUME s = Program \/ scopes[s].program_visible_class_count_at_creation + 1 >= Len(owned_classes)
      PROVE  {c \in ClassesOf(entities) : entities[c].name = n} \subseteq get_class(s, n)
  <2>1. \A k \in 1..Len(owned_classes) : k - 1 <= visible
    <3>1. Len(owned_classes) <= MaxHere
      <4>1. Len(entities) <= here /\ here \in 0..MaxHere /\ Len(entities) \in Nat
        BY LenProperties DEF IInv, Placed, Position, Ordered, Counted, Scoped
      <4>2. QED BY <1>1, <1>2, <4>1, SymbolsAssumption DEF Owned
    <3>2. CASE s = Program BY <1>2, <3>1, <3>2, SymbolsAssumption DEF SIZE_MAX
    <3>3. CASE s # Program
      <4>1. scopes[s].program_visible_class_count_at_creation \in Nat
        BY TreeFacts, SymbolsAssumption DEF IInv, Ordered, Scope, SIZE_MAX
      <4>2. QED BY <1>2, <1>5, <3>3, <4>1
    <3>4. QED BY <3>2, <3>3
  <2> HIDE DEF visible
  <2>2. QED BY <1>2, <1>3, <2>1
<1>6. QED BY <1>4, <1>5

--------------------------------------------------------------------------------
(* What the invariant means for the program. *)

LEMMA SeqOf ==
    ASSUME NEW A, NEW B, NEW list \in Seq(A), \A i \in 1..Len(list) : list[i] \in B
    PROVE  list \in Seq(B)
<1>1. Len(list) \in Nat /\ list = [i \in 1..Len(list) |-> list[i]] BY LenProperties
<1>2. list \in [1..Len(list) -> B] BY <1>1
<1>3. QED BY <1>1, <1>2, SeqDef

LEMMA InvTypes ==
    ASSUME IInv PROVE TypeOK
<1>1. /\ Tree(scopes) /\ Stacked(scopes, stack) /\ Owned(entities, owned_classes)
      /\ entities \in Seq(Entity)
  BY DEF IInv, Ordered, Counted, Scoped
<1>2. /\ DOMAIN scopes = 1..Len(scopes) /\ DOMAIN entities = 1..Len(entities)
      /\ \A e \in 1..Len(entities) : entities[e] \in Entity
  BY <1>1, TreeFacts, LenProperties
<1>3. scopes \in Seq([kind : Kinds, parent : ScopeId, low : Position, local_objects : Seq(EntityId),
                      parent_visible_object_count_at_creation : 0 .. SIZE_MAX,
                      program_visible_class_count_at_creation : 0 .. SIZE_MAX])
  BY <1>1 DEF Tree, Scope
<1>4. stack \in Seq(DOMAIN scopes) BY <1>1, <1>2 DEF Stacked
<1>5. entities \in Seq([name : Names, class : {0} \cup DOMAIN entities, scope : DOMAIN scopes,
                        references : Seq(Position)])
  <2> DEFINE B == [name : Names, class : {0} \cup DOMAIN entities, scope : DOMAIN scopes,
                   references : Seq(Position)]
  <2>1. ASSUME NEW e \in 1..Len(entities) PROVE entities[e] \in B
    <3>1. entities[e] \in Entity BY <1>2
    <3>2. entities[e].class <= Len(entities) /\ entities[e].scope \in 1..Len(scopes)
      BY DEF IInv, Placed
    <3>3. entities[e].class \in {0} \cup 1..Len(entities)
      <4>1. entities[e].class \in Nat BY <3>1 DEF Entity
      <4>2. Len(entities) \in Nat BY <1>1, LenProperties
      <4>3. QED BY <3>2, <4>1, <4>2
    <3>4. QED BY <1>2, <3>1, <3>2, <3>3 DEF Entity
  <2> HIDE DEF B
  <2>2. entities \in Seq(B) BY <1>1, <2>1, SeqOf
  <2>3. QED BY <2>2 DEF B
<1>6. owned_classes \in Seq(DOMAIN entities)
  <2>1. owned_classes \in Seq(ClassesOf(entities)) BY <1>1 DEF Owned
  <2>2. ClassesOf(entities) \subseteq DOMAIN entities BY DEF ClassesOf
  <2>3. QED BY <2>1, <2>2, SeqMonotonic
<1>7. /\ entity_map \subseteq [low : Position, high : Position, entity : DOMAIN scopes]
      /\ \A m \in entity_map : m.low < m.high
      /\ occurrences \subseteq [at : Position, scope : DOMAIN scopes, token : Tokens, name : Names,
                                means : DOMAIN entities]
      /\ here \in Position
  BY <1>2 DEF IInv, Marks, Placed
<1>8. QED BY <1>3, <1>4, <1>5, <1>6, <1>7 DEF TypeOK

\* The model's own functions are those the invariant speaks of.
LEMMA OwnFunctions ==
    ASSUME IInv, NEW E, NEW H, NEW K, CountedNow(E, H, K)
    PROVE  E = Enclosing /\ H = Holder
<1>1. Tree(scopes) /\ IsEnclosing(E, scopes) /\ IsHolder(H, scopes, stack)
  BY DEF IInv, Ordered, CountedNow, Counted
<1>2. IsEnclosing(Enclosing, scopes)
  <2>1. Enclosing = CHOOSE f : IsEnclosing(f, scopes) BY DEF Enclosing, IsEnclosing
  <2>2. QED BY <1>1, <2>1
<1>3. IsHolder(Holder, scopes, stack)
  <2>1. Holder = CHOOSE f : IsHolder(f, scopes, stack) BY DEF Holder, IsHolder
  <2>2. QED BY <1>1, <2>1
<1>4. QED BY <1>1, <1>2, <1>3, EnclosingUnique, HolderUnique

LEMMA InvFindsObjects ==
    ASSUME IInv, NEW n
    PROVE  get_object(Top, n) = {o \in Objects : /\ entities[o].name = n
                                                 /\ Holder[entities[o].scope] \in Enclosing[Top]}
<1>1. PICK E, H, K : CountedNow(E, H, K) BY DEF IInv, Ordered, CountedNow
<1>2. E = Enclosing /\ H = Holder BY <1>1, OwnFunctions
<1>3. Len(stack) \in 1..Len(stack) BY StackFacts DEF IInv, Ordered
<1>4. Objects = ObjectsOf(entities) BY DEF Objects, ObjectsOf
<1>5. get_object(stack[Len(stack)], n) = Meant(E, H, n, stack[Len(stack)])
  BY <1>1, <1>3, ObjectsSeen
<1>6. QED BY <1>2, <1>4, <1>5 DEF Top, Meant

LEMMA AtMostOne ==
    ASSUME NEW S, \A x, y \in S : x = y
    PROVE  Cardinality(S) <= 1
<1>1. CASE S = {} BY <1>1, FS_EmptySet
<1>2. CASE S # {}
  <2>1. PICK x : x \in S BY <1>2
  <2>2. S = {x} BY <2>1
  <2>3. QED BY <2>2, FS_Singleton
<1>3. QED BY <1>1, <1>2

LEMMA InvFinds ==
    ASSUME IInv, ~NestedClasses PROVE LeftOrUp
<1> SUFFICES ASSUME NEW n \in Names
             PROVE  /\ get_object(Top, n) = {o \in Objects : /\ entities[o].name = n
                                                 /\ Holder[entities[o].scope] \in Enclosing[Top]}
                    /\ get_class(Top, n) = {c \in Classes : entities[c].name = n}
                    /\ Cardinality(get_object(Top, n) \cup get_class(Top, n)) <= 1
  BY DEF LeftOrUp
<1>1. PICK E, H, K : CountedNow(E, H, K) BY DEF IInv, Ordered, CountedNow
<1>2. E = Enclosing /\ H = Holder BY <1>1, OwnFunctions
<1>3. Tree(scopes) /\ Stacked(scopes, stack) BY DEF IInv, Ordered
<1>4. /\ Len(stack) \in 1..Len(stack) /\ Top \in 1..Len(scopes)
      /\ Len(stack) = 1 => Top = Program
  BY <1>3, StackFacts DEF Top, Stacked, Program
<1>5. /\ Classed(scopes, stack, entities, owned_classes, E, H)
      /\ Scoped(scopes, stack, entities, E, H, K)
  BY <1>1 DEF CountedNow, Counted
<1>6. get_object(Top, n) = {o \in Objects : /\ entities[o].name = n
                                            /\ Holder[entities[o].scope] \in Enclosing[Top]}
  BY InvFindsObjects
<1>7. get_class(Top, n) = {c \in Classes : entities[c].name = n}
  <2>1. Top = Program \/ scopes[Top].program_visible_class_count_at_creation + 1 >= Len(owned_classes)
    BY <1>4, <1>5 DEF Classed, Top
  <2>2. ClassesOf(entities) = Classes BY DEF ClassesOf, Classes, ObjectsOf, Objects
  <2>3. QED BY <1>4, <2>1, <2>2, ClassesSeen
<1>8. Objects = ObjectsOf(entities) /\ Classes = ClassesOf(entities)
  BY DEF ClassesOf, Classes, ObjectsOf, Objects
<1>9. \A x, y \in get_object(Top, n) \cup get_class(Top, n) : x = y
  <2>1. \A x, y \in get_object(Top, n) : x = y
    <3>1. Distinct(entities, H, E[Top]) BY <1>4, <1>5 DEF Scoped, Accounted, Top
    <3>2. QED BY <1>2, <1>6, <1>8, <3>1 DEF Distinct
  <2>2. \A x, y \in get_class(Top, n) : x = y BY <1>5, <1>7, <1>8 DEF Classed
  <2>3. \A x \in get_object(Top, n), y \in get_class(Top, n) : FALSE
    BY <1>2, <1>4, <1>5, <1>6, <1>7, <1>8 DEF Classed, Top
  <2>4. QED BY <2>1, <2>2, <2>3
<1>10. QED BY <1>6, <1>7, <1>9, AtMostOne

--------------------------------------------------------------------------------
(* Every token keeps the invariant. *)

LEMMA Elements ==
    /\ \A sc \in Seq(Scope) : \A s \in 1..Len(sc) : sc[s] \in Scope /\ sc[s].low \in Nat
    /\ \A es \in Seq(Entity) : \A e \in 1..Len(es) : es[e] \in Entity /\ es[e].class \in Nat
<1>1. \A x \in Scope : x.low \in Nat BY SymbolsAssumption DEF Scope, Position
<1>2. \A x \in Entity : x.class \in Nat BY DEF Entity
<1>3. \A sc \in Seq(Scope) : \A s \in 1..Len(sc) : sc[s] \in Scope BY ElementOfSeq
<1>4. \A es \in Seq(Entity) : \A e \in 1..Len(es) : es[e] \in Entity BY ElementOfSeq
<1>5. QED BY <1>1, <1>2, <1>3, <1>4

LEMMA PlacedOpened ==
    ASSUME NEW sc \in Seq(Scope), NEW es, NEW at, Placed(sc, es, at), NEW new \in Scope,
           Len(es) \in Nat, Len(sc) < MaxScopes, NEW to \in Position, at <= to, new.low <= to
    PROVE  Placed(Append(sc, new), es, to)
<1> DEFINE tc == Append(sc, new)
<1>1. /\ Len(tc) = Len(sc) + 1 /\ Len(sc) \in Nat
      /\ \A i \in 1..Len(sc) : tc[i] = sc[i]
      /\ tc[Len(sc) + 1] = new
      /\ \A i \in 1..(Len(sc) + 1) : i \in 1..Len(sc) \/ i = Len(sc) + 1
  BY AppendFacts
<1>2. at \in Nat /\ to \in Nat /\ MaxScopes \in Nat
  BY SymbolsAssumption DEF Placed, Position
<1> HIDE DEF tc
<1>3. Len(tc) <= MaxScopes BY <1>1, <1>2
<1>4. Len(es) <= to BY <1>2 DEF Placed
<1>5. \A s \in 1..Len(sc) : sc[s].low <= to
  <2>1. \A s \in 1..Len(sc) : sc[s].low \in Nat
    BY Elements
  <2>2. QED BY <1>2, <2>1 DEF Placed
<1>6. \A s \in 1..Len(tc) : tc[s].low <= to BY <1>1, <1>5
<1>7. \A k \in 1..Len(sc) : k \in 1..Len(tc) BY <1>1
<1>8. QED BY <1>3, <1>4, <1>6, <1>7 DEF Placed, tc

LEMMA PlacedMore ==
    ASSUME NEW sc \in Seq(Scope), NEW es \in Seq(Entity), NEW at, Placed(sc, es, at),
           NEW x \in Entity, x.class <= Len(es) + 1, x.scope \in 1..Len(sc),
           NEW to \in Position, at <= to, Len(es) + 1 <= to
    PROVE  Placed(sc, Append(es, x), to)
<1> DEFINE fs == Append(es, x)
<1>1. /\ Len(fs) = Len(es) + 1 /\ Len(es) \in Nat
      /\ \A i \in 1..Len(es) : fs[i] = es[i]
      /\ fs[Len(es) + 1] = x
      /\ \A i \in 1..(Len(es) + 1) : i \in 1..Len(es) \/ i = Len(es) + 1
  BY AppendFacts
<1>2. at \in Nat /\ to \in Nat BY SymbolsAssumption DEF Placed, Position
<1> HIDE DEF fs
<1>3. \A s \in 1..Len(sc) : sc[s].low <= to
  <2>1. \A s \in 1..Len(sc) : sc[s].low \in Nat
    BY Elements
  <2>2. QED BY <1>2, <2>1 DEF Placed
<1>4. ASSUME NEW e \in 1..Len(fs) PROVE fs[e].class <= Len(fs) /\ fs[e].scope \in 1..Len(sc)
  <2>1. CASE e \in 1..Len(es)
    <3>1. es[e].class <= Len(es) /\ es[e].scope \in 1..Len(sc) BY <2>1 DEF Placed
    <3>2. es[e].class \in Nat BY <2>1, Elements
    <3>3. QED BY <1>1, <2>1, <3>1, <3>2
  <2>2. CASE e = Len(es) + 1 BY <1>1, <2>2
  <2>3. QED BY <1>1, <2>1, <2>2
<1>5. QED BY <1>1, <1>3, <1>4 DEF Placed, fs

\* The same but for references and objects, later.
LEMMA PlacedAlike ==
    ASSUME NEW sc \in Seq(Scope), NEW es, NEW at, Placed(sc, es, at), NEW tc, NEW fs,
           Len(es) \in Nat, Len(tc) = Len(sc), \A s \in 1..Len(sc) : Alike(tc[s], sc[s]),
           Likewise(es, fs), NEW to \in Position, at <= to
    PROVE  Placed(tc, fs, to)
<1>1. at \in Nat /\ to \in Nat BY SymbolsAssumption DEF Placed, Position
<1>2. \A s \in 1..Len(sc) : tc[s].low <= to
  <2>1. \A s \in 1..Len(sc) : sc[s].low \in Nat
    BY Elements
  <2>2. \A s \in 1..Len(sc) : tc[s].low = sc[s].low BY DEF Alike
  <2>3. QED BY <1>1, <2>1, <2>2 DEF Placed
<1>3. Len(fs) <= to BY <1>1 DEF Placed, Likewise
<1>4. QED BY <1>2, <1>3 DEF Placed, Likewise

LEMMA MarksMore ==
    ASSUME NEW map, NEW tokens, NEW sc, NEW es, Marks(map, tokens, sc, es), NEW tc, NEW fs,
           Len(sc) \in Nat, Len(tc) \in Nat, Len(sc) <= Len(tc),
           Len(es) \in Nat, Len(fs) \in Nat, Len(es) <= Len(fs),
           NEW marks, NEW fresh, Marks(marks, fresh, tc, fs)
    PROVE  Marks(map \cup marks, tokens \cup fresh, tc, fs)
<1>1. 1..Len(sc) \subseteq 1..Len(tc) /\ 1..Len(es) \subseteq 1..Len(fs) OBVIOUS
<1>2. map \subseteq [low : Position, high : Position, entity : 1..Len(tc)]
  BY <1>1 DEF Marks
<1>3. tokens \subseteq [at : Position, scope : 1..Len(tc), token : Tokens, name : Names,
                       means : 1..Len(fs)]
  BY <1>1 DEF Marks
<1>4. QED BY <1>2, <1>3 DEF Marks

LEMMA ReferenceAdded ==
    ASSUME NEW es \in Seq(Entity), NEW e \in 1..Len(es), NEW at \in Position
    PROVE  add_reference(es, e, at) \in Seq(Entity) /\ Likewise(es, add_reference(es, e, at))
<1> DEFINE list == Append(es[e].references, at)
           x == [es[e] EXCEPT !.references = list]
<1>1. es[e] \in Entity BY ElementOfSeq
<1>2. list \in Seq(Position) BY <1>1, AppendProperties DEF Entity
<1> HIDE DEF list
<1>3. x \in Entity /\ x.name = es[e].name /\ x.class = es[e].class /\ x.scope = es[e].scope
  BY <1>1, <1>2 DEF Entity
<1>4. add_reference(es, e, at) = [es EXCEPT ![e] = x] BY DEF add_reference, list
<1> HIDE DEF x
<1>5. /\ [es EXCEPT ![e] = x] \in Seq(Entity) /\ Len([es EXCEPT ![e] = x]) = Len(es)
      /\ \A i \in 1..Len(es) : [es EXCEPT ![e] = x][i] = IF i = e THEN x ELSE es[i]
  BY <1>3, ExceptSeq
<1>6. QED BY <1>3, <1>4, <1>5 DEF Likewise

LEMMA ReferenceMarks ==
    ASSUME NEW at \in Position, NEW sc, NEW s \in 1..Len(sc), NEW token \in Tokens, NEW n \in Names,
           NEW es, NEW e \in 1..Len(es)
    PROVE  Marks({}, {Token(at, s, token, n, e)}, sc, es)
BY DEF Marks, Token

\* What is known when a token is read.
LEMMA Known ==
    ASSUME IInv
    PROVE  /\ Tree(scopes) /\ Stacked(scopes, stack) /\ Owned(entities, owned_classes)
           /\ scopes \in Seq(Scope) /\ Len(scopes) \in Nat
           /\ entities \in Seq(Entity) /\ Len(entities) \in Nat /\ DOMAIN entities = 1..Len(entities)
           /\ here \in Nat /\ here <= MaxHere /\ MaxHere \in Nat /\ Len(entities) <= here
           /\ Len(owned_classes) \in Nat /\ Len(owned_classes) <= Len(entities)
           /\ Top \in 1..Len(scopes) /\ Top \in Range(stack) /\ Program \in Range(stack)
           /\ 1 \in 1..Len(stack) /\ stack[1] = Program
           /\ Len(stack) \in Nat /\ Len(stack) >= 1 /\ Len(stack) \in 1..Len(stack)
           /\ scopes[1].kind = "program" /\ \A s \in 1..Len(scopes) : s # 1 => scopes[s].kind # "program"
<1>1. /\ Tree(scopes) /\ Stacked(scopes, stack) /\ Owned(entities, owned_classes)
      /\ entities \in Seq(Entity)
  BY DEF IInv, Ordered, Counted, Scoped
<1>2. scopes \in Seq(Scope) /\ Len(scopes) \in Nat BY <1>1, TreeFacts DEF Tree
<1>3. Len(entities) \in Nat /\ DOMAIN entities = 1..Len(entities) BY <1>1, LenProperties
<1>4. here \in Nat /\ here <= MaxHere /\ MaxHere \in Nat /\ Len(entities) <= here
  BY SymbolsAssumption DEF IInv, Placed, Position
<1>5. Len(owned_classes) \in Nat /\ Len(owned_classes) <= Len(entities)
  BY <1>1, LenProperties DEF Owned
<1>6. /\ Top \in 1..Len(scopes) /\ Len(stack) \in Nat /\ Len(stack) >= 1
      /\ Len(stack) \in 1..Len(stack) /\ 1 \in 1..Len(stack)
  BY <1>1, StackFacts DEF Top, Stacked
<1>7. Top \in Range(stack) /\ Program \in Range(stack) /\ stack[1] = Program
  BY <1>1, <1>6, StackFacts DEF Top, Range, Stacked, Program
<1>8. scopes[1].kind = "program" /\ \A s \in 1..Len(scopes) : s # 1 => scopes[s].kind # "program"
  BY <1>1, TreeFacts DEF Tree
<1>9. QED BY <1>1, <1>2, <1>3, <1>4, <1>5, <1>6, <1>7, <1>8

\* The new scope.
LEMMA Inherits ==
    ASSUME IInv, NEW E, NEW H, NEW K, CountedNow(E, H, K),
           NEW kind \in Kinds, NEW parent \in Range(stack), here + 1 <= MaxHere
    PROVE  /\ inherit(kind, parent) \in Scope
           /\ inherit(kind, parent).kind = kind /\ inherit(kind, parent).parent = parent
           /\ inherit(kind, parent).low = here + 1
           /\ inherit(kind, parent).local_objects = <<>>
           /\ inherit(kind, parent).parent_visible_object_count_at_creation = K[parent]
           /\ inherit(kind, parent).program_visible_class_count_at_creation = Len(owned_classes)
<1>1. /\ IsKnown(K, scopes) /\ Scoped(scopes, stack, entities, E, H, K)
  BY DEF CountedNow, Counted
<1>2. PICK i \in 1..Len(stack) : parent = stack[i] BY Known, StackFacts DEF Range
<1>3. parent \in 1..Len(scopes) BY <1>2, Known, StackFacts
<1>4. number_of_known_objects(parent) = K[parent] BY <1>1, <1>3, Known, KnownObjects
<1>5. K[parent] \in 0..SIZE_MAX
  <2>1. K[parent] \in Nat BY <1>1, <1>3, Known, KnownFacts
  <2>2. K[parent] <= Len(entities) BY <1>1, <1>2 DEF Scoped, Accounted
  <2>3. QED BY <2>1, <2>2, Known DEF SIZE_MAX
<1>6. Len(owned_classes) \in 0..SIZE_MAX BY Known DEF SIZE_MAX
<1>7. parent \in ScopeId
  <2>1. Len(scopes) <= MaxScopes BY DEF IInv, Placed
  <2>2. QED BY <1>3, <2>1, Known, SymbolsAssumption DEF ScopeId
<1>8. here + 1 \in Position BY Known DEF Position
<1>9. QED BY <1>4, <1>5, <1>6, <1>7, <1>8 DEF inherit, Scope

\* Tokens fit in the program.
LEMMA Later ==
    ASSUME IInv, NEW more \in Nat \ {0}, here' = here + more, Fits,
           Len(stack') \in Nat, Len(stack') >= 1
    PROVE  here' \in Position /\ here <= here' /\ \A k \in 1..more : here + k \in Position
<1>1. here \in Nat /\ MaxHere \in Nat BY Known
<1>2. here' <= MaxHere
  <2>1. here' \in Nat BY <1>1
  <2>2. here' + Len(stack') - 1 <= MaxHere BY DEF Fits
  <2>3. QED BY <1>1, <2>1, <2>2
<1>3. here' = here + more OBVIOUS
<1> HIDE DEF Fits
<1>4. here' \in 0 .. MaxHere /\ here <= here' /\ \A k \in 1..more : here + k \in 0 .. MaxHere
  BY <1>1, <1>2, <1>3
<1>5. QED BY <1>4 DEF Position

LEMMA KeepOpen ==
    ASSUME IInv, NEW kind \in {"function", "block", "supershell"}, Open(kind), Fits
    PROVE  IInv'
<1> DEFINE n == Len(scopes) + 1
           new == inherit(kind, Top)
<1>1. /\ scopes' = Append(scopes, new) /\ stack' = Append(stack, n) /\ here' = here + 1
      /\ entities' = entities /\ owned_classes' = owned_classes
      /\ entity_map' = entity_map /\ occurrences' = occurrences /\ Len(scopes) < MaxScopes
  BY DEF Open
<1>2. Len(stack') = Len(stack) + 1 BY <1>1, Known, AppendFacts DEF Stacked
<1>3. here' \in Position /\ here <= here' /\ here + 1 <= MaxHere
  <2>1. here' \in Position /\ here <= here' BY <1>1, <1>2, Known, Later
  <2>2. QED BY <1>1, <2>1, Known DEF Position
<1>4. PICK E, H, K : CountedNow(E, H, K) BY DEF IInv, Ordered, CountedNow
<1>5. /\ new \in Scope /\ new.kind = kind /\ new.parent = Top /\ new.low = here + 1
      /\ new.local_objects = <<>>
      /\ new.parent_visible_object_count_at_creation = K[Top]
      /\ new.program_visible_class_count_at_creation = Len(owned_classes)
  <2>1. kind \in Kinds BY DEF Kinds
  <2>2. QED BY <1>3, <1>4, <2>1, Known, Inherits
<1> HIDE DEF new
<1>6. Ordered(scopes', stack', entities', owned_classes')
  <2>1. Counted(scopes, stack, entities, owned_classes, E, H, K) BY <1>4 DEF CountedNow
  <2>2. Ordered(scopes, stack, entities, owned_classes) BY DEF IInv
  <2>3. new.program_visible_class_count_at_creation + 1 >= Len(owned_classes) BY <1>5, Known
  <2>4. new.kind # "program" BY <1>5
  <2>5. new.parent = stack[Len(stack)] BY <1>5 DEF Top
  <2>6. new.parent \in Range(stack) BY <1>5, Known
  <2>7. Ordered(Append(scopes, new), Append(stack, n), entities, owned_classes)
    BY <1>5, <2>1, <2>2, <2>3, <2>4, <2>5, <2>6, OrderedOpened
  <2>8. QED BY <1>1, <2>7
<1>7. Placed(scopes', entities', here')
  <2>1. Placed(scopes, entities, here) BY DEF IInv
  <2>2. new.low <= here' BY <1>1, <1>5, Known
  <2>3. QED BY <1>1, <1>3, <1>5, <2>1, <2>2, Known, PlacedOpened
<1>8. Marks(entity_map', occurrences', scopes', entities')
  <2>1. Marks(entity_map, occurrences, scopes, entities) BY DEF IInv
  <2>2. Marks({}, {}, scopes', entities') BY DEF Marks
  <2>3. Len(scopes') = Len(scopes) + 1 BY <1>1, Known, AppendFacts
  <2>4. Marks(entity_map \cup {}, occurrences \cup {}, scopes', entities')
    <3>1. /\ Len(scopes) \in Nat /\ Len(scopes') \in Nat /\ Len(scopes) <= Len(scopes')
          /\ Len(entities) \in Nat /\ Len(entities') \in Nat /\ Len(entities) <= Len(entities')
      BY <1>1, <2>3, Known
    <3>2. QED BY <2>1, <2>2, <3>1, MarksMore
  <2>5. entity_map \cup {} = entity_map /\ occurrences \cup {} = occurrences OBVIOUS
  <2>6. QED BY <1>1, <2>4, <2>5
<1>9. QED BY <1>6, <1>7, <1>8 DEF IInv

LEMMA KeepLeave ==
    ASSUME IInv, Fits, NEW kind \in Kinds \ {"program"}, NEW marks, NEW after,
           Leave(kind, marks, after),
           marks = {} \/ marks = mark_entity(Top, here + 1),
           after = IF kind = "supershell" THEN adopt(scopes[Top].parent, Top) ELSE scopes
    PROVE  IInv'
<1> DEFINE down == Len(stack) - 1
           p == scopes[Top].parent
           more == scopes[Top].local_objects
<1>1. /\ scopes' = after /\ stack' = SubSeq(stack, 1, down) /\ here' = here + 1
      /\ entities' = entities /\ owned_classes' = owned_classes
      /\ entity_map' = entity_map \cup marks /\ occurrences' = occurrences
      /\ scopes[Top].kind = kind
  BY DEF Leave
<1>2. Len(stack) >= 2
  <2>1. Top # 1 BY <1>1, Known
  <2>2. Len(stack) # 1 BY <2>1, Known DEF Top, Program
  <2>3. Len(stack) \in Nat /\ Len(stack) >= 1 BY Known
  <2>4. \A k \in Nat : k >= 1 /\ k # 1 => k >= 2 OBVIOUS
  <2>5. QED BY <2>2, <2>3, <2>4
<1>3. after = IF scopes[Top].kind = "supershell" THEN Grow(scopes, p, more) ELSE scopes
  BY <1>1 DEF adopt, Grow
<1>4. Ordered(after, SubSeq(stack, 1, down), entities, owned_classes)
  <2>1. Ordered(scopes, stack, entities, owned_classes) BY DEF IInv
  <2>2. Top = stack[Len(stack)] BY DEF Top
  <2>3. QED BY <1>2, <1>3, <2>1, <2>2, OrderedClosed
<1>5. here' \in Position /\ here <= here' /\ here + 1 \in Position
  <2>1. Len(stack') \in Nat /\ Len(stack') >= 1
    BY <1>1, <1>4, StackFacts DEF Ordered, Stacked
  <2>2. QED BY <1>1, <2>1, Known, Later
<1>6. Len(after) = Len(scopes) /\ \A s \in 1..Len(scopes) : Alike(after[s], scopes[s])
  <2>1. CASE kind = "supershell"
    <3>1. p \in 1..Len(scopes) /\ more \in Seq(EntityId)
      BY Known, TreeFacts DEF Scope
    <3>2. after = Grow(scopes, p, more) BY <1>1, <1>3, <2>1
    <3>3. PICK E, H, K : CountedNow(E, H, K) BY DEF IInv, Ordered, CountedNow
    <3>4. IsEnclosing(E, scopes) /\ IsHolder(H, scopes, stack) /\ IsKnown(K, scopes)
      BY <3>3 DEF CountedNow, Counted
    <3> HIDE DEF p, more
    <3>5. QED BY <3>1, <3>2, <3>4, Known, Grown
  <2>2. CASE kind # "supershell" BY <1>1, <1>3, <2>2 DEF Alike
  <2>3. QED BY <2>1, <2>2
<1>7. Placed(scopes', entities', here')
  <2>1. Placed(scopes, entities, here) BY DEF IInv
  <2>2. Likewise(entities, entities) BY DEF Likewise
  <2>3. QED BY <1>1, <1>5, <1>6, <2>1, <2>2, Known, PlacedAlike
<1>8. Marks(entity_map', occurrences', scopes', entities')
  <2>1. Marks(entity_map, occurrences, scopes, entities) BY DEF IInv
  <2>2. Marks(marks, {}, scopes', entities')
    <3>1. CASE marks = {} BY <3>1 DEF Marks
    <3>2. CASE marks = mark_entity(Top, here + 1)
      <4>1. scopes[Top].low <= here /\ scopes[Top].low \in Position
        BY Known, Elements DEF IInv, Placed, Scope
      <4>2. scopes[Top].low < here + 1 BY <4>1, Known, SymbolsAssumption DEF Position
      <4>3. Top \in 1..Len(scopes') BY <1>1, <1>6, Known
      <4>4. QED BY <1>5, <3>2, <4>1, <4>2, <4>3 DEF Marks, mark_entity
    <3>3. QED BY <3>1, <3>2
  <2>3. Marks(entity_map \cup marks, occurrences \cup {}, scopes', entities')
    <3>1. /\ Len(scopes) \in Nat /\ Len(scopes') \in Nat /\ Len(scopes) <= Len(scopes')
          /\ Len(entities) \in Nat /\ Len(entities') \in Nat /\ Len(entities) <= Len(entities')
      BY <1>1, <1>6, Known
    <3>2. QED BY <2>1, <2>2, <3>1, MarksMore
  <2>4. occurrences \cup {} = occurrences OBVIOUS
  <2>5. QED BY <1>1, <2>3, <2>4
<1>9. Ordered(scopes', stack', entities', owned_classes') BY <1>1, <1>4
<1>10. QED BY <1>7, <1>8, <1>9 DEF IInv

\* A name that stands for e.
LEMMA KeepReference ==
    ASSUME IInv, Fits, NEW e \in 1..Len(entities), NEW token \in Tokens, NEW n \in Names,
           here' = here + 1, entities' = add_reference(entities, e, here + 1),
           occurrences' = occurrences \cup {Token(here + 1, Top, token, n, e)},
           UNCHANGED <<scopes, stack, owned_classes, entity_map>>
    PROVE  IInv'
<1>1. here' \in Position /\ here <= here' /\ here + 1 \in Position
  BY Known, Later
<1>2. entities' \in Seq(Entity) /\ Likewise(entities, entities')
  BY <1>1, Known, ReferenceAdded
<1>3. Ordered(scopes', stack', entities', owned_classes')
  BY <1>2, OrderedLikewise DEF IInv
<1>4. Placed(scopes', entities', here')
  <2>1. Placed(scopes, entities, here) BY DEF IInv
  <2>2. Len(scopes) = Len(scopes) /\ \A s \in 1..Len(scopes) : Alike(scopes[s], scopes[s])
    BY DEF Alike
  <2>3. QED BY <1>1, <1>2, <2>1, <2>2, Known, PlacedAlike
<1>5. Marks(entity_map', occurrences', scopes', entities')
  <2>1. Marks(entity_map, occurrences, scopes, entities) BY DEF IInv
  <2>2. Len(entities') = Len(entities) BY <1>2 DEF Likewise
  <2>3. Marks({}, {Token(here + 1, Top, token, n, e)}, scopes, entities)
    BY <1>1, Known, ReferenceMarks
  <2>4. Marks({}, {Token(here + 1, Top, token, n, e)}, scopes', entities')
    BY <2>2, <2>3 DEF Marks
  <2>5. /\ Len(scopes) \in Nat /\ Len(scopes') \in Nat /\ Len(scopes) <= Len(scopes')
        /\ Len(entities) \in Nat /\ Len(entities') \in Nat /\ Len(entities) <= Len(entities')
    BY <2>2, Known
  <2>6. Marks(entity_map \cup {}, occurrences', scopes', entities')
    BY <2>1, <2>4, <2>5, MarksMore
  <2>7. entity_map \cup {} = entity_map' OBVIOUS
  <2>8. QED BY <2>6, <2>7
<1>6. QED BY <1>3, <1>4, <1>5 DEF IInv

LEMMA FoundEntities ==
    ASSUME IInv, NEW n
    PROVE  /\ \A o \in get_object(Top, n) : o \in 1..Len(entities)
           /\ \A c \in get_class(Top, n) : c \in 1..Len(entities) /\ entities[c].class = 0
<1>1. PICK E, H, K : CountedNow(E, H, K) BY DEF IInv, Ordered, CountedNow
<1>2. get_object(stack[Len(stack)], n) \subseteq ObjectsOf(entities)
  <2>1. Len(stack) \in 1..Len(stack) BY Known
  <2>2. get_object(stack[Len(stack)], n) = Meant(E, H, n, stack[Len(stack)])
    BY <1>1, <2>1, ObjectsSeen
  <2>3. QED BY <2>2 DEF Meant
<1>3. get_class(Top, n) \subseteq ClassesOf(entities) BY Known, ClassesSeen
<1>4. QED BY <1>2, <1>3, Known DEF Top, ObjectsOf, ClassesOf

LEMMA KeepObjectReference ==
    ASSUME IInv, Fits, NEW n \in Names, ObjectReference(n) PROVE IInv'
<1>1. PICK o \in get_object(Top, n) :
         /\ entities' = add_reference(entities, o, here + 1)
         /\ occurrences' = occurrences \cup {Token(here + 1, Top, "object", n, o)}
  BY DEF ObjectReference
<1>2. o \in 1..Len(entities) BY FoundEntities
<1>3. here' = here + 1 /\ UNCHANGED <<scopes, stack, owned_classes, entity_map>>
  BY DEF ObjectReference
<1>4. "object" \in Tokens BY DEF Tokens
<1>5. QED BY <1>1, <1>2, <1>3, <1>4, KeepReference

LEMMA KeepNewStatement ==
    ASSUME IInv, Fits, NEW c \in Names, NewStatement(c) PROVE IInv'
<1>1. PICK k \in get_class(Top, c) :
         /\ entities' = add_reference(entities, k, here + 1)
         /\ occurrences' = occurrences \cup {Token(here + 1, Top, "type", c, k)}
  BY DEF NewStatement
<1>2. k \in 1..Len(entities) BY FoundEntities
<1>3. here' = here + 1 /\ UNCHANGED <<scopes, stack, owned_classes, entity_map>>
  BY DEF NewStatement
<1>4. "type" \in Tokens BY DEF Tokens
<1>5. QED BY <1>1, <1>2, <1>3, <1>4, KeepReference

LEMMA KeepObjectInstantiation ==
    ASSUME IInv, Fits, NEW c \in Names, NEW n \in Names, ObjectInstantiation(c, n) PROVE IInv'
<1> DEFINE o == Len(entities) + 1
           free == get_class(Top, n) = {} /\ get_object(Top, n) = {}
<1>1. PICK k \in get_class(Top, c) :
         /\ entities' = LET es == add_reference(entities, k, here + 1)
                        IN  IF free THEN Append(es, Defined(n, k, Top, here + 2)) ELSE es
         /\ occurrences' = occurrences \cup {Token(here + 1, Top, "type", c, k)}
              \cup IF free THEN {Token(here + 2, Top, "object", n, o)} ELSE {}
  BY DEF ObjectInstantiation
<1>2. /\ here' = here + 2 /\ stack' = stack /\ owned_classes' = owned_classes
      /\ entity_map' = entity_map
      /\ scopes' = IF free THEN [scopes EXCEPT ![Top].local_objects = Append(@, o)] ELSE scopes
  BY DEF ObjectInstantiation
<1> DEFINE es == add_reference(entities, k, here + 1)
           x == Defined(n, k, Top, here + 2)
<1>3. k \in 1..Len(entities) BY FoundEntities
<1>4. here' \in Position /\ here <= here' /\ here + 1 \in Position /\ here + 2 \in Position
  <2>1. here' \in Position /\ here <= here' /\ \A j \in 1..2 : here + j \in Position
    BY <1>2, Known, Later, SMTT(30)
  <2>2. QED BY <2>1
<1>5. es \in Seq(Entity) /\ Likewise(entities, es) /\ Len(es) = Len(entities)
  BY <1>3, <1>4, Known, ReferenceAdded DEF Likewise
<1>6. PICK E, H, K : CountedNow(E, H, K) BY DEF IInv, Ordered, CountedNow
<1>7. Owned(es, owned_classes) /\ Counted(scopes, stack, es, owned_classes, E, H, K)
  BY <1>5, <1>6, Known, CountedLikewise DEF CountedNow
<1>8. Ordered(scopes, stack, es, owned_classes)
  BY <1>5, OrderedLikewise DEF IInv
<1>9. Marks({}, {Token(here + 1, Top, "type", c, k)}, scopes, entities)
  BY <1>3, <1>4, Known, ReferenceMarks DEF Tokens
<1>10. Marks(entity_map, occurrences, scopes, entities) BY DEF IInv
<1>11. Placed(scopes, entities, here) BY DEF IInv
<1> HIDE DEF es, free
<1>12. CASE ~free
  <2>1. /\ entities' = es /\ scopes' = scopes
        /\ occurrences' = occurrences \cup {Token(here + 1, Top, "type", c, k)}
    BY <1>1, <1>2, <1>12 DEF es
  <2>2. Ordered(scopes', stack', entities', owned_classes') BY <1>2, <1>8, <2>1
  <2>3. Placed(scopes', entities', here')
    <3>1. \A s \in 1..Len(scopes) : Alike(scopes[s], scopes[s]) BY DEF Alike
    <3>2. QED BY <1>4, <1>5, <1>11, <2>1, <3>1, Known, PlacedAlike
  <2>4. Marks(entity_map', occurrences', scopes', entities')
    <3>1. Marks(entity_map \cup {}, occurrences', scopes, entities)
      <4>1. Len(scopes) \in Nat /\ Len(entities) \in Nat
            /\ Len(scopes) <= Len(scopes) /\ Len(entities) <= Len(entities)
        BY Known
      <4>2. QED BY <1>9, <1>10, <2>1, <4>1, MarksMore
    <3>2. entity_map \cup {} = entity_map OBVIOUS
    <3>3. QED BY <1>2, <1>5, <2>1, <3>1, <3>2 DEF Marks
  <2>5. QED BY <2>2, <2>3, <2>4 DEF IInv
<1>13. CASE free
  <2>1. /\ entities' = Append(es, x) /\ scopes' = [scopes EXCEPT ![Top].local_objects = Append(@, o)]
        /\ occurrences' = (occurrences \cup {Token(here + 1, Top, "type", c, k)})
                             \cup {Token(here + 2, Top, "object", n, o)}
    BY <1>1, <1>2, <1>13 DEF es
  <2>2. x \in Entity /\ x.class = k /\ x.class # 0 /\ x.scope = Top /\ x.name = n
    <3>1. <<here + 2>> \in Seq(Position) BY <1>4
    <3>2. k \in Nat /\ k # 0 /\ Top \in Nat BY <1>3, Known
    <3>3. QED BY <3>1, <3>2 DEF Defined, Entity
  <2> HIDE DEF x
  <2>3. o \in EntityId /\ o = Len(es) + 1 /\ o <= here'
    BY <1>2, <1>4, <1>5, Known DEF EntityId, Position
  <2>4. scopes' = Grow(scopes, Top, <<Len(es) + 1>>)
    <3>1. scopes[Top].local_objects \in Seq(EntityId) BY Known, Elements DEF Scope
    <3>2. Append(scopes[Top].local_objects, o) = scopes[Top].local_objects \o <<o>>
      BY <2>3, <3>1, AppendIsConcat
    <3> HIDE DEF o
    <3>3. scopes' = [scopes EXCEPT ![Top].local_objects = Append(scopes[Top].local_objects, o)]
      BY <2>1
    <3>4. QED BY <2>3, <3>2, <3>3 DEF Grow
  <2>5. \A p \in ObjectsOf(es) : H[es[p].scope] \in E[Top] => es[p].name # x.name
    <3>1. get_object(stack[Len(stack)], n) = {} BY <1>13 DEF free, Top
    <3>2. \A p \in ObjectsOf(entities) : H[entities[p].scope] \in E[Top] => entities[p].name # n
      <4>1. Len(stack) \in 1..Len(stack) BY Known
      <4>2. QED BY <1>6, <3>1, <4>1, ObjectsNotSeen DEF Top
    <3>3. DOMAIN es = 1..Len(entities) BY <1>5, LenProperties
    <3>4. QED BY <1>5, <2>2, <3>2, <3>3, Known DEF ObjectsOf, Likewise
  <2>6. ~NestedClasses => \A d \in ClassesOf(es) : es[d].name # x.name
    <3> SUFFICES ASSUME ~NestedClasses, NEW d \in ClassesOf(es) PROVE es[d].name # x.name
      OBVIOUS
    <3>1. \A d1 \in Classes : entities[d1].name # n
      <4>1. get_class(Top, n) = {d1 \in Classes : entities[d1].name = n}
        BY InvFinds DEF LeftOrUp
      <4>2. QED BY <1>13, <4>1 DEF free
    <3>2. DOMAIN es = 1..Len(entities) BY <1>5, LenProperties
    <3>3. d \in Classes /\ es[d].name = entities[d].name
      BY <1>5, <3>2, Known DEF Classes, Objects, ClassesOf, ObjectsOf, Likewise
    <3>4. QED BY <2>2, <3>1, <3>3
  <2>7. Ordered(scopes', stack', entities', owned_classes')
    <3>1. Top = stack[Len(stack)] BY DEF Top
    <3>2. Len(es) + 1 \in EntityId BY <2>3
    <3>3. Ordered(Grow(scopes, Top, <<Len(es) + 1>>), stack, Append(es, x), owned_classes)
      BY <1>7, <1>8, <2>2, <2>5, <2>6, <3>1, <3>2, OrderedGrown
    <3>4. QED BY <1>2, <2>1, <2>4, <3>3
  <2>8. Len(scopes') = Len(scopes) /\ \A s \in 1..Len(scopes) : Alike(scopes'[s], scopes[s])
    <3> DEFINE more == <<Len(es) + 1>>
    <3>1. more \in Seq(EntityId) BY <2>3
    <3>2. IsEnclosing(E, scopes) /\ IsHolder(H, scopes, stack) /\ IsKnown(K, scopes)
      BY <1>6 DEF CountedNow, Counted
    <3>3. scopes' = Grow(scopes, Top, more) BY <2>4
    <3> HIDE DEF more
    <3>4. QED BY <3>1, <3>2, <3>3, Known, Grown
  <2>9. entities' \in Seq(Entity) /\ Len(entities') = Len(entities) + 1
    BY <1>5, <2>1, <2>2, AppendProperties
  <2>10. Placed(scopes', entities', here')
    <3>1. x.class <= Len(es) + 1 /\ x.scope \in 1..Len(scopes)
      BY <1>3, <1>5, <2>2, Known
    <3>2. Placed(scopes, es, here)
      <4>1. \A s \in 1..Len(scopes) : Alike(scopes[s], scopes[s]) BY DEF Alike
      <4>2. here \in Position /\ here <= here BY Known DEF Position
      <4>3. QED BY <1>5, <1>11, <4>1, <4>2, Known, PlacedAlike
    <3>3. Len(es) + 1 <= here' BY <2>3
    <3>4. Placed(scopes, entities', here')
      BY <1>4, <1>5, <2>1, <2>2, <3>1, <3>2, <3>3, Known, PlacedMore
    <3>5. Likewise(entities', entities') BY DEF Likewise
    <3>6. here' <= here' /\ Len(entities') \in Nat BY <1>2, <2>9, Known
    <3>7. QED BY <1>4, <2>8, <3>4, <3>5, <3>6, Known, PlacedAlike
  <2>11. Marks(entity_map', occurrences', scopes', entities')
    <3>1. Marks(entity_map \cup {}, occurrences \cup {Token(here + 1, Top, "type", c, k)}, scopes, entities)
      BY <1>9, <1>10, Known, MarksMore
    <3>2. /\ Len(scopes) \in Nat /\ Len(scopes') \in Nat /\ Len(scopes) <= Len(scopes')
          /\ Len(entities) \in Nat /\ Len(entities') \in Nat /\ Len(entities) <= Len(entities')
          /\ Top \in 1..Len(scopes') /\ o \in 1..Len(entities')
      BY <2>8, <2>9, Known
    <3>3. Marks({}, {Token(here + 2, Top, "object", n, o)}, scopes', entities')
      <4>1. "object" \in Tokens BY DEF Tokens
      <4>2. QED BY <1>4, <3>2, <4>1, ReferenceMarks
    <3>4. Marks((entity_map \cup {}) \cup {}, occurrences', scopes', entities')
      BY <2>1, <3>1, <3>2, <3>3, MarksMore
    <3>5. (entity_map \cup {}) \cup {} = entity_map' BY <1>2
    <3>6. QED BY <3>4, <3>5
  <2>12. QED BY <2>7, <2>10, <2>11 DEF IInv
<1>14. QED BY <1>12, <1>13

LEMMA KeepMethodDefinition ==
    ASSUME IInv, Fits, enterMethodDefinition PROVE IInv'
<1> DEFINE s == Len(scopes) + 1
           opened == inherit("method", Program)
           o == Len(entities) + 1
<1>1. /\ Len(scopes) < MaxScopes /\ stack' = Append(stack, s)
      /\ owned_classes' = owned_classes /\ entity_map' = entity_map
  BY DEF enterMethodDefinition
<1>2. Len(stack') = Len(stack) + 1 BY <1>1, Known, AppendFacts DEF Stacked
<1>3. \E more \in {1, 4} : here' = here + more BY DEF enterMethodDefinition
<1>4. PICK more \in {1, 4} : here' = here + more BY <1>3
<1>5. /\ here' \in Position /\ here <= here' /\ here + 1 \in Position /\ here + 1 <= here'
      /\ \A j \in 1..more : here + j \in Position
  <2>1. here' \in Position /\ here <= here' /\ \A j \in 1..more : here + j \in Position
    BY <1>2, <1>4, Known, Later
  <2>2. QED BY <1>4, <2>1, Known
<1>6. PICK E, H, K : CountedNow(E, H, K) BY DEF IInv, Ordered, CountedNow
<1>7. /\ opened \in Scope /\ opened.kind = "method" /\ opened.parent = Program
      /\ opened.low = here + 1 /\ opened.local_objects = <<>>
      /\ opened.parent_visible_object_count_at_creation = K[Program]
      /\ opened.program_visible_class_count_at_creation = Len(owned_classes)
  <2>1. here + 1 <= MaxHere BY <1>5 DEF Position
  <2>2. "method" \in Kinds BY DEF Kinds
  <2>3. QED BY <1>6, <2>1, <2>2, Known, Inherits
<1> HIDE DEF opened
<1>8. /\ Ordered(scopes, stack, entities, owned_classes)
      /\ Counted(scopes, stack, entities, owned_classes, E, H, K)
      /\ Placed(scopes, entities, here) /\ Marks(entity_map, occurrences, scopes, entities)
  BY <1>6 DEF IInv, CountedNow
<1>9. CASE /\ scopes' = Append(scopes, opened)
           /\ UNCHANGED <<entities, occurrences>>
  <2>1. opened.program_visible_class_count_at_creation + 1 >= Len(owned_classes)
    BY <1>7, Known
  <2>2. opened.kind # "program" /\ opened.kind # "supershell" BY <1>7
  <2>3. opened.parent \in Range(stack) BY <1>7, Known
  <2>4. Ordered(Append(scopes, opened), Append(stack, s), entities, owned_classes)
    BY <1>7, <1>8, <2>1, <2>2, <2>3, OrderedOpened
  <2>5. opened.low <= here' BY <1>5, <1>7
  <2>6. Placed(Append(scopes, opened), entities, here')
    BY <1>1, <1>5, <1>7, <1>8, <2>5, Known, PlacedOpened
  <2>7. Marks(entity_map', occurrences', scopes', entities')
    <3>1. Len(scopes') = Len(scopes) + 1 BY <1>9, Known, AppendFacts
    <3>2. /\ Len(scopes) \in Nat /\ Len(scopes') \in Nat /\ Len(scopes) <= Len(scopes')
          /\ Len(entities) \in Nat /\ Len(entities') \in Nat /\ Len(entities) <= Len(entities')
      BY <1>9, <3>1, Known
    <3>3. Marks({}, {}, scopes', entities') BY DEF Marks
    <3>4. Marks(entity_map \cup {}, occurrences \cup {}, scopes', entities')
      BY <1>8, <3>2, <3>3, MarksMore
    <3>5. entity_map \cup {} = entity_map' /\ occurrences \cup {} = occurrences' BY <1>1, <1>9
    <3>6. QED BY <3>4, <3>5
  <2>8. QED BY <1>1, <1>9, <2>4, <2>6, <2>7 DEF IInv
<1>10. CASE \E n \in Names, c \in {owned_classes[i] : i \in DOMAIN owned_classes} :
              /\ get_object(Program, n) = {} /\ get_class(Program, n) = {}
              /\ here' = here + 4
              /\ scopes' = Append(scopes, [opened EXCEPT !.local_objects = <<o>>])
              /\ entities' = add_reference(Append(entities, Defined(n, c, s, here + 4)), c, here + 2)
              /\ occurrences' = occurrences \cup
                   {Token(here + 3, s, "parameter", n, c), Token(here + 4, s, "object", n, o)}
  <2>1. PICK n \in Names, c \in {owned_classes[i] : i \in DOMAIN owned_classes} :
              /\ get_object(Program, n) = {} /\ get_class(Program, n) = {}
              /\ here' = here + 4
              /\ scopes' = Append(scopes, [opened EXCEPT !.local_objects = <<o>>])
              /\ entities' = add_reference(Append(entities, Defined(n, c, s, here + 4)), c, here + 2)
              /\ occurrences' = occurrences \cup
                   {Token(here + 3, s, "parameter", n, c), Token(here + 4, s, "object", n, o)}
    BY <1>10
  <2> DEFINE x == Defined(n, c, s, here + 4)
             fs == Append(entities, x)
             new == [opened EXCEPT !.local_objects = <<o>>]
  <2>2. c \in 1..Len(entities) /\ c \in Nat /\ c # 0
    <3>1. Range(owned_classes) = ClassesOf(entities) BY Known DEF Owned
    <3>2. c \in ClassesOf(entities) BY <3>1 DEF Range
    <3>3. QED BY <3>2, Known DEF ClassesOf
  <2>3. here + 2 \in Position /\ here + 3 \in Position /\ here + 4 \in Position
    BY <2>1, <1>4, <1>5, Known, SMTT(30)
  <2>4. x \in Entity /\ x.class = c /\ x.scope = s /\ x.name = n
    <3>1. <<here + 4>> \in Seq(Position) BY <2>3
    <3>2. s \in Nat BY Known
    <3>3. QED BY <2>2, <3>1, <3>2 DEF Defined, Entity
  <2> HIDE DEF x
  <2>5. o \in EntityId /\ o + 3 <= here' /\ o \in Nat
    <3>1. Len(entities) \in Nat /\ Len(entities) <= here /\ here \in Nat /\ MaxHere \in Nat BY Known
    <3>2. here' = here + 4 /\ here' \in Nat /\ here' <= MaxHere BY <1>5, <2>1, <3>1 DEF Position
    <3>3. QED BY <3>1, <3>2 DEF EntityId
  <2>6. /\ new \in Scope /\ new.kind = "method" /\ new.parent = Program /\ new.low = here + 1
        /\ new.local_objects = <<o>>
        /\ new.parent_visible_object_count_at_creation = K[Program]
        /\ new.program_visible_class_count_at_creation = Len(owned_classes)
    <3>1. <<o>> \in Seq(EntityId) BY <2>5
    <3> HIDE DEF o
    <3>2. QED BY <1>7, <3>1 DEF Scope
  <2>7. \A p \in ObjectsOf(entities) : H[entities[p].scope] \in E[Program] => entities[p].name # n
    <3>1. 1 \in 1..Len(stack) /\ stack[1] = Program BY Known
    <3>2. get_object(stack[1], n) = {} BY <2>1, <3>1
    <3>3. QED BY <1>6, <3>1, <3>2, ObjectsNotSeen
  <2>8. \A d \in ClassesOf(entities) : entities[d].name # n
    <3>1. Program \in 1..Len(scopes) BY Known, TreeFacts DEF Program
    <3>2. {d \in ClassesOf(entities) : entities[d].name = n} \subseteq get_class(Program, n)
      BY <3>1, ClassesSeen
    <3>3. QED BY <2>1, <3>2
  <2> HIDE DEF new, fs
  <2>9. Ordered(Append(scopes, new), Append(stack, s), fs, owned_classes)
    <3>1. new.program_visible_class_count_at_creation + 1 >= Len(owned_classes)
      BY <2>6, Known
    <3>2. new.kind # "program" /\ new.kind # "supershell" BY <2>6
    <3>3. new.parent \in Range(stack) BY <2>6, Known
    <3>4. /\ \A p \in ObjectsOf(entities) :
                H[entities[p].scope] \in E[new.parent] => entities[p].name # x.name
          /\ \A d \in ClassesOf(entities) : entities[d].name # x.name
          /\ new.local_objects = <<Len(entities) + 1>> /\ x.class # 0
      BY <2>2, <2>4, <2>6, <2>7, <2>8
    <3>5. new.parent_visible_object_count_at_creation = K[new.parent] BY <2>6
    <3>6. Ordered(Append(scopes, new), Append(stack, s), Append(entities, x), owned_classes)
      BY <1>8, <2>4, <2>6, <3>1, <3>2, <3>3, <3>4, <3>5, OrderedParameter
    <3>7. QED BY <3>6 DEF fs
  <2>10. fs \in Seq(Entity) /\ Len(fs) = Len(entities) + 1 /\ c \in 1..Len(fs) /\ o \in 1..Len(fs)
    BY <2>2, <2>4, Known, AppendProperties DEF fs
  <2>11. entities' \in Seq(Entity) /\ Likewise(fs, entities') /\ Len(entities') = Len(entities) + 1
    <3>1. entities' = add_reference(fs, c, here + 2) BY <2>1 DEF fs, x
    <3>2. entities' \in Seq(Entity) /\ Likewise(fs, entities')
      BY <2>3, <2>10, <3>1, ReferenceAdded
    <3>3. QED BY <2>10, <3>2 DEF Likewise
  <2>12. scopes' = Append(scopes, new) BY <2>1 DEF new
  <2>13. Ordered(scopes', stack', entities', owned_classes')
    BY <1>1, <2>9, <2>11, <2>12, OrderedLikewise
  <2>14. /\ Len(scopes') = Len(scopes) + 1 /\ scopes' \in Seq(Scope) /\ s \in 1..Len(scopes')
    BY <2>6, <2>12, Known, AppendProperties
  <2>15. Placed(scopes', entities', here')
    <3>1. new.low <= here' BY <1>5, <2>6
    <3>2. Placed(scopes', entities, here')
      BY <1>1, <1>5, <1>8, <2>6, <2>12, <3>1, Known, PlacedOpened
    <3>3. x.class <= Len(entities) + 1 /\ x.scope \in 1..Len(scopes')
      BY <2>2, <2>4, <2>14, Known
    <3>4. Len(entities) + 1 <= here' /\ here' <= here' BY <2>1, <2>5, Known
    <3>5. Placed(scopes', fs, here')
      BY <1>5, <2>4, <2>14, <3>2, <3>3, <3>4, Known, PlacedMore DEF fs
    <3>6. \A t \in 1..Len(scopes') : Alike(scopes'[t], scopes'[t]) BY DEF Alike
    <3>7. Len(fs) \in Nat BY <2>10, Known
    <3>8. QED BY <1>5, <2>11, <2>14, <3>4, <3>5, <3>6, <3>7, PlacedAlike
  <2>16. Marks(entity_map', occurrences', scopes', entities')
    <3>1. /\ Len(scopes) \in Nat /\ Len(scopes') \in Nat /\ Len(scopes) <= Len(scopes')
          /\ Len(entities) \in Nat /\ Len(entities') \in Nat /\ Len(entities) <= Len(entities')
          /\ c \in 1..Len(entities') /\ o \in 1..Len(entities')
      BY <2>2, <2>11, <2>14, Known
    <3>2. "parameter" \in Tokens /\ "object" \in Tokens BY DEF Tokens
    <3>3. Marks({}, {Token(here + 3, s, "parameter", n, c)}, scopes', entities')
      BY <2>3, <2>14, <3>1, <3>2, ReferenceMarks
    <3>4. Marks({}, {Token(here + 4, s, "object", n, o)}, scopes', entities')
      BY <2>3, <2>14, <3>1, <3>2, ReferenceMarks
    <3>5. Marks({}, {Token(here + 3, s, "parameter", n, c), Token(here + 4, s, "object", n, o)},
                scopes', entities')
      BY <3>3, <3>4 DEF Marks
    <3>6. Marks(entity_map \cup {}, occurrences', scopes', entities')
      BY <1>8, <2>1, <3>1, <3>5, MarksMore
    <3>7. entity_map \cup {} = entity_map' BY <1>1
    <3>8. QED BY <3>6, <3>7
  <2>17. QED BY <2>13, <2>15, <2>16 DEF IInv
<1>11. QED BY <1>9, <1>10 DEF enterMethodDefinition, opened

LEMMA KeepClassDefinition ==
    ASSUME IInv, Fits, NEW n \in Names, enterClassDefinition(n) PROVE IInv'
<1> DEFINE c == Len(entities) + 1
           s == Len(scopes) + 1
           x == Defined(n, 0, s, here + 1)
           prepared == Append(entities, x)
           new == inherit("class", Program)
           own == Append(owned_classes, c)
<1>1. /\ Top = Program \/ NestedClasses
      /\ Len(scopes) < MaxScopes
      /\ get_class(Program, n) = {} /\ get_object(Program, n) = {}
      /\ scopes' = Append(scopes, new) /\ stack' = Append(stack, s)
      /\ owned_classes' = own /\ entity_map' = entity_map
  BY DEF enterClassDefinition
<1>2. PICK more \in {1, 2} : here' = here + more BY DEF enterClassDefinition
<1>3. /\ here' \in Position /\ here <= here' /\ here + 1 \in Position /\ here + 1 <= here'
      /\ \A j \in 1..more : here + j \in Position
  <2>1. Len(stack') = Len(stack) + 1 BY <1>1, Known, AppendFacts DEF Stacked
  <2>2. /\ more \in Nat \ {0} /\ here' = here + more
        /\ Len(stack') \in Nat /\ Len(stack') >= 1
    BY <1>2, <2>1, Known
  <2>3. here' \in Position /\ here <= here' /\ \A j \in 1..more : here + j \in Position
    BY <2>2, Later
  <2>4. QED BY <1>2, <2>3, Known
<1>4. PICK E, H, K : CountedNow(E, H, K) BY DEF IInv, Ordered, CountedNow
<1>5. /\ new \in Scope /\ new.kind = "class" /\ new.parent = Program
      /\ new.low = here + 1 /\ new.local_objects = <<>>
      /\ new.parent_visible_object_count_at_creation = K[Program]
      /\ new.program_visible_class_count_at_creation = Len(owned_classes)
  <2>1. here + 1 <= MaxHere BY <1>3 DEF Position
  <2>2. "class" \in Kinds BY DEF Kinds
  <2>3. QED BY <1>4, <2>1, <2>2, Known, Inherits
<1>6. x \in Entity /\ x.class = 0 /\ x.scope = s /\ x.name = n
  <2>1. <<here + 1>> \in Seq(Position) BY <1>3
  <2>2. s \in Nat BY Known
  <2>3. QED BY <2>1, <2>2 DEF Defined, Entity
<1>7. /\ Ordered(scopes, stack, entities, owned_classes)
      /\ Counted(scopes, stack, entities, owned_classes, E, H, K)
      /\ Placed(scopes, entities, here) /\ Marks(entity_map, occurrences, scopes, entities)
  BY <1>4 DEF IInv, CountedNow
<1> HIDE DEF new, x
<1>8. Ordered(scopes, stack, prepared, own)
  <2>1. ~NestedClasses => Len(stack) = 1
    <3>1. \A i \in 1..Len(stack) : i # 1 => stack[i] # 1 BY Known, StackFacts
    <3>2. QED BY <1>1, <3>1, Known DEF Top, Program
  <2>2. \A d \in ClassesOf(entities) : entities[d].name # x.name
    <3>1. Program \in 1..Len(scopes) BY Known, TreeFacts DEF Program
    <3>2. {d \in ClassesOf(entities) : entities[d].name = n} \subseteq get_class(Program, n)
      BY <3>1, ClassesSeen
    <3>3. QED BY <1>1, <1>6, <3>2
  <2>3. \A o \in ObjectsOf(entities) : H[entities[o].scope] \in E[1] => entities[o].name # x.name
    <3>1. 1 \in 1..Len(stack) /\ stack[1] = Program BY Known
    <3>2. get_object(stack[1], n) = {} BY <1>1, <3>1
    <3>3. \A o \in ObjectsOf(entities) : H[entities[o].scope] \in E[stack[1]] => entities[o].name # n
      BY <1>4, <3>1, <3>2, ObjectsNotSeen
    <3>4. QED BY <1>6, <3>1, <3>3 DEF Program
  <2>4. QED BY <1>6, <1>7, <2>1, <2>2, <2>3, OrderedDefined
<1>9. /\ prepared \in Seq(Entity) /\ Len(prepared) = Len(entities) + 1
      /\ c \in 1..Len(prepared) /\ c \in Nat /\ Len(prepared) \in Nat
      /\ DOMAIN prepared = 1..Len(prepared)
  BY <1>6, Known, AppendProperties, LenProperties
<1>10. Range(own) = ClassesOf(prepared) BY <1>8 DEF Ordered, Owned
<1> HIDE DEF prepared, own, c
<1>11. /\ entities' \in Seq(Entity) /\ Likewise(prepared, entities')
       /\ Len(entities') = Len(prepared)
       /\ Marks({}, occurrences' \ occurrences, scopes', entities')
       /\ occurrences \subseteq occurrences'
  <2>1. s \in 1..Len(scopes')
    <3>1. Len(scopes') = Len(scopes) + 1 BY <1>1, Known, AppendFacts
    <3>2. QED BY <3>1, Known
  <2>2. "class" \in Tokens BY DEF Tokens
  <2>3. CASE /\ entities' = prepared
             /\ occurrences' = occurrences \cup {Token(here + 1, s, "class", n, c)}
    <3>1. Likewise(prepared, prepared) BY DEF Likewise
    <3>2. Marks({}, {Token(here + 1, s, "class", n, c)}, scopes', entities')
      BY <1>3, <1>9, <2>1, <2>2, <2>3, ReferenceMarks
    <3>3. QED BY <1>9, <2>3, <3>1, <3>2 DEF Marks
  <2>4. CASE \E p \in {own[i] : i \in DOMAIN own} :
                /\ here' = here + 2
                /\ entities' = add_reference(prepared, p, here + 2)
                /\ occurrences' = occurrences \cup {Token(here + 1, s, "class", n, c)}
                      \cup {Token(here + 2, s, "class", prepared[p].name, p)}
    <3>1. PICK p \in {own[i] : i \in DOMAIN own} :
                /\ here' = here + 2
                /\ entities' = add_reference(prepared, p, here + 2)
                /\ occurrences' = occurrences \cup {Token(here + 1, s, "class", n, c)}
                      \cup {Token(here + 2, s, "class", prepared[p].name, p)}
      BY <2>4
    <3>2. p \in 1..Len(prepared)
      <4>1. p \in Range(own) BY DEF Range
      <4>2. QED BY <1>9, <1>10, <4>1 DEF ClassesOf
    <3>3. here + 2 \in Position BY <1>3, <3>1
    <3>4. entities' \in Seq(Entity) /\ Likewise(prepared, entities')
      BY <1>9, <3>1, <3>2, <3>3, ReferenceAdded
    <3>5. Len(entities') = Len(prepared) BY <3>4 DEF Likewise
    <3>6. prepared[p].name \in Names
      <4>1. prepared[p] \in Entity BY <1>9, <3>2, Elements
      <4>2. QED BY <4>1 DEF Entity
    <3>7. Marks({}, {Token(here + 1, s, "class", n, c)}, scopes', entities')
      BY <1>3, <1>9, <2>1, <2>2, <3>5, ReferenceMarks
    <3>8. Marks({}, {Token(here + 2, s, "class", prepared[p].name, p)}, scopes', entities')
      BY <2>1, <2>2, <3>2, <3>3, <3>5, <3>6, ReferenceMarks
    <3>9. Marks({}, occurrences' \ occurrences, scopes', entities')
      BY <3>1, <3>7, <3>8 DEF Marks
    <3>10. QED BY <3>1, <3>4, <3>5, <3>9
  <2>5. QED BY <1>1, <2>3, <2>4 DEF enterClassDefinition, prepared, x, own, c
<1>12. Ordered(scopes, stack, entities', own) BY <1>8, <1>11, OrderedLikewise
<1>13. Ordered(scopes', stack', entities', owned_classes')
  <2>1. PICK F, G, L : Counted(scopes, stack, entities', own, F, G, L)
    BY <1>12 DEF Ordered
  <2>2. L = K
    <3>1. IsKnown(L, scopes) /\ IsKnown(K, scopes) BY <1>7, <2>1 DEF Counted
    <3>2. QED BY <3>1, Known, KnownUnique
  <2>3. new.program_visible_class_count_at_creation + 1 >= Len(own)
    <3>1. Len(own) = Len(owned_classes) + 1 BY Known, AppendFacts DEF own, Owned
    <3>2. QED BY <1>5, <3>1, Known
  <2>4. new.kind # "program" /\ new.kind # "supershell" BY <1>5
  <2>5. new.parent \in Range(stack) BY <1>5, Known
  <2>6. new.parent_visible_object_count_at_creation = L[new.parent] BY <1>5, <2>2
  <2>7. Ordered(Append(scopes, new), Append(stack, s), entities', own)
    BY <1>5, <1>12, <2>1, <2>3, <2>4, <2>5, <2>6, OrderedOpened
  <2>8. QED BY <1>1, <2>7
<1>14. /\ Len(scopes') = Len(scopes) + 1 /\ scopes' \in Seq(Scope) /\ s \in 1..Len(scopes')
  BY <1>1, <1>5, Known, AppendProperties
<1>15. Placed(scopes', entities', here')
  <2>1. new.low <= here' BY <1>3, <1>5
  <2>2. Placed(scopes', entities, here')
    BY <1>1, <1>3, <1>5, <1>7, <2>1, Known, PlacedOpened
  <2>3. x.class <= Len(entities) + 1 /\ x.scope \in 1..Len(scopes')
    BY <1>6, <1>14, Known
  <2>4. Len(entities) + 1 <= here' /\ here' <= here' BY <1>2, <1>3, Known
  <2>5. Placed(scopes', prepared, here')
    BY <1>3, <1>6, <1>14, <2>2, <2>3, <2>4, Known, PlacedMore DEF prepared
  <2>6. \A t \in 1..Len(scopes') : Alike(scopes'[t], scopes'[t]) BY DEF Alike
  <2>7. QED BY <1>3, <1>9, <1>11, <1>14, <2>4, <2>5, <2>6, PlacedAlike
<1>16. Marks(entity_map', occurrences', scopes', entities')
  <2>1. /\ Len(scopes) \in Nat /\ Len(scopes') \in Nat /\ Len(scopes) <= Len(scopes')
        /\ Len(entities) \in Nat /\ Len(entities') \in Nat /\ Len(entities) <= Len(entities')
    BY <1>9, <1>11, <1>14, Known
  <2>2. Marks(entity_map \cup {}, occurrences \cup (occurrences' \ occurrences), scopes', entities')
    BY <1>7, <1>11, <2>1, MarksMore
  <2>3. /\ entity_map \cup {} = entity_map'
        /\ occurrences \cup (occurrences' \ occurrences) = occurrences'
    BY <1>1, <1>11
  <2>4. QED BY <2>2, <2>3
<1>17. QED BY <1>13, <1>15, <1>16 DEF IInv

--------------------------------------------------------------------------------
(* The results. *)

LEMMA InitInv ==
    ASSUME Init PROVE IInv
<1> DEFINE root == [kind |-> "program", parent |-> Program, low |-> 0, local_objects |-> <<>>,
                    parent_visible_object_count_at_creation |-> 0,
                    program_visible_class_count_at_creation |-> 0]
<1>1. /\ scopes = <<root>> /\ stack = <<1>> /\ entities = <<>> /\ owned_classes = <<>>
      /\ entity_map = {} /\ occurrences = {} /\ here = 0
  BY DEF Init, Program
<1>2. root \in Scope /\ root.parent = 1 /\ root.kind = "program" /\ root.low = 0
      /\ root.local_objects = <<>>
  BY SymbolsAssumption DEF Scope, Kinds, ScopeId, Position, SIZE_MAX, Program
<1> HIDE DEF root
<1>3. /\ Len(scopes) = 1 /\ scopes[1] = root /\ scopes \in Seq(Scope) /\ DOMAIN scopes = 1..1
      /\ Len(stack) = 1 /\ stack[1] = 1 /\ stack \in Seq(1..1) /\ 1..1 = {1} /\ 2..1 = {}
  BY <1>1, <1>2
<1>4. Tree(scopes) BY <1>2, <1>3 DEF Tree
<1>5. Stacked(scopes, stack) BY <1>3 DEF Stacked
<1> DEFINE E == [s \in {1} |-> {1}]
           H == [s \in {1} |-> 1]
           K == [s \in {1} |-> 0]
<1>6. IsEnclosing(E, scopes) BY <1>3 DEF IsEnclosing, Program
<1>7. IsHolder(H, scopes, stack) BY <1>2, <1>3 DEF IsHolder
<1>8. IsKnown(K, scopes)
  <2>1. Len(root.local_objects) = 0 BY <1>2
  <2>2. [e \in {1} |-> Len(scopes[e].local_objects) +
                          (IF e = Program THEN 0 ELSE K[scopes[e].parent])] = K
    BY <1>3, <2>1 DEF Program
  <2>3. QED BY <1>3, <2>2 DEF IsKnown
<1>9. ObjectsOf(entities) = {} /\ ClassesOf(entities) = {} /\ Len(entities) = 0
      /\ Len(owned_classes) = 0 /\ entities \in Seq(Entity)
      /\ owned_classes \in Seq(ClassesOf(entities))
  BY <1>1 DEF ObjectsOf, ClassesOf
<1>10. Owned(entities, owned_classes)
  <2>1. Range(owned_classes) = {} BY <1>1 DEF Range
  <2>2. QED BY <1>9, <2>1 DEF Owned
<1>11. Scoped(scopes, stack, entities, E, H, K)
  <2>1. Range(root.local_objects) = {} BY <1>2 DEF Range
  <2>2. Accounted(scopes, entities, E, H, K, 1)
    BY <1>3, <1>9, <2>1 DEF Accounted, Held, Distinct
  <2>3. QED BY <1>3, <1>9, <2>2 DEF Scoped
<1>12. Classed(scopes, stack, entities, owned_classes, E, H)
  BY <1>3, <1>9 DEF Classed
<1>13. Counted(scopes, stack, entities, owned_classes, E, H, K)
  <2> HIDE DEF E, H, K
  <2>1. QED BY <1>6, <1>7, <1>8, <1>11, <1>12 DEF Counted
<1>14. Ordered(scopes, stack, entities, owned_classes)
  <2> HIDE DEF E, H, K
  <2>1. QED BY <1>4, <1>5, <1>10, <1>13 DEF Ordered
<1>15. Placed(scopes, entities, here)
  <2>1. 1..0 = {} /\ 1 <= MaxScopes BY SymbolsAssumption
  <2>2. QED BY <1>1, <1>2, <1>3, <1>9, <2>1, SymbolsAssumption DEF Placed, Position
<1>16. Marks(entity_map, occurrences, scopes, entities) BY <1>1 DEF Marks
<1>17. QED BY <1>14, <1>15, <1>16 DEF IInv

LEMMA NextInv ==
    ASSUME IInv, [Next]_vars PROVE IInv'
<1>1. CASE Next
  <2>1. Fits BY <1>1 DEF Next
  <2>2. CASE enterBashFunction \/ enterBlock \/ enterSupershell
    BY <2>1, <2>2, KeepOpen DEF enterBashFunction, enterBlock, enterSupershell
  <2>3. CASE \E n \in Names : enterClassDefinition(n) BY <2>1, <2>3, KeepClassDefinition
  <2>4. CASE enterMethodDefinition BY <2>1, <2>4, KeepMethodDefinition
  <2>5. CASE exitSupershell
    <3>1. "supershell" \in Kinds \ {"program"} BY DEF Kinds
    <3>2. Leave("supershell", mark_entity(Top, here + 1), adopt(scopes[Top].parent, Top))
      BY <2>5 DEF exitSupershell
    <3>3. QED BY <2>1, <3>1, <3>2, KeepLeave
  <2>6. ASSUME NEW kind \in {"function", "class", "method"},
               Leave(kind, mark_entity(Top, here + 1), scopes)
        PROVE  IInv'
    <3>1. kind \in Kinds \ {"program"} /\ kind # "supershell" BY DEF Kinds
    <3>2. QED BY <2>1, <2>6, <3>1, KeepLeave
  <2>7. CASE exitBashFunction \/ exitClassDefinition \/ exitMethodDefinition
    BY <2>6, <2>7 DEF exitBashFunction, exitClassDefinition, exitMethodDefinition
  <2>8. CASE exitBlock
    <3>1. "block" \in Kinds \ {"program"} BY DEF Kinds
    <3>2. Leave("block", {}, scopes) BY <2>8 DEF exitBlock
    <3>3. QED BY <2>1, <3>1, <3>2, KeepLeave
  <2>9. CASE \E c, n \in Names : ObjectInstantiation(c, n)
    BY <2>1, <2>9, KeepObjectInstantiation
  <2>10. CASE \E n \in Names : ObjectReference(n) BY <2>1, <2>10, KeepObjectReference
  <2>11. CASE \E c \in Names : NewStatement(c) BY <2>1, <2>11, KeepNewStatement
  <2>12. QED BY <1>1, <2>2, <2>3, <2>4, <2>5, <2>7, <2>8, <2>9, <2>10, <2>11 DEF Next
<1>2. CASE UNCHANGED vars
  <2>1. UNCHANGED <<scopes, stack, entities, owned_classes, entity_map, occurrences, here>>
    BY <1>2 DEF vars
  <2>2. QED BY <2>1 DEF IInv
<1>3. QED BY <1>1, <1>2

LEMMA Invariant == Spec => []IInv
<1>1. Init => IInv BY InitInv
<1>2. IInv /\ [Next]_vars => IInv' BY NextInv
<1>3. QED BY <1>1, <1>2, PTL DEF Spec

\* The tree stays a tree: every index names something that exists, every position is in
\* the program, and no scope is told of more objects or classes than there can be.
THEOREM TypesHold == Spec => []TypeOK
<1>1. IInv => TypeOK BY InvTypes
<1>2. QED BY <1>1, Invariant, PTL

\* Wherever classes are defined, a name means the one object that was declared left of it
\* or around it: the counts that scopes keep of their parents hide no object.
THEOREM ObjectsFound ==
    Spec => [](\A n \in Names :
                  get_object(Top, n) = {o \in Objects : /\ entities[o].name = n
                                           /\ Holder[entities[o].scope] \in Enclosing[Top]})
<1>1. IInv => \A n \in Names :
                 get_object(Top, n) = {o \in Objects : /\ entities[o].name = n
                                          /\ Holder[entities[o].scope] \in Enclosing[Top]}
  BY InvFindsObjects
<1>2. QED BY <1>1, Invariant, PTL

\* While classes are only defined in the program itself, the scope that is being read finds
\* exactly what is left or up, classes as well as objects, and never two things of a name.
THEOREM FoundLeftOrUp ==
    ASSUME ~NestedClasses PROVE Spec => []LeftOrUp
<1>1. IInv => LeftOrUp BY InvFinds
<1>2. QED BY <1>1, Invariant, PTL

--------------------------------------------------------------------------------
(* What the server is asked about. *)

\* Scopes lie where their tokens are: what was opened later begins later, a token is
\* inside the scope it was read in and not yet in those that were opened inside of it,
\* and what a mark covers was read in the marked scope or in one opened after it.
Spans(sc, st, map, tokens, at) ==
    /\ \A s \in 1..Len(sc) : sc[s].low <= at
    /\ \A s, t \in 1..Len(sc) : t < s => sc[t].low < sc[s].low
    /\ \A x \in tokens : sc[x.scope].low <= x.at /\ x.at <= at
    /\ \A x \in tokens, u \in Range(st) : x.scope < u => x.at < sc[u].low
    /\ \A m \in map : m.low = sc[m.entity].low /\ m.entity \notin Range(st) /\ m.high <= at
    /\ \A m \in map, x \in tokens : m.low <= x.at /\ x.at <= m.high => m.entity <= x.scope
    /\ \A s \in 1..Len(sc) :
          s \notin Range(st) /\ sc[s].kind # "block" =>
             \E m \in map : m.entity = s /\ \A x \in tokens : x.scope = s => x.at <= m.high

\* The numbers that positions and scopes are.
Numbered(sc, map, tokens, at) ==
    /\ Len(sc) \in Nat /\ at \in Nat
    /\ \A s \in 1..Len(sc) : s \in Nat /\ sc[s].low \in Nat
    /\ \A x \in tokens : x.at \in Nat /\ x.scope \in 1..Len(sc)
    /\ \A m \in map : m.low \in Nat /\ m.high \in Nat /\ m.entity \in 1..Len(sc)

\* Tokens read after a position, all of them in the scope s.
Fresh(fresh, s, at, to) ==
    at \in Nat /\ to \in Nat /\ at < to
    /\ \A x \in fresh : x.scope = s /\ x.at \in Nat /\ at < x.at /\ x.at <= to

LEMMA SpansAlike ==
    ASSUME NEW sc, NEW st, NEW map, NEW tokens, NEW at, Spans(sc, st, map, tokens, at), NEW tc,
           Len(tc) = Len(sc), \A s \in 1..Len(sc) : Alike(tc[s], sc[s]),
           \A x \in tokens : x.scope \in 1..Len(sc), \A m \in map : m.entity \in 1..Len(sc),
           Range(st) \subseteq 1..Len(sc)
    PROVE  Spans(tc, st, map, tokens, at)
<1>1. \A s \in 1..Len(sc) : tc[s].low = sc[s].low /\ tc[s].kind = sc[s].kind BY DEF Alike
<1>2. QED BY <1>1 DEF Spans

\* More is read in a scope that is open and has no younger one in it.
LEMMA SpansMore ==
    ASSUME NEW sc, NEW st, NEW map, NEW tokens, NEW at, Spans(sc, st, map, tokens, at),
           Numbered(sc, map, tokens, at), Range(st) \subseteq 1..Len(sc),
           NEW top \in Range(st), \A u \in Range(st) : u <= top,
           NEW fresh, NEW to, Fresh(fresh, top, at, to)
    PROVE  Spans(sc, st, map, tokens \cup fresh, to)
<1> DEFINE all == tokens \cup fresh
<1>1. at \in Nat /\ to \in Nat /\ at < to /\ top \in 1..Len(sc) /\ top \in Nat
  BY DEF Fresh, Numbered
<1>2. \A x \in fresh : x.scope = top /\ x.at \in Nat /\ at < x.at /\ x.at <= to BY DEF Fresh
<1>3. \A s \in 1..Len(sc) : sc[s].low <= to
  BY <1>1 DEF Spans, Numbered
<1>4. \A s, t \in 1..Len(sc) : t < s => sc[t].low < sc[s].low BY DEF Spans
<1>5. ASSUME NEW x \in all PROVE sc[x.scope].low <= x.at /\ x.at <= to
  <2>1. CASE x \in tokens
    <3>1. sc[x.scope].low <= x.at /\ x.at <= at /\ x.at \in Nat BY <2>1 DEF Spans, Numbered
    <3>2. QED BY <1>1, <3>1
  <2>2. CASE x \in fresh
    <3>1. sc[top].low <= at /\ sc[top].low \in Nat BY <1>1 DEF Spans, Numbered
    <3>2. QED BY <1>1, <1>2, <2>2, <3>1
  <2>3. QED BY <2>1, <2>2
<1>6. ASSUME NEW x \in all, NEW u \in Range(st), x.scope < u PROVE x.at < sc[u].low
  <2>1. CASE x \in tokens BY <1>6, <2>1 DEF Spans
  <2>2. CASE x \in fresh
    <3>1. top < u /\ u <= top /\ u \in Nat BY <1>2, <1>6, <2>2 DEF Numbered
    <3>2. QED BY <1>1, <3>1
  <2>3. QED BY <2>1, <2>2
<1>7. ASSUME NEW m \in map
      PROVE  /\ m.low = sc[m.entity].low /\ m.entity \notin Range(st) /\ m.high <= to
             /\ \A x \in all : m.low <= x.at /\ x.at <= m.high => m.entity <= x.scope
  <2>1. m.low = sc[m.entity].low /\ m.entity \notin Range(st) /\ m.high <= at BY DEF Spans
  <2>2. m.high \in Nat BY DEF Numbered
  <2>3. \A x \in fresh : ~(x.at <= m.high) BY <1>1, <1>2, <2>1, <2>2
  <2>4. \A x \in tokens : m.low <= x.at /\ x.at <= m.high => m.entity <= x.scope BY DEF Spans
  <2>5. m.high <= to BY <1>1, <2>1, <2>2
  <2>6. QED BY <2>1, <2>3, <2>4, <2>5
<1>8. ASSUME NEW s \in 1..Len(sc), s \notin Range(st), sc[s].kind # "block"
      PROVE  \E m \in map : m.entity = s /\ \A x \in all : x.scope = s => x.at <= m.high
  <2>1. PICK m \in map : m.entity = s /\ \A x \in tokens : x.scope = s => x.at <= m.high
    BY <1>8 DEF Spans
  <2>2. \A x \in fresh : x.scope # s BY <1>2, <1>8
  <2>3. QED BY <2>1, <2>2
<1> HIDE DEF all
<1>9. Spans(sc, st, map, all, to) BY <1>3, <1>4, <1>5, <1>6, <1>7, <1>8 DEF Spans
<1>10. QED BY <1>9 DEF all

\* A scope is opened, and tokens may be read at once.
LEMMA SpansOpened ==
    ASSUME NEW sc \in Seq(Scope), NEW st \in Seq(1..Len(sc)), NEW map, NEW tokens, NEW at,
           Spans(sc, st, map, tokens, at), Numbered(sc, map, tokens, at),
           NEW new \in Scope, new.low = at + 1, NEW n, n = Len(sc) + 1,
           NEW fresh, NEW to, Fresh(fresh, n, at, to)
    PROVE  Spans(Append(sc, new), Append(st, n), map, tokens \cup fresh, to)
<1> DEFINE tc == Append(sc, new)
           ut == Append(st, n)
           all == tokens \cup fresh
<1>1. /\ Len(tc) = Len(sc) + 1 /\ Len(sc) \in Nat
      /\ \A s \in 1..Len(sc) : tc[s] = sc[s]
      /\ tc[n] = new
      /\ \A s \in 1..Len(tc) : s \in 1..Len(sc) \/ s = n
  BY AppendFacts
<1>2. Range(ut) = Range(st) \cup {n} BY AppendFacts
<1>3. Range(st) \subseteq 1..Len(sc)
  <2>1. \A i \in DOMAIN st : st[i] \in 1..Len(sc) BY LenProperties, ElementOfSeq
  <2>2. QED BY <2>1 DEF Range
<1> HIDE DEF tc, ut
<1>4. at \in Nat /\ to \in Nat /\ at < to /\ n \in Nat /\ n \notin 1..Len(sc)
      /\ \A s \in 1..Len(sc) : s \in Nat /\ s < n
  BY <1>1 DEF Fresh
<1>5. \A x \in fresh : x.scope = n /\ x.at \in Nat /\ at < x.at /\ x.at <= to BY DEF Fresh
<1>6. \A s \in 1..Len(sc) : sc[s].low <= at /\ sc[s].low \in Nat BY DEF Spans, Numbered
<1>7. ASSUME NEW s \in 1..Len(tc) PROVE tc[s].low <= to
  <2>1. CASE s = n
    <3>1. tc[s].low = at + 1 BY <1>1, <2>1
    <3>2. QED BY <1>4, <3>1
  <2>2. CASE s \in 1..Len(sc)
    <3>1. tc[s].low <= at /\ tc[s].low \in Nat BY <1>1, <1>6, <2>2
    <3>2. QED BY <1>4, <3>1
  <2>3. QED BY <1>1, <2>1, <2>2
<1>8. ASSUME NEW s \in 1..Len(tc), NEW t \in 1..Len(tc), t < s PROVE tc[t].low < tc[s].low
  <2>1. CASE s = n
    <3>1. t \in 1..Len(sc) BY <1>1, <1>4, <1>8, <2>1
    <3>2. sc[t].low < at + 1 BY <1>4, <1>6, <3>1
    <3>3. QED BY <1>1, <2>1, <3>1, <3>2
  <2>2. CASE s \in 1..Len(sc)
    <3>1. t # n BY <1>4, <1>8, <2>2
    <3>2. t \in 1..Len(sc) BY <1>1, <3>1
    <3>3. sc[t].low < sc[s].low BY <1>8, <2>2, <3>2 DEF Spans
    <3>4. QED BY <1>1, <2>2, <3>2, <3>3
  <2>3. QED BY <1>1, <2>1, <2>2
<1>9. ASSUME NEW x \in all PROVE tc[x.scope].low <= x.at /\ x.at <= to
  <2>1. CASE x \in tokens
    <3>1. sc[x.scope].low <= x.at /\ x.at <= at /\ x.at \in Nat /\ x.scope \in 1..Len(sc)
      BY <2>1 DEF Spans, Numbered
    <3>2. QED BY <1>1, <1>4, <3>1
  <2>2. CASE x \in fresh BY <1>1, <1>4, <1>5, <2>2
  <2>3. QED BY <2>1, <2>2
<1>10. ASSUME NEW x \in all, NEW u \in Range(ut), x.scope < u PROVE x.at < tc[u].low
  <2>1. CASE x \in tokens
    <3>1. x.at <= at /\ x.at \in Nat BY <2>1 DEF Spans, Numbered
    <3>2. CASE u = n BY <1>1, <1>4, <3>1, <3>2
    <3>3. CASE u \in Range(st)
      <4>1. x.at < sc[u].low BY <1>10, <2>1, <3>3 DEF Spans
      <4>2. QED BY <1>1, <1>3, <3>3, <4>1
    <3>4. QED BY <1>2, <3>2, <3>3
  <2>2. CASE x \in fresh
    <3>1. n < u /\ (u = n \/ u \in 1..Len(sc)) BY <1>2, <1>3, <1>5, <1>10, <2>2
    <3>2. QED BY <1>4, <3>1
  <2>3. QED BY <2>1, <2>2
<1>11. ASSUME NEW m \in map
       PROVE  /\ m.low = tc[m.entity].low /\ m.entity \notin Range(ut) /\ m.high <= to
              /\ \A x \in all : m.low <= x.at /\ x.at <= m.high => m.entity <= x.scope
  <2>1. m.low = sc[m.entity].low /\ m.entity \notin Range(st) /\ m.high <= at BY DEF Spans
  <2>2. m.high \in Nat /\ m.entity \in 1..Len(sc) BY DEF Numbered
  <2>3. \A x \in fresh : m.entity <= x.scope BY <1>4, <1>5, <2>2
  <2>4. \A x \in tokens : m.low <= x.at /\ x.at <= m.high => m.entity <= x.scope BY DEF Spans
  <2>5. m.high <= to BY <1>4, <2>1, <2>2
  <2>6. m.low = tc[m.entity].low /\ m.entity \notin Range(ut) BY <1>1, <1>2, <1>4, <2>1, <2>2
  <2>7. QED BY <2>3, <2>4, <2>5, <2>6
<1>12. ASSUME NEW s \in 1..Len(tc), s \notin Range(ut), tc[s].kind # "block"
       PROVE  \E m \in map : m.entity = s /\ \A x \in all : x.scope = s => x.at <= m.high
  <2>1. s \in 1..Len(sc) /\ s \notin Range(st) /\ s # n BY <1>1, <1>2, <1>12
  <2>2. sc[s].kind # "block" BY <1>1, <1>12, <2>1
  <2>3. PICK m \in map : m.entity = s /\ \A x \in tokens : x.scope = s => x.at <= m.high
    BY <2>1, <2>2 DEF Spans
  <2>4. \A x \in fresh : x.scope # s BY <1>5, <2>1
  <2>5. QED BY <2>3, <2>4
<1> HIDE DEF all
<1>13. Spans(tc, ut, map, all, to) BY <1>7, <1>8, <1>9, <1>10, <1>11, <1>12 DEF Spans
<1>14. QED BY <1>13 DEF all, tc, ut

\* The innermost scope is closed, and marked unless it is a block.
LEMMA SpansClosed ==
    ASSUME NEW sc, NEW st, NEW map, NEW tokens, NEW at, Spans(sc, st, map, tokens, at),
           Numbered(sc, map, tokens, at), NEW ut, NEW top \in 1..Len(sc),
           Range(st) = Range(ut) \cup {top}, top \notin Range(ut),
           NEW marks,
           marks = IF sc[top].kind = "block" THEN {}
                   ELSE {[low |-> sc[top].low, high |-> at + 1, entity |-> top]}
    PROVE  Spans(sc, ut, map \cup marks, tokens, at + 1)
<1> DEFINE all == map \cup marks
           to  == at + 1
<1>1. at \in Nat /\ to \in Nat /\ at < to /\ top \in Nat BY DEF Numbered
<1>2. \A m \in marks : /\ m.low = sc[top].low /\ m.high = to /\ m.entity = top
                       /\ sc[top].kind # "block"
  OBVIOUS
<1>3. \A s \in 1..Len(sc) : sc[s].low <= to
  <2>1. \A s \in 1..Len(sc) : sc[s].low <= at /\ sc[s].low \in Nat BY DEF Spans, Numbered
  <2>2. QED BY <1>1, <2>1
<1>4. \A s, t \in 1..Len(sc) : t < s => sc[t].low < sc[s].low BY DEF Spans
<1>5. ASSUME NEW x \in tokens
      PROVE  /\ sc[x.scope].low <= x.at /\ x.at <= to /\ x.at \in Nat /\ x.scope \in Nat
             /\ x.scope < top => x.at < sc[top].low
  <2>1. sc[x.scope].low <= x.at /\ x.at <= at /\ x.at \in Nat /\ x.scope \in Nat
    BY DEF Spans, Numbered
  <2>2. x.scope < top => x.at < sc[top].low BY DEF Spans
  <2>3. QED BY <1>1, <2>1, <2>2
<1>6. \A x \in tokens, u \in Range(ut) : x.scope < u => x.at < sc[u].low BY DEF Spans
<1>7. ASSUME NEW m \in all
      PROVE  /\ m.low = sc[m.entity].low /\ m.entity \notin Range(ut) /\ m.high <= to
             /\ \A x \in tokens : m.low <= x.at /\ x.at <= m.high => m.entity <= x.scope
  <2>1. CASE m \in map
    <3>1. m.low = sc[m.entity].low /\ m.entity \notin Range(ut) /\ m.high <= at /\ m.high \in Nat
      BY <2>1 DEF Spans, Numbered
    <3>2. \A x \in tokens : m.low <= x.at /\ x.at <= m.high => m.entity <= x.scope
      BY <2>1 DEF Spans
    <3>3. m.high <= to BY <1>1, <3>1
    <3>4. QED BY <3>1, <3>2, <3>3
  <2>2. CASE m \in marks
    <3>1. m.low = sc[top].low /\ m.high = to /\ m.entity = top /\ m.high <= to
      BY <1>1, <1>2, <2>2
    <3>2. sc[top].low \in Nat BY DEF Numbered
    <3>3. \A x \in tokens : sc[top].low <= x.at => top <= x.scope BY <1>1, <1>5, <3>2
    <3>4. QED BY <3>1, <3>3
  <2>3. QED BY <2>1, <2>2
<1>8. ASSUME NEW s \in 1..Len(sc), s \notin Range(ut), sc[s].kind # "block"
      PROVE  \E m \in all : m.entity = s /\ \A x \in tokens : x.scope = s => x.at <= m.high
  <2>1. CASE s = top
    <3>1. PICK m \in marks : TRUE BY <1>8, <2>1
    <3>2. m.entity = s /\ m.high = to BY <1>2, <2>1, <3>1
    <3>3. QED BY <1>5, <3>1, <3>2
  <2>2. CASE s # top
    <3>1. PICK m \in map : m.entity = s /\ \A x \in tokens : x.scope = s => x.at <= m.high
      BY <1>8, <2>2 DEF Spans
    <3>2. QED BY <3>1
  <2>3. QED BY <2>1, <2>2
<1> HIDE DEF all, to
<1>9. Spans(sc, ut, all, tokens, to) BY <1>3, <1>4, <1>5, <1>6, <1>7, <1>8 DEF Spans
<1>10. QED BY <1>9 DEF all, to

\* Entities, and scopes, of which there are more than before; those that were there
\* only differ in their references, and their objects.
Longer(es, fs) ==
    /\ Len(es) \in Nat /\ Len(fs) \in Nat /\ Len(es) <= Len(fs)
    /\ \A e \in 1..Len(es) :
          fs[e].name = es[e].name /\ fs[e].class = es[e].class /\ fs[e].scope = es[e].scope

Deeper(sc, tc) ==
    /\ Len(sc) \in Nat /\ Len(tc) \in Nat /\ Len(sc) <= Len(tc)
    /\ \A s \in 1..Len(sc) : Alike(tc[s], sc[s])

LEMMA LongerFacts ==
    ASSUME NEW es \in Seq(Entity), NEW fs \in Seq(Entity), Longer(es, fs)
    PROVE  /\ DOMAIN es = 1..Len(es) /\ DOMAIN fs = 1..Len(fs)
           /\ \A e \in 1..Len(es) : e \in 1..Len(fs)
           /\ ObjectsOf(es) = ObjectsOf(fs) \cap 1..Len(es)
           /\ ClassesOf(es) = ClassesOf(fs) \cap 1..Len(es)
<1>1. DOMAIN es = 1..Len(es) /\ DOMAIN fs = 1..Len(fs) BY LenProperties
<1>2. \A e \in 1..Len(es) : e \in 1..Len(fs) BY DEF Longer
<1>3. ObjectsOf(es) = ObjectsOf(fs) \cap 1..Len(es) BY <1>1, <1>2 DEF ObjectsOf, Longer
<1>4. QED BY <1>1, <1>2, <1>3 DEF ClassesOf

LEMMA LikewiseLonger ==
    ASSUME NEW es, NEW fs, Len(es) \in Nat, Likewise(es, fs)
    PROVE  Longer(es, fs)
BY DEF Likewise, Longer

LEMMA AppendedLonger ==
    ASSUME NEW es \in Seq(Entity), NEW x \in Entity
    PROVE  Longer(es, Append(es, x))
<1> DEFINE fs == Append(es, x)
<1>1. /\ Len(fs) = Len(es) + 1 /\ Len(es) \in Nat
      /\ \A i \in 1..Len(es) : fs[i] = es[i]
  BY AppendFacts
<1> HIDE DEF fs
<1>2. Longer(es, fs) BY <1>1 DEF Longer
<1>3. QED BY <1>2 DEF fs

LEMMA LongerTwice ==
    ASSUME NEW es, NEW fs, NEW gs, Longer(es, fs), Longer(fs, gs)
    PROVE  Longer(es, gs)
<1>1. \A e \in 1..Len(es) : e \in 1..Len(fs) BY DEF Longer
<1>2. Len(es) <= Len(gs) BY DEF Longer
<1>3. QED BY <1>1, <1>2 DEF Longer

LEMMA OpenedDeeper ==
    ASSUME NEW sc \in Seq(Scope), NEW new
    PROVE  Deeper(sc, Append(sc, new))
<1> DEFINE tc == Append(sc, new)
<1>1. /\ Len(tc) = Len(sc) + 1 /\ Len(sc) \in Nat
      /\ \A i \in 1..Len(sc) : tc[i] = sc[i]
  BY AppendFacts
<1> HIDE DEF tc
<1>2. Deeper(sc, tc) BY <1>1 DEF Deeper, Alike
<1>3. QED BY <1>2 DEF tc

\* A class is told from the others by its name.
NamedOnce(es) == \A c, d \in ClassesOf(es) : es[c].name = es[d].name => c = d

LEMMA NamedOnceMore ==
    ASSUME NEW es \in Seq(Entity), NEW fs \in Seq(Entity), Longer(es, fs), NamedOnce(es), NEW c,
           \A d \in ClassesOf(fs) :
              d \in 1..Len(es) \/ (d = c /\ \A e \in ClassesOf(es) : es[e].name # fs[d].name)
    PROVE  NamedOnce(fs)
<1>1. \A d \in ClassesOf(fs) : d \in 1..Len(es) => d \in ClassesOf(es) /\ fs[d].name = es[d].name
  BY LongerFacts DEF Longer
<1>2. QED BY <1>1 DEF NamedOnce

\* What a token that names a class says, once classes were added.
NotedAs(own, sc, es, x) ==
    /\ x.token \in {"class", "type"} => x.means \in ClassesOf(es) /\ es[x.means].name = x.name
    /\ x.token = "type" =>
          \E k \in 1..Len(own) :
             /\ own[k] = x.means
             /\ x.scope = Program \/ k - 1 <= sc[x.scope].program_visible_class_count_at_creation

LEMMA NotedLater ==
    ASSUME NEW own, NEW sc, NEW es \in Seq(Entity), NEW x, NotedAs(own, sc, es, x),
           NEW tc, NEW fs \in Seq(Entity), Deeper(sc, tc), Longer(es, fs), x.scope \in 1..Len(sc),
           NEW more, \A k \in 1..Len(own) : k \in 1..Len(more) /\ more[k] = own[k]
    PROVE  NotedAs(more, tc, fs, x)
<1>1. \A c \in ClassesOf(es) : c \in ClassesOf(fs) /\ fs[c].name = es[c].name
  BY LongerFacts DEF Longer
<1>2. tc[x.scope].program_visible_class_count_at_creation
         = sc[x.scope].program_visible_class_count_at_creation
  BY DEF Deeper, Alike
<1>3. QED BY <1>1, <1>2 DEF NotedAs

\* All the references there are.
RefsOf(es) == {p \in (1..Len(es)) \X Nat : p[2] \in Range(es[p[1]].references)}

LEMMA RefsInSight ==
    ASSUME NEW es \in Seq(Entity), NEW e \in 1..Len(es), NEW r
    PROVE  r \in Range(es[e].references) <=> <<e, r>> \in RefsOf(es)
<1>1. es[e].references \in Seq(Position)
  <2>1. es[e] \in Entity BY ElementOfSeq
  <2>2. QED BY <2>1 DEF Entity
<1>2. Range(es[e].references) \subseteq Nat
  <2>1. \A i \in DOMAIN es[e].references : es[e].references[i] \in Position
    BY <1>1, LenProperties, ElementOfSeq
  <2>2. QED BY <2>1, SymbolsAssumption DEF Range, Position
<1>3. QED BY <1>2 DEF RefsOf

LEMMA RefsAppended ==
    ASSUME NEW es \in Seq(Entity), NEW x \in Entity, NEW at \in Nat, x.references = <<at>>
    PROVE  RefsOf(Append(es, x)) = RefsOf(es) \cup {<<Len(es) + 1, at>>}
<1> DEFINE fs == Append(es, x)
           n == Len(es) + 1
<1>1. /\ Len(fs) = n /\ Len(es) \in Nat
      /\ \A i \in 1..Len(es) : fs[i] = es[i]
      /\ fs[n] = x
  BY AppendFacts
<1>2. /\ \A i \in 1..n : i \in 1..Len(es) \/ i = n
      /\ \A i \in 1..Len(es) : i \in 1..n /\ i # n
      /\ n \in 1..n
  BY <1>1
<1>3. Range(x.references) = {at} BY DEF Range
<1> HIDE DEF fs, n
<1>4. \A e \in 1..n : e # n => fs[e] = es[e] /\ e \in 1..Len(es) BY <1>1, <1>2
<1>5. RefsOf(fs) = {p \in (1..n) \X Nat : p[2] \in Range(fs[p[1]].references)}
  BY <1>1 DEF RefsOf
<1>6. ASSUME NEW p \in RefsOf(fs) PROVE p \in RefsOf(es) \cup {<<n, at>>}
  <2>1. PICK e \in 1..n, r \in Nat : p = <<e, r>> BY <1>5
  <2>2. r \in Range(fs[e].references) BY <1>5, <2>1
  <2>3. CASE e = n BY <1>1, <1>3, <2>1, <2>2, <2>3
  <2>4. CASE e # n BY <1>4, <2>1, <2>2, <2>4 DEF RefsOf
  <2>5. QED BY <2>3, <2>4
<1>7. ASSUME NEW p \in RefsOf(es) PROVE p \in RefsOf(fs)
  <2>1. PICK e \in 1..Len(es), r \in Nat : p = <<e, r>> BY DEF RefsOf
  <2>2. r \in Range(es[e].references) BY <2>1 DEF RefsOf
  <2>3. e \in 1..n /\ fs[e] = es[e] BY <1>1, <1>2
  <2>4. QED BY <1>5, <2>1, <2>2, <2>3
<1>8. <<n, at>> \in RefsOf(fs) BY <1>1, <1>2, <1>3, <1>5
<1>9. RefsOf(fs) = RefsOf(es) \cup {<<n, at>>} BY <1>6, <1>7, <1>8
<1>10. QED BY <1>9 DEF fs, n

LEMMA RefsReferred ==
    ASSUME NEW es \in Seq(Entity), NEW e \in 1..Len(es), NEW at \in Position
    PROVE  RefsOf(add_reference(es, e, at)) = RefsOf(es) \cup {<<e, at>>}
<1> DEFINE list == Append(es[e].references, at)
           x == [es[e] EXCEPT !.references = list]
           fs == add_reference(es, e, at)
<1>1. es[e] \in Entity /\ at \in Nat /\ Len(es) \in Nat
  BY ElementOfSeq, LenProperties, SymbolsAssumption DEF Position
<1>2. Range(list) = Range(es[e].references) \cup {at}
  BY <1>1, AppendFacts DEF Entity
<1>3. list \in Seq(Position) BY <1>1, AppendProperties DEF Entity
<1> HIDE DEF list
<1>4. x.references = list /\ x \in Entity BY <1>1, <1>3 DEF Entity
<1>5. fs = [es EXCEPT ![e] = x] BY DEF add_reference, list
<1> HIDE DEF x
<1>6. /\ Len(fs) = Len(es)
      /\ \A i \in 1..Len(es) : fs[i] = IF i = e THEN x ELSE es[i]
  BY <1>4, <1>5, ExceptSeq
<1> HIDE DEF fs
<1>7. \A i \in 1..Len(es) : Range(fs[i].references) =
                               Range(es[i].references) \cup IF i = e THEN {at} ELSE {}
  BY <1>2, <1>4, <1>6
<1>8. RefsOf(fs) = {p \in (1..Len(es)) \X Nat :
                       p[2] \in Range(es[p[1]].references) \cup IF p[1] = e THEN {at} ELSE {}}
  BY <1>6, <1>7 DEF RefsOf
<1>9. RefsOf(fs) = RefsOf(es) \cup {<<e, at>>}
  <2>1. ASSUME NEW p \in RefsOf(fs) PROVE p \in RefsOf(es) \cup {<<e, at>>}
    <3>1. PICK i \in 1..Len(es), r \in Nat : p = <<i, r>> BY <1>8
    <3>2. r \in Range(es[i].references) \cup IF i = e THEN {at} ELSE {} BY <1>8, <3>1
    <3>3. CASE r \in Range(es[i].references) BY <3>1, <3>3 DEF RefsOf
    <3>4. CASE r \notin Range(es[i].references) BY <3>1, <3>2, <3>4
    <3>5. QED BY <3>3, <3>4
  <2>2. ASSUME NEW p \in RefsOf(es) PROVE p \in RefsOf(fs) BY <1>8 DEF RefsOf
  <2>3. <<e, at>> \in RefsOf(fs) BY <1>1, <1>8
  <2>4. QED BY <2>1, <2>2, <2>3
<1>10. QED BY <1>9 DEF fs

\* Every token but that of a parameter is a reference to what it means, and at no token
\* is there a reference to anything else.
Referred(refs, tokens, at) ==
    /\ \A x, y \in tokens : x.at = y.at => x = y
    /\ \A x \in tokens : x.at <= at
    /\ \A x \in tokens : x.token # "parameter" => <<x.means, x.at>> \in refs
    /\ \A x \in tokens, p \in refs : p[2] = x.at => p[1] = x.means /\ x.token # "parameter"
    /\ \A p \in refs : p[2] <= at

\* Of numbers.
Counting(refs, tokens) ==
    (\A x \in tokens : x.at \in Nat) /\ (\A p \in refs : p[2] \in Nat)

After(refs, tokens, at) ==
    (\A x \in tokens : at < x.at) /\ (\A p \in refs : at < p[2])

LEMMA ReferredMore ==
    ASSUME NEW refs, NEW tokens, NEW at \in Nat, Referred(refs, tokens, at), Counting(refs, tokens),
           NEW adds, NEW fresh, NEW to \in Nat, at <= to, Referred(adds, fresh, to),
           Counting(adds, fresh), After(adds, fresh, at)
    PROVE  Referred(refs \cup adds, tokens \cup fresh, to)
<1>1. \A x \in tokens : x.at <= at /\ x.at \in Nat BY DEF Referred, Counting
<1>2. \A p \in refs : p[2] <= at /\ p[2] \in Nat BY DEF Referred, Counting
<1>3. \A x \in fresh : at < x.at /\ x.at \in Nat /\ x.at <= to BY DEF Referred, Counting, After
<1>4. \A p \in adds : at < p[2] /\ p[2] \in Nat /\ p[2] <= to BY DEF Referred, Counting, After
<1>5. \A x \in tokens, y \in fresh : x.at # y.at BY <1>1, <1>3
<1>6. \A x \in tokens, p \in adds : x.at # p[2] BY <1>1, <1>4
<1>7. \A x \in fresh, p \in refs : x.at # p[2] BY <1>2, <1>3
<1>8. \A x \in tokens : x.at <= to BY <1>1
<1>9. \A p \in refs : p[2] <= to BY <1>2
<1>10. \A x, y \in tokens \cup fresh : x.at = y.at => x = y BY <1>5 DEF Referred
<1>11. \A x \in tokens \cup fresh : x.token # "parameter" => <<x.means, x.at>> \in refs \cup adds
  BY DEF Referred
<1>12. \A x \in tokens \cup fresh, p \in refs \cup adds :
          p[2] = x.at => p[1] = x.means /\ x.token # "parameter"
  BY <1>6, <1>7 DEF Referred
<1>13. QED BY <1>3, <1>4, <1>8, <1>9, <1>10, <1>11, <1>12 DEF Referred

FoundBy(f, sc, es, n, s, max) ==
    f[s][max] = IF Named(es, sc[s].local_objects, n, max) # {} \/ s = 1
                THEN Named(es, sc[s].local_objects, n, max)
                ELSE f[sc[s].parent][sc[s].parent_visible_object_count_at_creation]

LEMMA FromStep ==
    ASSUME NEW sc, Tree(sc), NEW es, NEW n, NEW f, IsFrom(f, sc, es, n),
           NEW s \in 1..Len(sc), NEW max \in 0..SIZE_MAX
    PROVE  FoundBy(f, sc, es, n, s, max)
<1>1. DOMAIN sc = 1..Len(sc) BY TreeFacts
<1>2. \A e \in DOMAIN sc : f[e] = [m \in 0 .. SIZE_MAX |->
         LET mine == Named(es, sc[e].local_objects, n, m)
         IN  IF mine # {} \/ e = Program
             THEN mine
             ELSE f[sc[e].parent][sc[e].parent_visible_object_count_at_creation]]
  BY DEF IsFrom
<1>3. f[s] = [m \in 0 .. SIZE_MAX |->
         LET mine == Named(es, sc[s].local_objects, n, m)
         IN  IF mine # {} \/ s = Program
             THEN mine
             ELSE f[sc[s].parent][sc[s].parent_visible_object_count_at_creation]]
  BY <1>1, <1>2
<1>4. QED BY <1>3 DEF Program, FoundBy

\* Wherever o is found, the list of the scope has the same as before under its name.
SameNamed(sc, tc, es, fs, n, f, o) ==
    \A s \in 1..Len(sc), max \in 0..SIZE_MAX :
       f[s][max] = {o} => Named(fs, tc[s].local_objects, n, max)
                             = Named(es, sc[s].local_objects, n, max)

StaysFound(sc, f, g, o) ==
    \A s \in 1..Len(sc), max \in 0..SIZE_MAX : f[s][max] = {o} => g[s][max] = {o}

\* What is found stays found, if no list on the way gets another of the name.
LEMMA FoundStaysFound ==
    ASSUME NEW sc, NEW tc, NEW es, NEW fs, NEW n, NEW f, NEW g, NEW o,
           Tree(sc), Tree(tc), Deeper(sc, tc), IsFrom(f, sc, es, n), IsFrom(g, tc, fs, n),
           SameNamed(sc, tc, es, fs, n, f, o)
    PROVE  StaysFound(sc, f, g, o)
<1> DEFINE S == {s \in 1..Len(sc) : \A max \in 0..SIZE_MAX : f[s][max] = {o} => g[s][max] = {o}}
<1>1. ASSUME NEW s \in 1..Len(sc), \A t \in 1..(s - 1) : t \in S PROVE s \in S
  <2> SUFFICES ASSUME NEW max \in 0..SIZE_MAX, f[s][max] = {o} PROVE g[s][max] = {o}
    OBVIOUS
  <2> DEFINE own == Named(es, sc[s].local_objects, n, max)
             p == sc[s].parent
             count == sc[s].parent_visible_object_count_at_creation
  <2>1. Named(fs, tc[s].local_objects, n, max) = own BY DEF SameNamed
  <2>2. f[s][max] = IF own # {} \/ s = 1 THEN own ELSE f[p][count]
    <3>1. FoundBy(f, sc, es, n, s, max)
      <4> HIDE DEF S
      <4>1. QED BY FromStep
    <3>2. QED BY <3>1 DEF FoundBy
  <2>3. s \in 1..Len(tc) /\ Alike(tc[s], sc[s]) BY DEF Deeper
  <2>4. tc[s].parent = p /\ tc[s].parent_visible_object_count_at_creation = count
    BY <2>3 DEF Alike
  <2> HIDE DEF own
  <2>5. g[s][max] = IF own # {} \/ s = 1 THEN own ELSE g[p][count]
    <3>1. FoundBy(g, tc, fs, n, s, max)
      <4> HIDE DEF S, p, count
      <4>1. QED BY <2>3, FromStep
    <3>2. QED BY <2>1, <2>4, <3>1 DEF FoundBy
  <2>6. CASE own # {} \/ s = 1 BY <2>2, <2>5, <2>6
  <2>7. CASE ~(own # {} \/ s = 1)
    <3>1. p \in 1..(s - 1) /\ count \in 0..SIZE_MAX BY <2>7, TreeFacts DEF Scope
    <3>2. p \in S BY <1>1, <3>1
    <3>3. f[p][count] = {o} BY <2>2, <2>7
    <3> HIDE DEF p, count
    <3>4. g[p][count] = {o} BY <3>1, <3>2, <3>3
    <3>5. QED BY <2>5, <2>7, <3>4
  <2>8. QED BY <2>6, <2>7
<1>2. \A s \in 1..Len(sc) : s \in S
  <2> HIDE DEF S
  <2>1. QED BY <1>1, TreeFacts, Upwards
<1>3. QED BY <1>2 DEF StaysFound

\* With whatever limit an open scope is asked, it finds nothing that is not in sight.
LEMMA FromInSight ==
    ASSUME NEW sc, NEW st, NEW es, NEW E, NEW H, NEW K, NEW n, NEW f,
           Tree(sc), Stacked(sc, st), IsEnclosing(E, sc),
           Scoped(sc, st, es, E, H, K), IsFrom(f, sc, es, n)
    PROVE  \A i \in 1..Len(st) : \A max \in 0..SIZE_MAX :
              f[st[i]][max] \subseteq
                 {o \in ObjectsOf(es) : es[o].name = n /\ H[es[o].scope] \in E[st[i]]}
<1> DEFINE Means(s) == {o \in ObjectsOf(es) : es[o].name = n /\ H[es[o].scope] \in E[s]}
           S == {i \in 1..Len(st) : \A max \in 0..SIZE_MAX : f[st[i]][max] \subseteq Means(st[i])}
<1>1. ASSUME NEW i \in 1..Len(st), \A t \in 1..(i - 1) : t \in S PROVE i \in S
  <2> SUFFICES ASSUME NEW max \in 0..SIZE_MAX PROVE f[st[i]][max] \subseteq Means(st[i])
    OBVIOUS
  <2> DEFINE s == st[i]
             own == Named(es, sc[s].local_objects, n, max)
             p == sc[s].parent
             count == sc[s].parent_visible_object_count_at_creation
  <2>1. s \in 1..Len(sc) /\ Accounted(sc, es, E, H, K, s) BY StackFacts DEF Scoped
  <2>2. s \in E[s] /\ (s # 1 => E[s] = {s} \cup E[p]) BY <2>1, EnclosingFacts
  <2>3. own \subseteq Means(s)
    <3>1. Range(sc[s].local_objects) = Held(es, H, s) BY <2>1 DEF Accounted
    <3>2. own \subseteq {o \in Held(es, H, s) : es[o].name = n} BY <3>1 DEF Named, Range
    <3>3. QED BY <2>2, <3>2 DEF Held
  <2>4. f[s][max] = IF own # {} \/ s = 1 THEN own ELSE f[p][count]
    <3>1. FoundBy(f, sc, es, n, s, max)
      <4> HIDE DEF S, s, p, count, own
      <4>1. QED BY <2>1, FromStep
    <3>2. QED BY <3>1 DEF FoundBy
  <2>5. CASE own # {} \/ s = 1 BY <2>3, <2>4, <2>5
  <2>6. CASE ~(own # {} \/ s = 1)
    <3>1. i # 1 /\ i \in Nat BY <2>6 DEF Stacked
    <3>2. i \in 2..Len(st) BY <3>1, StackFacts
    <3>3. PICK j \in 1..(i - 1) : p = st[j] BY <3>2 DEF Stacked
    <3>4. j \in S BY <1>1
    <3>5. count \in 0..SIZE_MAX BY <2>1, TreeFacts DEF Scope
    <3>6. f[p][count] \subseteq Means(p) BY <3>3, <3>4, <3>5
    <3>7. Means(p) \subseteq Means(s) BY <2>2, <2>6
    <3> HIDE DEF Means, own
    <3>8. QED BY <2>4, <2>6, <3>6, <3>7
  <2>7. QED BY <2>5, <2>6
<1>2. \A i \in 1..Len(st) : i \in S
  <2> HIDE DEF S
  <2>1. QED BY <1>1, StackFacts, Upwards
<1>3. QED BY <1>2

\* The object o is called n and in sight of s.
Sees(es, E, H, s, o, n) == o \in ObjectsOf(es) /\ es[o].name = n /\ H[es[o].scope] \in E[s]

\* An object that is in sight of an open scope is all that is found under its name.
LEMMA FoundInSight ==
    ASSUME NEW sc, NEW st, NEW es, NEW own, Ordered(sc, st, es, own), Len(es) <= MaxHere,
           NEW E, NEW H, NEW K, Counted(sc, st, es, own, E, H, K),
           NEW s \in Range(st), NEW o, NEW n, Sees(es, E, H, s, o, n),
           NEW f, IsFrom(f, sc, es, n)
    PROVE  f[s][SIZE_MAX] = {o}
<1>2. /\ Tree(sc) /\ Stacked(sc, st) /\ IsEnclosing(E, sc) /\ IsHolder(H, sc, st)
      /\ IsKnown(K, sc) /\ Scoped(sc, st, es, E, H, K)
  BY DEF Counted, Ordered
<1>3. PICK i \in 1..Len(st) : st[i] = s BY <1>2, StackFacts DEF Range
<1>4. st[i] \in 1..Len(sc) /\ Accounted(sc, es, E, H, K, st[i])
  BY <1>2, StackFacts DEF Scoped
<1>5. SIZE_MAX \in 0..SIZE_MAX /\ SIZE_MAX >= Len(sc[st[i]].local_objects)
  <2>1. K[st[i]] <= Len(es) BY <1>4 DEF Accounted
  <2>2. Len(es) \in Nat BY <1>2, LenProperties DEF Scoped
  <2>3. /\ Len(sc[st[i]].local_objects) <= K[st[i]] /\ K[st[i]] \in Nat
        /\ Len(sc[st[i]].local_objects) \in Nat
    BY <1>2, <1>4, KnownFacts
  <2>4. QED BY <2>1, <2>2, <2>3, SymbolsAssumption DEF SIZE_MAX
<1> DEFINE means == {p \in ObjectsOf(es) : es[p].name = n /\ H[es[p].scope] \in E[st[i]]}
<1>6. f[st[i]][SIZE_MAX] = means BY <1>2, <1>5, FromFinds
<1>7. o \in means BY <1>3 DEF Sees
<1>8. \A p \in means : p = o
  <2>1. Distinct(es, H, E[st[i]]) BY <1>4 DEF Accounted
  <2>2. QED BY <1>7, <2>1 DEF Distinct
<1>9. means = {o} BY <1>7, <1>8
<1>10. QED BY <1>3, <1>6, <1>9

--------------------------------------------------------------------------------
(* What is found for the tokens of objects. *)

LookedUp(sc, es, x) == \A f : IsFrom(f, sc, es, x.name) => f[x.scope][SIZE_MAX] = {x.means}

\* Scopes have objects.
Owning(sc, es) == \A s \in 1..Len(sc) : Range(sc[s].local_objects) \subseteq ObjectsOf(es)

\* Nothing that is called n is found from s, and nothing was.
Unfound(sc, es, s, n) ==
    \A f : IsFrom(f, sc, es, n) => \A max \in 0..SIZE_MAX, o \in Nat : f[s][max] # {o}

\* What a scope gets does not hide what was found from it.
Gains(sc, es, fs, s, list) ==
    \E more \in Seq(EntityId) :
       /\ list = sc[s].local_objects \o more
       /\ \A q \in Range(more) : Unfound(sc, es, s, fs[q].name)

LEMMA GainsNothing ==
    ASSUME NEW sc, Tree(sc), NEW es, NEW fs, NEW s \in 1..Len(sc)
    PROVE  Gains(sc, es, fs, s, sc[s].local_objects)
<1>1. sc[s].local_objects \in Seq(EntityId) BY TreeFacts DEF Scope
<1>2. sc[s].local_objects = sc[s].local_objects \o <<>> /\ <<>> \in Seq(EntityId) BY <1>1
<1>3. Range(<<>>) = {} BY DEF Range
<1>4. QED BY <1>2, <1>3 DEF Gains

\* One of the list has the name.
Calls(fs, more, n) == \E q \in Range(more) : fs[q].name = n

LEMMA NamedWithMore ==
    ASSUME NEW es, NEW fs, Longer(es, fs), NEW list \in Seq(EntityId), NEW more \in Seq(EntityId),
           Range(list) \subseteq 1..Len(es), NEW n, ~Calls(fs, more, n), NEW max
    PROVE  Named(fs, list \o more, n, max) = Named(es, list, n, max)
<1> DEFINE all == list \o more
<1>1. /\ Len(list) \in Nat /\ Len(more) \in Nat /\ DOMAIN list = 1..Len(list)
      /\ DOMAIN more = 1..Len(more)
      /\ DOMAIN all = 1..(Len(list) + Len(more))
      /\ \A i \in 1..(Len(list) + Len(more)) :
            all[i] = IF i <= Len(list) THEN list[i] ELSE more[i - Len(list)]
  BY LenProperties
<1> HIDE DEF all
<1>2. ASSUME NEW j \in DOMAIN all
      PROVE  \/ j \in DOMAIN list /\ all[j] = list[j]
             \/ fs[all[j]].name # n
  <2>1. CASE j <= Len(list) BY <1>1, <2>1
  <2>2. CASE ~(j <= Len(list))
    <3>1. j - Len(list) \in DOMAIN more /\ all[j] = more[j - Len(list)] BY <1>1, <2>2
    <3>2. all[j] \in Range(more) BY <3>1 DEF Range
    <3>3. QED BY <3>2 DEF Calls
  <2>3. QED BY <2>1, <2>2
<1>3. \A j \in DOMAIN list : j \in DOMAIN all /\ all[j] = list[j] BY <1>1
<1>4. \A j \in DOMAIN list : fs[list[j]].name = es[list[j]].name BY DEF Range, Longer
<1>5. Named(fs, all, n, max) = Named(es, list, n, max) BY <1>2, <1>3, <1>4 DEF Named
<1>6. QED BY <1>5 DEF all

\* A token that was looked up can be looked up again, in a tree that has grown.
LEMMA LookedUpLater ==
    ASSUME NEW sc, NEW tc, NEW es \in Seq(Entity), NEW fs \in Seq(Entity), Tree(sc), Tree(tc),
           Deeper(sc, tc), Longer(es, fs), Owning(sc, es),
           \A s \in 1..Len(sc) : Gains(sc, es, fs, s, tc[s].local_objects),
           NEW x, x.scope \in 1..Len(sc), x.means \in Nat, LookedUp(sc, es, x)
    PROVE  LookedUp(tc, fs, x)
<1> SUFFICES ASSUME NEW g, IsFrom(g, tc, fs, x.name) PROVE g[x.scope][SIZE_MAX] = {x.means}
  BY DEF LookedUp
<1> DEFINE n == x.name
           o == x.means
<1>1. PICK f : IsFrom(f, sc, es, n) BY FromExists
<1>2. f[x.scope][SIZE_MAX] = {o} BY <1>1 DEF LookedUp
<1>3. ASSUME NEW s \in 1..Len(sc), NEW max \in 0..SIZE_MAX, f[s][max] = {o}
      PROVE  Named(fs, tc[s].local_objects, n, max) = Named(es, sc[s].local_objects, n, max)
  <2>1. PICK more \in Seq(EntityId) :
          /\ tc[s].local_objects = sc[s].local_objects \o more
          /\ \A q \in Range(more) : Unfound(sc, es, s, fs[q].name)
    BY DEF Gains
  <2>2. ~Calls(fs, more, n) BY <1>1, <1>3, <2>1 DEF Unfound, Calls
  <2>3. sc[s].local_objects \in Seq(EntityId) BY TreeFacts DEF Scope
  <2>4. Range(sc[s].local_objects) \subseteq 1..Len(es)
    <3>1. ObjectsOf(es) \subseteq 1..Len(es) BY LenProperties DEF ObjectsOf
    <3>2. QED BY <3>1 DEF Owning
  <2> DEFINE list == sc[s].local_objects
  <2> HIDE DEF list, n
  <2>5. list \in Seq(EntityId) /\ Range(list) \subseteq 1..Len(es) BY <2>3, <2>4 DEF list
  <2>7. Named(fs, list \o more, n, max) = Named(es, list, n, max)
    BY <2>2, <2>5, NamedWithMore
  <2>8. QED BY <2>1, <2>7 DEF list
<1>4. SIZE_MAX \in 0..SIZE_MAX BY SymbolsAssumption DEF SIZE_MAX
<1> HIDE DEF n, o
<1>5. StaysFound(sc, f, g, o)
  <2>1. IsFrom(g, tc, fs, n) BY DEF n
  <2>2. SameNamed(sc, tc, es, fs, n, f, o) BY <1>3 DEF SameNamed
  <2>3. QED BY <1>1, <2>1, <2>2, FoundStaysFound
<1>6. QED BY <1>2, <1>4, <1>5 DEF o, StaysFound

\* The scopes still have objects.
LEMMA OwningMore ==
    ASSUME NEW sc, NEW tc, NEW es \in Seq(Entity), NEW fs \in Seq(Entity), Longer(es, fs),
           Owning(sc, es),
           \A s \in 1..Len(tc) :
              \/ s \in 1..Len(sc) /\ tc[s].local_objects = sc[s].local_objects
              \/ Range(tc[s].local_objects) \subseteq ObjectsOf(fs)
    PROVE  Owning(tc, fs)
<1>1. ObjectsOf(es) \subseteq ObjectsOf(fs) BY LongerFacts
<1>2. QED BY <1>1 DEF Owning

--------------------------------------------------------------------------------
(* The tokens, and what the tree knows of them. *)

Noted(own, sc, es, tokens) ==
    NamedOnce(es) /\ \A x \in tokens : NotedAs(own, sc, es, x)

Looked(sc, es, tokens) ==
    Owning(sc, es) /\ \A x \in tokens : x.token = "object" => LookedUp(sc, es, x)

RInv ==
    /\ Spans(scopes, stack, entity_map, occurrences, here)
    /\ Noted(owned_classes, scopes, entities, occurrences)
    /\ Looked(scopes, entities, occurrences)
    /\ Referred(RefsOf(entities), occurrences, here)

Placeable(sc, es, tokens) == \A x \in tokens : x.scope \in 1..Len(sc) /\ x.means \in 1..Len(es)

GainsAll(sc, tc, es, fs) == \A s \in 1..Len(sc) : Gains(sc, es, fs, s, tc[s].local_objects)

StartsWith(more, own) == \A k \in 1..Len(own) : k \in 1..Len(more) /\ more[k] = own[k]

LEMMA GainsSame ==
    ASSUME NEW sc, Tree(sc), NEW tc, NEW es, NEW fs,
           \A s \in 1..Len(sc) : tc[s].local_objects = sc[s].local_objects
    PROVE  GainsAll(sc, tc, es, fs)
<1>1. ASSUME NEW s \in 1..Len(sc) PROVE Gains(sc, es, fs, s, tc[s].local_objects)
  <2>1. Gains(sc, es, fs, s, sc[s].local_objects) BY GainsNothing
  <2>2. QED BY <2>1
<1>2. QED BY <1>1 DEF GainsAll

LEMMA NamesKept ==
    ASSUME NEW sc, NEW tc, NEW es \in Seq(Entity), NEW fs \in Seq(Entity), Tree(sc), Tree(tc),
           Deeper(sc, tc), Longer(es, fs), NEW own, NEW more, StartsWith(more, own),
           NEW tokens, Placeable(sc, es, tokens), Noted(own, sc, es, tokens), Looked(sc, es, tokens),
           NamedOnce(fs), Owning(tc, fs), GainsAll(sc, tc, es, fs),
           NEW fresh, \A x \in fresh : NotedAs(more, tc, fs, x),
           \A x \in fresh : x.token = "object" => LookedUp(tc, fs, x)
    PROVE  Noted(more, tc, fs, tokens \cup fresh) /\ Looked(tc, fs, tokens \cup fresh)
<1>1. ASSUME NEW x \in tokens PROVE NotedAs(more, tc, fs, x)
  <2>1. NotedAs(own, sc, es, x) /\ x.scope \in 1..Len(sc) BY DEF Noted, Placeable
  <2>2. \A k \in 1..Len(own) : k \in 1..Len(more) /\ more[k] = own[k] BY DEF StartsWith
  <2>3. QED BY <2>1, <2>2, NotedLater
<1>2. ASSUME NEW x \in tokens, x.token = "object" PROVE LookedUp(tc, fs, x)
  <2>1. LookedUp(sc, es, x) /\ Owning(sc, es) BY <1>2 DEF Looked
  <2>2. x.scope \in 1..Len(sc) /\ x.means \in Nat BY DEF Placeable
  <2>3. \A s \in 1..Len(sc) : Gains(sc, es, fs, s, tc[s].local_objects) BY DEF GainsAll
  <2>4. QED BY <2>1, <2>2, <2>3, LookedUpLater
<1>3. QED BY <1>1, <1>2 DEF Noted, Looked

LEMMA OrderedTypes ==
    ASSUME NEW sc, NEW st, NEW es, NEW own, Ordered(sc, st, es, own)
    PROVE  /\ Tree(sc) /\ Stacked(sc, st) /\ Owned(es, own) /\ es \in Seq(Entity)
           /\ Len(es) \in Nat
<1>1. Tree(sc) /\ Stacked(sc, st) /\ Owned(es, own) /\ es \in Seq(Entity)
  BY DEF Ordered, Counted, Scoped
<1>2. QED BY <1>1, LenProperties

LEMMA OwnedFacts ==
    ASSUME NEW es \in Seq(Entity), NEW own, Owned(es, own)
    PROVE  /\ DOMAIN own = 1..Len(own) /\ Len(own) \in Nat
           /\ \A k \in 1..Len(own) : own[k] \in ClassesOf(es)
           /\ \A c \in ClassesOf(es) : c \in 1..Len(es) /\ c \in Nat /\ es[c].class = 0
<1>1. DOMAIN own = 1..Len(own) /\ Len(own) \in Nat BY LenProperties DEF Owned
<1>2. \A k \in 1..Len(own) : own[k] \in ClassesOf(es) BY <1>1 DEF Owned, Range
<1>3. DOMAIN es = 1..Len(es) BY LenProperties
<1>4. QED BY <1>1, <1>2, <1>3 DEF ClassesOf, ObjectsOf

\* What is known of the tokens.
LEMMA KnownTokens ==
    ASSUME IInv
    PROVE  /\ Numbered(scopes, entity_map, occurrences, here)
           /\ Counting(RefsOf(entities), occurrences)
           /\ Placeable(scopes, entities, occurrences)
           /\ Range(stack) \subseteq 1..Len(scopes)
           /\ \A u \in Range(stack) : u <= Top
           /\ stack \in Seq(1..Len(scopes))
<1>1. Marks(entity_map, occurrences, scopes, entities) BY DEF IInv
<1>2. Position \subseteq Nat BY SymbolsAssumption DEF Position
<1>3. Numbered(scopes, entity_map, occurrences, here)
  <2>1. \A s \in 1..Len(scopes) : s \in Nat /\ scopes[s].low \in Nat BY Known, Elements
  <2>2. \A x \in occurrences : x.at \in Nat /\ x.scope \in 1..Len(scopes) BY <1>1, <1>2 DEF Marks
  <2>3. \A m \in entity_map : m.low \in Nat /\ m.high \in Nat /\ m.entity \in 1..Len(scopes)
    BY <1>1, <1>2 DEF Marks
  <2>4. QED BY <2>1, <2>2, <2>3, Known DEF Numbered
<1>4. Counting(RefsOf(entities), occurrences) BY <1>1, <1>2 DEF Marks, Counting, RefsOf
<1>5. Placeable(scopes, entities, occurrences) BY <1>1 DEF Marks, Placeable
<1>6. Range(stack) \subseteq 1..Len(scopes) BY Known, StackFacts DEF Range
<1>7. \A u \in Range(stack) : u <= Top
  <2>1. \A i \in 1..Len(stack) : i <= Len(stack) BY Known
  <2>2. \A i \in 1..Len(stack) : stack[i] <= stack[Len(stack)] BY <2>1, Known, StackFacts
  <2>3. QED BY <2>2, Known, StackFacts DEF Range, Top
<1>8. QED BY <1>3, <1>4, <1>5, <1>6, <1>7, Known DEF Stacked

--------------------------------------------------------------------------------
(* Every token keeps what the server is asked about. *)

\* A scope is opened, and tokens are read in it at once.
LEMMA AskedOpened ==
    ASSUME IInv, IInv', RInv, NEW new \in Scope, new.low = here + 1,
           scopes' = Append(scopes, new), stack' = Append(stack, Len(scopes) + 1),
           entity_map' = entity_map,
           Longer(entities, entities'), StartsWith(owned_classes', owned_classes),
           NamedOnce(entities'), Range(new.local_objects) \subseteq ObjectsOf(entities'),
           NEW fresh, occurrences' = occurrences \cup fresh,
           Fresh(fresh, Len(scopes) + 1, here, here'),
           \A x \in fresh : NotedAs(owned_classes', scopes', entities', x),
           \A x \in fresh : x.token = "object" => LookedUp(scopes', entities', x),
           NEW adds, RefsOf(entities') = RefsOf(entities) \cup adds,
           Referred(adds, fresh, here'), Counting(adds, fresh), After(adds, fresh, here)
    PROVE  RInv'
<1> DEFINE n == Len(scopes) + 1
<1>1. /\ \A s \in 1..Len(scopes) : scopes'[s] = scopes[s]
      /\ \A s \in 1..Len(scopes') : s \in 1..Len(scopes) \/ s = n
      /\ scopes'[n] = new
  BY Known, AppendFacts
<1>2. entities' \in Seq(Entity) /\ Tree(scopes') BY OrderedTypes DEF IInv
<1>3. here \in Nat /\ here' \in Nat /\ here < here' BY DEF Fresh
<1>4. Spans(scopes', stack', entity_map', occurrences', here')
  <2>1. Spans(scopes, stack, entity_map, occurrences, here) BY DEF RInv
  <2>2. Fresh(fresh, n, here, here') OBVIOUS
  <2> HIDE DEF n
  <2>3. Spans(Append(scopes, new), Append(stack, n), entity_map, occurrences \cup fresh, here')
    BY <2>1, <2>2, Known, KnownTokens, SpansOpened DEF n
  <2>4. QED BY <2>3 DEF n
<1>5. /\ Noted(owned_classes', scopes', entities', occurrences')
      /\ Looked(scopes', entities', occurrences')
  <2>1. Deeper(scopes, scopes') BY Known, OpenedDeeper
  <2>2. GainsAll(scopes, scopes', entities, entities') BY <1>1, Known, GainsSame
  <2>3. Noted(owned_classes, scopes, entities, occurrences) /\ Looked(scopes, entities, occurrences)
    BY DEF RInv
  <2>4. Owning(scopes', entities')
    <3>1. Owning(scopes, entities) BY <2>3 DEF Looked
    <3>2. \A s \in 1..Len(scopes') :
             \/ s \in 1..Len(scopes) /\ scopes'[s].local_objects = scopes[s].local_objects
             \/ Range(scopes'[s].local_objects) \subseteq ObjectsOf(entities')
      BY <1>1
    <3>3. QED BY <1>2, <3>1, <3>2, Known, OwningMore
  <2>5. QED BY <1>2, <2>1, <2>2, <2>3, <2>4, Known, KnownTokens, NamesKept
<1>6. Referred(RefsOf(entities'), occurrences', here')
  <2>1. Referred(RefsOf(entities), occurrences, here) BY DEF RInv
  <2>2. here <= here' BY <1>3
  <2>3. QED BY <1>3, <2>1, <2>2, KnownTokens, ReferredMore
<1>7. QED BY <1>4, <1>5, <1>6 DEF RInv

\* Nothing is read in it.
LEMMA AskedEmpty ==
    ASSUME IInv, IInv', RInv, NEW new \in Scope, new.low = here + 1, new.local_objects = <<>>,
           scopes' = Append(scopes, new), stack' = Append(stack, Len(scopes) + 1),
           here' = here + 1, UNCHANGED <<entities, owned_classes, entity_map, occurrences>>
    PROVE  RInv'
<1> DEFINE none == {}
<1>1. entities' = entities /\ owned_classes' = owned_classes /\ entity_map' = entity_map
  OBVIOUS
<1>2. Longer(entities, entities') BY <1>1, Known DEF Longer
<1>3. StartsWith(owned_classes', owned_classes) BY <1>1 DEF StartsWith
<1>4. NamedOnce(entities') BY <1>1 DEF RInv, Noted
<1>5. Range(new.local_objects) \subseteq ObjectsOf(entities') BY DEF Range
<1>6. /\ occurrences' = occurrences \cup none
      /\ RefsOf(entities') = RefsOf(entities) \cup none
      /\ \A x \in none : NotedAs(owned_classes', scopes', entities', x)
      /\ \A x \in none : x.token = "object" => LookedUp(scopes', entities', x)
  BY <1>1
<1>7. Fresh(none, Len(scopes) + 1, here, here') BY Known DEF Fresh
<1>8. Referred(none, none, here') /\ Counting(none, none) /\ After(none, none, here)
  BY DEF Referred, Counting, After
<1> HIDE DEF none
<1>9. QED BY <1>1, <1>2, <1>3, <1>4, <1>5, <1>6, <1>7, <1>8, AskedOpened

LEMMA AskedOpen ==
    ASSUME IInv, IInv', RInv, NEW kind \in {"function", "block", "supershell"}, Open(kind)
    PROVE  RInv'
<1> DEFINE new == inherit(kind, Top)
<1>1. /\ scopes' = Append(scopes, new) /\ stack' = Append(stack, Len(scopes) + 1)
      /\ here' = here + 1 /\ UNCHANGED <<entities, owned_classes, entity_map, occurrences>>
  BY DEF Open
<1>2. here + 1 <= MaxHere
  <2>1. here' \in Position BY DEF IInv, Placed
  <2>2. QED BY <1>1, <2>1 DEF Position
<1>3. new \in Scope /\ new.low = here + 1 /\ new.local_objects = <<>>
  <2>1. PICK E, H, K : CountedNow(E, H, K) BY DEF IInv, Ordered, CountedNow
  <2>2. kind \in Kinds BY DEF Kinds
  <2>3. QED BY <1>2, <2>1, <2>2, Known, Inherits
<1> HIDE DEF new
<1>4. QED BY <1>1, <1>3, AskedEmpty

\* A token that could be looked up before.
LEMMA AskedReference ==
    ASSUME IInv, IInv', RInv, NEW e \in 1..Len(entities), NEW token \in {"object", "type"}, NEW n,
           here' \in {here + 1, here + 2}, entities' = add_reference(entities, e, here + 1),
           occurrences' = occurrences \cup {Token(here + 1, Top, token, n, e)},
           UNCHANGED <<scopes, stack, owned_classes, entity_map>>,
           NotedAs(owned_classes, scopes, entities, Token(here + 1, Top, token, n, e)),
           token = "object" => LookedUp(scopes, entities, Token(here + 1, Top, token, n, e))
    PROVE  RInv'
<1> DEFINE x == Token(here + 1, Top, token, n, e)
<1>1. here + 1 \in Position /\ here' \in Nat /\ here + 1 <= here' /\ here < here'
  <2>1. here' \in Position BY DEF IInv, Placed
  <2>2. QED BY <2>1, Known DEF Position
<1>2. entities' \in Seq(Entity) /\ Likewise(entities, entities')
  BY <1>1, Known, ReferenceAdded
<1>3. /\ x.at = here + 1 /\ x.scope = Top /\ x.token = token /\ x.means = e
      /\ x.token # "parameter"
  BY DEF Token
<1>4. occurrences' = occurrences \cup {x} OBVIOUS
<1>5. NotedAs(owned_classes, scopes, entities, x)
      /\ (x.token = "object" => LookedUp(scopes, entities, x))
  BY <1>3
<1> HIDE DEF x
<1>6. Spans(scopes', stack', entity_map', occurrences', here')
  <2>1. Fresh({x}, Top, here, here') BY <1>1, <1>3, Known DEF Fresh
  <2>2. Spans(scopes, stack, entity_map, occurrences, here) BY DEF RInv
  <2>3. Spans(scopes, stack, entity_map, occurrences \cup {x}, here')
    BY <2>1, <2>2, Known, KnownTokens, SpansMore
  <2>4. QED BY <1>4, <2>3
<1>7. /\ Noted(owned_classes', scopes', entities', occurrences')
      /\ Looked(scopes', entities', occurrences')
  <2>1. Longer(entities, entities') BY <1>2, Known, LikewiseLonger
  <2>2. Deeper(scopes, scopes) BY Known DEF Deeper, Alike
  <2>3. GainsAll(scopes, scopes, entities, entities') BY Known, GainsSame
  <2>4. ClassesOf(entities') = ClassesOf(entities) /\ ObjectsOf(entities') = ObjectsOf(entities)
    <3>1. Len(entities') = Len(entities) BY <1>2 DEF Likewise
    <3>2. ClassesOf(entities') \cup ObjectsOf(entities') \subseteq 1..Len(entities')
      BY <1>2, <2>1, Known, LongerFacts DEF ClassesOf, ObjectsOf
    <3>3. ClassesOf(entities) = ClassesOf(entities') \cap 1..Len(entities)
          /\ ObjectsOf(entities) = ObjectsOf(entities') \cap 1..Len(entities)
      BY <1>2, <2>1, Known, LongerFacts
    <3>4. QED BY <3>1, <3>2, <3>3
  <2>5. Owning(scopes, entities')
    <3>1. Owning(scopes, entities) BY DEF RInv, Looked
    <3>2. QED BY <2>4, <3>1 DEF Owning
  <2>6. StartsWith(owned_classes, owned_classes) BY DEF StartsWith
  <2>7. NamedOnce(entities')
    <3>1. NamedOnce(entities) BY DEF RInv, Noted
    <3>2. \A d \in ClassesOf(entities') : d \in 1..Len(entities)
      BY <2>4, Known DEF ClassesOf
    <3>3. QED BY <1>2, <2>1, <3>1, <3>2, Known, NamedOnceMore
  <2>8. /\ Noted(owned_classes, scopes, entities, occurrences \cup {x})
        /\ Looked(scopes, entities, occurrences \cup {x})
    BY <1>5 DEF RInv, Noted, Looked
  <2>9. Placeable(scopes, entities, occurrences \cup {x})
    BY <1>3, Known, KnownTokens DEF Placeable
  <2> DEFINE all == occurrences \cup {x}
  <2>10. /\ Noted(owned_classes, scopes, entities', all \cup {})
         /\ Looked(scopes, entities', all \cup {})
    <3>1. Noted(owned_classes, scopes, entities, all) /\ Looked(scopes, entities, all)
          /\ Placeable(scopes, entities, all)
      BY <2>8, <2>9
    <3> HIDE DEF all
    <3>2. QED BY <1>2, <2>1, <2>2, <2>3, <2>5, <2>6, <2>7, <3>1, Known, NamesKept
  <2>11. all \cup {} = occurrences' BY <1>4
  <2>12. QED BY <2>10, <2>11
<1>8. Referred(RefsOf(entities'), occurrences', here')
  <2>1. Referred(RefsOf(entities), occurrences, here) BY DEF RInv
  <2> DEFINE adds == {<<e, here + 1>>}
             fresh == {x}
  <2>2. RefsOf(entities') = RefsOf(entities) \cup adds BY <1>1, Known, RefsReferred
  <2>3. Referred(adds, fresh, here') BY <1>1, <1>3, Known DEF Referred
  <2>4. Counting(adds, fresh) /\ After(adds, fresh, here)
    BY <1>3, Known DEF Counting, After
  <2>5. here \in Nat /\ here' \in Nat /\ here <= here' BY <1>1, Known
  <2>6. occurrences' = occurrences \cup fresh BY <1>4
  <2> HIDE DEF adds, fresh
  <2>7. Referred(RefsOf(entities) \cup adds, occurrences \cup fresh, here')
    BY <2>1, <2>3, <2>4, <2>5, KnownTokens, ReferredMore
  <2>8. QED BY <2>2, <2>6, <2>7
<1>9. QED BY <1>6, <1>7, <1>8 DEF RInv

\* get_object is such a function.
LEMMA ObjectLookup ==
    ASSUME Tree(scopes), NEW n, NEW s
    PROVE  \E f : IsFrom(f, scopes, entities, n) /\ get_object(s, n) = f[s][SIZE_MAX]
<1> DEFINE F == CHOOSE f : IsFrom(f, scopes, entities, n)
<1>1. IsFrom(F, scopes, entities, n)
  <2>1. \E f : IsFrom(f, scopes, entities, n) BY FromExists
  <2>2. QED BY <2>1
<1>2. get_object(s, n) = F[s][SIZE_MAX] BY DEF get_object, find, IsFrom, Named
<1> HIDE DEF F
<1>3. QED BY <1>1, <1>2

\* A class that was found under a name.
LEMMA TypeNoted ==
    ASSUME IInv, NEW c, NEW k \in get_class(Top, c), NEW at
    PROVE  NotedAs(owned_classes, scopes, entities, Token(at, Top, "type", c, k))
<1> DEFINE x == Token(at, Top, "type", c, k)
<1>1. x.token = "type" /\ x.means = k /\ x.scope = Top /\ x.name = c BY DEF Token
<1>2. k \in ClassesOf(entities) /\ entities[k].name = c BY Known, ClassesSeen
<1>3. DOMAIN owned_classes = 1..Len(owned_classes) BY Known, OwnedFacts
<1>4. PICK j \in 1..Len(owned_classes) :
         /\ owned_classes[j] = k
         /\ j - 1 <= IF Top = Program THEN SIZE_MAX
                     ELSE scopes[Top].program_visible_class_count_at_creation
  BY <1>3 DEF get_class, find
<1>5. \E i \in 1..Len(owned_classes) :
         /\ owned_classes[i] = x.means
         /\ x.scope = Program \/ i - 1 <= scopes[x.scope].program_visible_class_count_at_creation
  BY <1>1, <1>4
<1> HIDE DEF x
<1>6. NotedAs(owned_classes, scopes, entities, x) BY <1>1, <1>2, <1>5 DEF NotedAs
<1>7. QED BY <1>6 DEF x

LEMMA AskedNewStatement ==
    ASSUME IInv, IInv', RInv, NEW c \in Names, NewStatement(c) PROVE RInv'
<1>1. PICK k \in get_class(Top, c) :
         /\ entities' = add_reference(entities, k, here + 1)
         /\ occurrences' = occurrences \cup {Token(here + 1, Top, "type", c, k)}
  BY DEF NewStatement
<1>2. k \in 1..Len(entities) BY FoundEntities
<1>3. here' = here + 1 /\ UNCHANGED <<scopes, stack, owned_classes, entity_map>>
  BY DEF NewStatement
<1>4. NotedAs(owned_classes, scopes, entities, Token(here + 1, Top, "type", c, k)) BY TypeNoted
<1>5. here' \in {here + 1, here + 2} BY <1>3
<1>6. QED BY <1>1, <1>2, <1>3, <1>4, <1>5, AskedReference

LEMMA AskedObjectReference ==
    ASSUME IInv, IInv', RInv, NEW n \in Names, ObjectReference(n) PROVE RInv'
<1>1. PICK o \in get_object(Top, n) :
         /\ entities' = add_reference(entities, o, here + 1)
         /\ occurrences' = occurrences \cup {Token(here + 1, Top, "object", n, o)}
  BY DEF ObjectReference
<1>2. o \in 1..Len(entities) BY FoundEntities
<1>3. here' = here + 1 /\ UNCHANGED <<scopes, stack, owned_classes, entity_map>>
  BY DEF ObjectReference
<1> DEFINE x == Token(here + 1, Top, "object", n, o)
<1>4. x.token = "object" /\ x.means = o /\ x.scope = Top /\ x.name = n BY DEF Token
<1> HIDE DEF x
<1>5. NotedAs(owned_classes, scopes, entities, x) BY <1>4 DEF NotedAs
<1>6. LookedUp(scopes, entities, x)
  <2>1. PICK E, H, K : CountedNow(E, H, K) BY DEF IInv, Ordered, CountedNow
  <2>2. /\ Counted(scopes, stack, entities, owned_classes, E, H, K)
        /\ Ordered(scopes, stack, entities, owned_classes)
    BY <2>1 DEF CountedNow, IInv
  <2>3. get_object(stack[Len(stack)], n) = Meant(E, H, n, stack[Len(stack)])
    BY <2>1, Known, ObjectsSeen
  <2>4. Sees(entities, E, H, Top, o, n) BY <2>3 DEF Meant, Top, Sees
  <2>5. Len(entities) <= MaxHere /\ Top \in Range(stack) BY Known
  <2>6. ASSUME NEW f, IsFrom(f, scopes, entities, n) PROVE f[Top][SIZE_MAX] = {o}
    BY <2>2, <2>4, <2>5, <2>6, FoundInSight
  <2>7. QED BY <1>4, <2>6 DEF LookedUp
<1>7. here' \in {here + 1, here + 2} BY <1>3
<1>8. NotedAs(owned_classes, scopes, entities, Token(here + 1, Top, "object", n, o))
      /\ LookedUp(scopes, entities, Token(here + 1, Top, "object", n, o))
  BY <1>5, <1>6 DEF x
<1>9. QED BY <1>1, <1>2, <1>3, <1>7, <1>8, AskedReference

\* Where a name is free nothing was found by it.
LEMMA FreeUnfound ==
    ASSUME IInv, NEW i \in 1..Len(stack), NEW n, get_object(stack[i], n) = {}
    PROVE  Unfound(scopes, entities, stack[i], n)
<1>1. PICK E, H, K : CountedNow(E, H, K) BY DEF IInv, Ordered, CountedNow
<1>2. IsEnclosing(E, scopes) /\ Scoped(scopes, stack, entities, E, H, K)
  BY <1>1 DEF CountedNow, Counted
<1>3. get_object(stack[i], n) = Meant(E, H, n, stack[i]) BY <1>1, ObjectsSeen
<1>4. ASSUME NEW f, IsFrom(f, scopes, entities, n), NEW max \in 0..SIZE_MAX, NEW o \in Nat
      PROVE  f[stack[i]][max] # {o}
  <2>1. f[stack[i]][max] \subseteq
           {p \in ObjectsOf(entities) : entities[p].name = n /\ H[entities[p].scope] \in E[stack[i]]}
    BY <1>2, <1>4, Known, FromInSight
  <2>2. f[stack[i]][max] = {} BY <1>3, <2>1 DEF Meant
  <2>3. QED BY <2>2
<1>5. QED BY <1>4 DEF Unfound

\* What a closed supershell hands on has names that are free around it.
LEMMA AdoptedUnfound ==
    ASSUME IInv, Len(stack) >= 2, scopes[Top].kind = "supershell",
           NEW q \in Range(scopes[Top].local_objects)
    PROVE  Unfound(scopes, entities, scopes[Top].parent, entities[q].name)
<1> DEFINE p == scopes[Top].parent
           n == entities[q].name
           down == Len(stack) - 1
<1>1. PICK E, H, K : CountedNow(E, H, K) BY DEF IInv, Ordered, CountedNow
<1>2. IsEnclosing(E, scopes) /\ Scoped(scopes, stack, entities, E, H, K)
  BY <1>1 DEF CountedNow, Counted
<1>3. down \in 1..Len(stack) /\ Len(stack) \in 2..Len(stack) BY Known
<1>4. p = stack[down] BY <1>3, Known DEF Stacked, Top
<1>5. Accounted(scopes, entities, E, H, K, Top) BY <1>2, Known DEF Scoped, Top
<1>6. q \in ObjectsOf(entities) /\ H[entities[q].scope] = Top
  BY <1>5 DEF Accounted, Held
<1>7. Top # 1 BY Known
<1>8. p \in 1..(Top - 1) /\ p \in 1..Len(scopes) /\ Top \in Nat
  BY <1>7, Known, TreeFacts
<1>9. E[Top] = {Top} \cup E[p] /\ E[p] \subseteq 1..p
  BY <1>2, <1>7, <1>8, Known, EnclosingFacts
<1>10. Top \notin E[p] BY <1>8, <1>9
<1> HIDE DEF p, n, down
<1>11. ASSUME NEW f, IsFrom(f, scopes, entities, n), NEW max \in 0..SIZE_MAX, NEW o \in Nat,
              f[p][max] = {o}
       PROVE  FALSE
  <2>1. f[stack[down]][max] \subseteq
           {r \in ObjectsOf(entities) : entities[r].name = n /\ H[entities[r].scope] \in E[stack[down]]}
    BY <1>2, <1>3, <1>11, Known, FromInSight
  <2>2. o \in ObjectsOf(entities) /\ entities[o].name = n /\ H[entities[o].scope] \in E[p]
    BY <1>4, <1>11, <2>1
  <2>3. Distinct(entities, H, E[Top]) BY <1>5 DEF Accounted
  <2>4. H[entities[o].scope] \in E[Top] /\ H[entities[q].scope] \in E[Top]
    BY <1>6, <1>9, <2>2
  <2>5. o = q BY <1>6, <2>2, <2>3, <2>4 DEF Distinct, n
  <2>6. QED BY <1>6, <1>10, <2>2, <2>5
<1>12. Unfound(scopes, entities, p, n) BY <1>11 DEF Unfound
<1>13. QED BY <1>12 DEF p, n

LEMMA LastDropped ==
    ASSUME NEW S, NEW st \in Seq(S), NEW down \in Nat, Len(st) = down + 1,
           \A i \in 1..down : st[i] # st[down + 1]
    PROVE  /\ Range(st) = Range(SubSeq(st, 1, down)) \cup {st[down + 1]}
           /\ st[down + 1] \notin Range(SubSeq(st, 1, down))
<1> DEFINE ut == SubSeq(st, 1, down)
<1>1. DOMAIN st = 1..(down + 1) BY LenProperties
<1>2. /\ ut \in Seq(S) /\ Len(ut) = IF 1 <= down THEN down - 1 + 1 ELSE 0
      /\ \A i \in 1..(down - 1 + 1) : ut[i] = st[1 + i - 1]
  <2>1. \A i \in 1..down : i \in 1..Len(st) OBVIOUS
  <2>2. \A i \in 1..down : st[i] \in S BY <2>1, ElementOfSeq
  <2>3. down \in Int /\ 1 \in Int OBVIOUS
  <2>4. QED BY <2>2, <2>3, SubSeqProperties
<1> HIDE DEF ut
<1>3. Len(ut) = down /\ \A i \in 1..down : ut[i] = st[i]
  <2>1. down - 1 + 1 = down /\ (~(1 <= down) => down = 0) OBVIOUS
  <2>2. \A i \in 1..down : 1 + i - 1 = i OBVIOUS
  <2>3. QED BY <1>2, <2>1, <2>2
<1>4. DOMAIN ut = 1..down BY <1>2, <1>3, LenProperties
<1>5. 1..(down + 1) = 1..down \cup {down + 1} OBVIOUS
<1>6. Range(ut) = {st[i] : i \in 1..down} BY <1>3, <1>4 DEF Range
<1>7. Range(st) = {st[i] : i \in 1..(down + 1)} BY <1>1 DEF Range
<1>8. Range(st) = Range(ut) \cup {st[down + 1]} /\ st[down + 1] \notin Range(ut)
  BY <1>5, <1>6, <1>7
<1>9. QED BY <1>8 DEF ut

LEMMA AskedLeave ==
    ASSUME IInv, IInv', RInv, NEW kind \in Kinds \ {"program"}, NEW marks, NEW after,
           Leave(kind, marks, after),
           marks = IF kind = "block" THEN {} ELSE mark_entity(Top, here + 1),
           after = IF kind = "supershell" THEN adopt(scopes[Top].parent, Top) ELSE scopes
    PROVE  RInv'
<1> DEFINE down == Len(stack) - 1
           p == scopes[Top].parent
           more == scopes[Top].local_objects
           list == scopes[p].local_objects
<1>1. /\ scopes' = after /\ stack' = SubSeq(stack, 1, down) /\ here' = here + 1
      /\ entities' = entities /\ owned_classes' = owned_classes
      /\ entity_map' = entity_map \cup marks /\ occurrences' = occurrences
      /\ scopes[Top].kind = kind
  BY DEF Leave
<1>2. Len(stack) >= 2
  <2>1. Top # 1 BY <1>1, Known
  <2>2. Len(stack) # 1 BY <2>1, Known DEF Top, Program
  <2>3. Len(stack) \in Nat /\ Len(stack) >= 1 BY Known
  <2>4. \A k \in Nat : k >= 1 /\ k # 1 => k >= 2 OBVIOUS
  <2>5. QED BY <2>2, <2>3, <2>4
<1>3. /\ p \in 1..Len(scopes) /\ list \in Seq(EntityId) /\ more \in Seq(EntityId)
  BY Known, TreeFacts DEF Scope
<1>4. /\ Len(after) = Len(scopes)
      /\ \A s \in 1..Len(scopes) : Alike(after[s], scopes[s])
      /\ \A s \in 1..Len(scopes) :
            after[s].local_objects = IF kind = "supershell" /\ s = p THEN list \o more
                                     ELSE scopes[s].local_objects
  <2>1. CASE kind = "supershell"
    <3> DEFINE x == [scopes[p] EXCEPT !.local_objects = list \o more]
    <3>1. after = [scopes EXCEPT ![p] = x] BY <2>1 DEF adopt
    <3>2. scopes[p] \in Scope BY <1>3, Known, TreeFacts
    <3>3. Alike(x, scopes[p]) /\ x.local_objects = list \o more BY <3>2 DEF Alike, Scope
    <3> HIDE DEF x, p, list, more
    <3>4. /\ Len(after) = Len(scopes)
          /\ \A s \in 1..Len(scopes) : after[s] = IF s = p THEN x ELSE scopes[s]
      BY <1>3, <3>1, Known, ExceptSeq
    <3>5. \A s \in 1..Len(scopes) : Alike(scopes[s], scopes[s]) BY DEF Alike
    <3>6. QED BY <2>1, <3>3, <3>4, <3>5
  <2>2. CASE kind # "supershell" BY <2>2 DEF Alike
  <2>3. QED BY <2>1, <2>2
<1>5. Range(stack) = Range(stack') \cup {Top} /\ Top \notin Range(stack')
  <2>1. down \in Nat /\ Len(stack) = down + 1 BY <1>2, Known
  <2>2. stack' = SubSeq(stack, 1, down) /\ Top = stack[down + 1] BY <1>1, <2>1 DEF Top
  <2> HIDE DEF down
  <2>3. \A i \in 1..down : i \in 1..Len(stack) /\ down + 1 \in 1..Len(stack) /\ i # down + 1
    BY <2>1
  <2>4. \A i \in 1..down : stack[i] # stack[down + 1] BY <2>3, Known, StackFacts
  <2>5. QED BY <2>1, <2>2, <2>4, KnownTokens, LastDropped
<1> HIDE DEF down
<1>6. Spans(scopes', stack', entity_map', occurrences', here')
  <2>1. Spans(scopes, stack, entity_map, occurrences, here) BY DEF RInv
  <2>2. marks = IF scopes[Top].kind = "block" THEN {}
                ELSE {[low |-> scopes[Top].low, high |-> here + 1, entity |-> Top]}
    BY <1>1 DEF mark_entity
  <2>3. Spans(scopes, stack', entity_map \cup marks, occurrences, here + 1)
    BY <1>5, <2>1, <2>2, Known, KnownTokens, SpansClosed
  <2>4. \A x \in occurrences : x.scope \in 1..Len(scopes) BY KnownTokens DEF Placeable
  <2>5. \A m \in entity_map \cup marks : m.entity \in 1..Len(scopes)
    BY <2>2, Known, KnownTokens DEF Numbered
  <2>6. Range(stack') \subseteq 1..Len(scopes) BY <1>5, KnownTokens
  <2> DEFINE map == entity_map \cup marks
  <2> HIDE DEF map
  <2>7. Spans(after, stack', map, occurrences, here + 1)
    BY <1>4, <2>3, <2>4, <2>5, <2>6, SpansAlike DEF map
  <2>8. QED BY <1>1, <2>7 DEF map
<1>7. /\ Noted(owned_classes', scopes', entities', occurrences')
      /\ Looked(scopes', entities', occurrences')
  <2>1. Tree(after) BY <1>1 DEF IInv, Ordered
  <2>2. Deeper(scopes, after) BY <1>4, Known DEF Deeper
  <2>3. Longer(entities, entities) BY Known DEF Longer
  <2>4. GainsAll(scopes, after, entities, entities)
    <3> SUFFICES ASSUME NEW s \in 1..Len(scopes)
                 PROVE  Gains(scopes, entities, entities, s, after[s].local_objects)
      BY DEF GainsAll
    <3>1. CASE kind = "supershell" /\ s = p
      <4>1. \A q \in Range(more) : Unfound(scopes, entities, p, entities[q].name)
        BY <1>1, <1>2, <3>1, AdoptedUnfound
      <4>2. after[s].local_objects = scopes[s].local_objects \o more BY <1>4, <3>1
      <4> HIDE DEF more, p
      <4>3. QED BY <1>3, <3>1, <4>1, <4>2 DEF Gains
    <3>2. CASE ~(kind = "supershell" /\ s = p)
      <4>1. after[s].local_objects = scopes[s].local_objects BY <1>4, <3>2
      <4>2. QED BY <4>1, Known, GainsNothing
    <3>3. QED BY <3>1, <3>2
  <2>5. Owning(after, entities)
    <3>1. Owning(scopes, entities) BY DEF RInv, Looked
    <3>2. Range(list) \subseteq ObjectsOf(entities) /\ Range(more) \subseteq ObjectsOf(entities)
      BY <1>3, <3>1, Known DEF Owning
    <3>3. Range(list \o more) = Range(list) \cup Range(more) BY <1>3, RangeConcat
    <3> HIDE DEF list, more, p
    <3>4. QED BY <1>4, <3>1, <3>2, <3>3 DEF Owning
  <2>6. StartsWith(owned_classes, owned_classes) BY DEF StartsWith
  <2>7. NamedOnce(entities) /\ Noted(owned_classes, scopes, entities, occurrences)
        /\ Looked(scopes, entities, occurrences)
    BY DEF RInv, Noted
  <2>8. /\ Noted(owned_classes, after, entities, occurrences \cup {})
        /\ Looked(after, entities, occurrences \cup {})
    BY <2>1, <2>2, <2>3, <2>4, <2>5, <2>6, <2>7, Known, KnownTokens, NamesKept
  <2>9. occurrences \cup {} = occurrences' BY <1>1
  <2>10. QED BY <1>1, <2>8, <2>9
<1>8. Referred(RefsOf(entities'), occurrences', here')
  <2>1. Referred(RefsOf(entities), occurrences, here) BY DEF RInv
  <2>2. Referred({}, {}, here + 1) BY DEF Referred
  <2>3. Counting({}, {}) /\ After({}, {}, here) BY DEF Counting, After
  <2>4. Referred(RefsOf(entities) \cup {}, occurrences \cup {}, here + 1)
    <3>1. here \in Nat /\ here + 1 \in Nat /\ here <= here + 1 BY Known
    <3>2. QED BY <2>1, <2>2, <2>3, <3>1, KnownTokens, ReferredMore
  <2>5. RefsOf(entities) \cup {} = RefsOf(entities') /\ occurrences \cup {} = occurrences'
    BY <1>1
  <2>6. QED BY <1>1, <2>4, <2>5
<1>9. QED BY <1>6, <1>7, <1>8 DEF RInv

\* Two tokens, the second of which is an object's.
LEMMA ReferredTwice ==
    ASSUME NEW at \in Nat, NEW to \in Nat, NEW x, NEW y, NEW j \in Nat, NEW k \in Nat,
           at < j, j < k, k <= to, x.at = j, y.at = k, x.token # "parameter", y.token # "parameter"
    PROVE  /\ Referred({<<x.means, j>>, <<y.means, k>>}, {x, y}, to)
           /\ Counting({<<x.means, j>>, <<y.means, k>>}, {x, y})
           /\ After({<<x.means, j>>, <<y.means, k>>}, {x, y}, at)
<1> DEFINE p == <<x.means, j>>
           q == <<y.means, k>>
<1>1. p[1] = x.means /\ p[2] = j /\ q[1] = y.means /\ q[2] = k OBVIOUS
<1>2. <<x.means, x.at>> = p /\ <<y.means, y.at>> = q OBVIOUS
<1>3. j # k /\ j <= to OBVIOUS
<1> HIDE DEF p, q
<1>4. \A v \in {p, q} : v = p \/ v = q OBVIOUS
<1>5. \A v \in {x, y} : v = x \/ v = y OBVIOUS
<1>6. Referred({p, q}, {x, y}, to) BY <1>1, <1>2, <1>3, <1>4, <1>5 DEF Referred
<1>7. Counting({p, q}, {x, y}) BY <1>1, <1>4, <1>5 DEF Counting
<1>8. After({p, q}, {x, y}, at)
  <2>1. at < k OBVIOUS
  <2>2. QED BY <1>1, <1>4, <1>5, <2>1 DEF After
<1>9. QED BY <1>6, <1>7, <1>8 DEF p, q

\* The token of a declaration.
LEMMA DeclaredLookedUp ==
    ASSUME NEW sc, NEW st, NEW es, NEW own, Ordered(sc, st, es, own), Len(es) <= MaxHere,
           NEW o \in ObjectsOf(es), NEW s \in Range(st), es[o].scope = s,
           NEW x, x.scope = s, x.means = o, x.name = es[o].name
    PROVE  LookedUp(sc, es, x)
<1>1. PICK E, H, K : Counted(sc, st, es, own, E, H, K) BY DEF Ordered
<1>2. Tree(sc) /\ Stacked(sc, st) /\ IsEnclosing(E, sc) /\ IsHolder(H, sc, st)
  BY <1>1 DEF Counted, Ordered
<1>3. s \in 1..Len(sc) BY <1>2, StackFacts DEF Range
<1>4. H[s] = s /\ s \in E[s] BY <1>2, <1>3, HolderFacts, EnclosingFacts
<1>5. Sees(es, E, H, s, o, x.name) BY <1>4 DEF Sees
<1>6. ASSUME NEW f, IsFrom(f, sc, es, x.name) PROVE f[x.scope][SIZE_MAX] = {x.means}
  <2>1. f[s][SIZE_MAX] = {o} BY <1>1, <1>5, <1>6, FoundInSight
  <2>2. QED BY <2>1
<1>7. QED BY <1>6 DEF LookedUp

LEMMA AskedObjectInstantiation ==
    ASSUME IInv, IInv', RInv, NEW c \in Names, NEW n \in Names, ObjectInstantiation(c, n)
    PROVE  RInv'
<1> DEFINE o == Len(entities) + 1
           free == get_class(Top, n) = {} /\ get_object(Top, n) = {}
<1>1. PICK k \in get_class(Top, c) :
         /\ entities' = LET es == add_reference(entities, k, here + 1)
                        IN  IF free THEN Append(es, Defined(n, k, Top, here + 2)) ELSE es
         /\ occurrences' = occurrences \cup {Token(here + 1, Top, "type", c, k)}
              \cup IF free THEN {Token(here + 2, Top, "object", n, o)} ELSE {}
  BY DEF ObjectInstantiation
<1>2. /\ here' = here + 2 /\ stack' = stack /\ owned_classes' = owned_classes
      /\ entity_map' = entity_map
      /\ scopes' = IF free THEN [scopes EXCEPT ![Top].local_objects = Append(@, o)] ELSE scopes
  BY DEF ObjectInstantiation
<1> DEFINE es == add_reference(entities, k, here + 1)
           e  == Defined(n, k, Top, here + 2)
           x  == Token(here + 1, Top, "type", c, k)
           y  == Token(here + 2, Top, "object", n, o)
<1>3. k \in 1..Len(entities) /\ k \in Nat BY FoundEntities
<1>4. here + 1 \in Position /\ here + 2 \in Position /\ here + 2 <= MaxHere /\ here' \in Nat
  <2>1. here' \in Position BY DEF IInv, Placed
  <2>2. QED BY <1>2, <2>1, Known DEF Position
<1>5. NotedAs(owned_classes, scopes, entities, x) BY TypeNoted
<1>6. es \in Seq(Entity) /\ Likewise(entities, es) /\ Len(es) = Len(entities)
      /\ RefsOf(es) = RefsOf(entities) \cup {<<k, here + 1>>}
  BY <1>3, <1>4, Known, ReferenceAdded, RefsReferred DEF Likewise
<1>7. /\ x.at = here + 1 /\ x.scope = Top /\ x.token = "type" /\ x.means = k
      /\ y.at = here + 2 /\ y.scope = Top /\ y.token = "object" /\ y.means = o /\ y.name = n
  BY DEF Token
<1>8. CASE ~free
  <2>1. /\ entities' = es /\ UNCHANGED <<scopes, stack, owned_classes, entity_map>>
        /\ occurrences' = occurrences \cup {Token(here + 1, Top, "type", c, k)}
    BY <1>1, <1>2, <1>8
  <2>2. here' \in {here + 1, here + 2} BY <1>2
  <2>3. QED BY <1>3, <1>5, <2>1, <2>2, AskedReference
<1>9. CASE free
  <2>1. /\ entities' = Append(es, e)
        /\ scopes' = [scopes EXCEPT ![Top].local_objects = Append(@, o)]
        /\ occurrences' = occurrences \cup {x, y}
    BY <1>1, <1>2, <1>9
  <2>2. get_object(stack[Len(stack)], n) = {} BY <1>9 DEF Top
  <2>3. e \in Entity /\ e.class = k /\ e.scope = Top /\ e.name = n
        /\ e.references = <<here + 2>>
    <3>1. <<here + 2>> \in Seq(Position) BY <1>4
    <3>2. Top \in Nat BY Known
    <3>3. QED BY <1>3, <3>1, <3>2 DEF Defined, Entity
  <2> HIDE DEF es, e, x, y, free
  <2>4. /\ entities' \in Seq(Entity) /\ Len(entities') = o /\ entities'[o] = e
        /\ ObjectsOf(entities') = ObjectsOf(es) \cup {o}
        /\ Longer(es, entities')
        /\ RefsOf(entities') = RefsOf(es) \cup {<<o, here + 2>>}
    <3>1. here + 2 \in Nat /\ k # 0 /\ Len(es) + 1 = o BY <1>3, <1>6, Known
    <3> HIDE DEF o
    <3>2. /\ Append(es, e) \in Seq(Entity) /\ Len(Append(es, e)) = o
          /\ Append(es, e)[o] = e
          /\ ObjectsOf(Append(es, e)) = ObjectsOf(es) \cup IF e.class # 0 THEN {o} ELSE {}
      BY <1>6, <2>3, <3>1, MoreEntities
    <3>3. Longer(es, Append(es, e)) BY <1>6, <2>3, AppendedLonger
    <3>4. RefsOf(Append(es, e)) = RefsOf(es) \cup {<<o, here + 2>>}
      BY <1>6, <2>3, <3>1, RefsAppended
    <3>5. e.class # 0 BY <2>3, <3>1
    <3>6. QED BY <2>1, <3>2, <3>3, <3>4, <3>5
  <2>5. Longer(entities, entities')
    <3>1. Longer(entities, es) BY <1>6, Known, LikewiseLonger
    <3>2. QED BY <2>4, <3>1, LongerTwice
  <2>6. /\ Len(scopes') = Len(scopes)
        /\ \A s \in 1..Len(scopes) : Alike(scopes'[s], scopes[s])
        /\ \A s \in 1..Len(scopes) :
              scopes'[s].local_objects = IF s = Top THEN scopes[s].local_objects \o <<o>>
                                         ELSE scopes[s].local_objects
    <3> DEFINE list == scopes[Top].local_objects
               t == [scopes[Top] EXCEPT !.local_objects = Append(list, o)]
    <3>1. scopes' = [scopes EXCEPT ![Top] = t] BY <2>1
    <3>2. scopes[Top] \in Scope /\ list \in Seq(EntityId) BY Known, TreeFacts DEF Scope
    <3>3. o \in EntityId
      <4>1. o \in Nat /\ o >= 1 /\ o <= MaxHere BY <1>4, Known
      <4> HIDE DEF o
      <4>2. QED BY <4>1, Known DEF EntityId
    <3>4. Append(list, o) = list \o <<o>> BY <3>2, <3>3, AppendIsConcat
    <3>5. Alike(t, scopes[Top]) /\ t.local_objects = Append(list, o) BY <3>2 DEF Alike, Scope
    <3> HIDE DEF t
    <3>6. /\ Len(scopes') = Len(scopes)
          /\ \A s \in 1..Len(scopes) : scopes'[s] = IF s = Top THEN t ELSE scopes[s]
      BY <3>1, Known, ExceptSeq
    <3>7. \A s \in 1..Len(scopes) : Alike(scopes[s], scopes[s]) BY DEF Alike
    <3>8. QED BY <3>4, <3>5, <3>6, <3>7
  <2>7. Spans(scopes', stack', entity_map', occurrences', here')
    <3>1. Fresh({x, y}, Top, here, here + 2)
      <4>1. here + 1 <= here + 2 /\ here < here + 1 /\ here < here + 2 /\ here + 2 <= here + 2
            /\ here \in Nat /\ here + 1 \in Nat /\ here + 2 \in Nat
        BY Known
      <4>2. QED BY <1>7, <4>1 DEF Fresh
    <3>2. Spans(scopes, stack, entity_map, occurrences, here) BY DEF RInv
    <3> DEFINE all == occurrences \cup {x, y}
    <3>3. Spans(scopes, stack, entity_map, all, here + 2)
      BY <3>1, <3>2, Known, KnownTokens, SpansMore
    <3>4. \A z \in all : z.scope \in 1..Len(scopes) BY <1>7, Known, KnownTokens DEF Placeable
    <3>5. \A m \in entity_map : m.entity \in 1..Len(scopes) BY KnownTokens DEF Numbered
    <3>6. all = occurrences' BY <2>1
    <3> HIDE DEF all
    <3>7. Spans(scopes', stack, entity_map, all, here + 2)
      BY <2>6, <3>3, <3>4, <3>5, KnownTokens, SpansAlike
    <3>8. QED BY <1>2, <3>6, <3>7
  <2>8. /\ Noted(owned_classes', scopes', entities', occurrences')
        /\ Looked(scopes', entities', occurrences')
    <3>1. Tree(scopes') BY DEF IInv, Ordered
    <3>2. Deeper(scopes, scopes') BY <2>6, Known DEF Deeper
    <3>3. GainsAll(scopes, scopes', entities, entities')
      <4> SUFFICES ASSUME NEW s \in 1..Len(scopes)
                   PROVE  Gains(scopes, entities, entities', s, scopes'[s].local_objects)
        BY DEF GainsAll
      <4>1. CASE s = Top
        <5>1. Unfound(scopes, entities, stack[Len(stack)], n) BY <2>2, Known, FreeUnfound
        <5>2. Range(<<o>>) = {o} BY DEF Range
        <5>3. <<o>> \in Seq(EntityId)
          <6>1. o \in Nat /\ o >= 1 /\ o <= MaxHere BY <1>4, Known
          <6> HIDE DEF o
          <6>2. QED BY <6>1, Known DEF EntityId
        <5>4. scopes'[s].local_objects = scopes[s].local_objects \o <<o>> BY <2>6, <4>1
        <5>5. \A q \in Range(<<o>>) : Unfound(scopes, entities, s, entities'[q].name)
          BY <2>3, <2>4, <4>1, <5>1, <5>2 DEF Top
        <5> HIDE DEF o
        <5>6. QED BY <5>3, <5>4, <5>5 DEF Gains
      <4>2. CASE s # Top
        <5>1. scopes'[s].local_objects = scopes[s].local_objects BY <2>6, <4>2
        <5>2. QED BY <5>1, Known, GainsNothing
      <4>3. QED BY <4>1, <4>2
    <3>4. Owning(scopes', entities')
      <4>1. Owning(scopes, entities) BY DEF RInv, Looked
      <4>2. Range(scopes'[Top].local_objects) \subseteq ObjectsOf(entities')
        <5> DEFINE list == scopes[Top].local_objects
        <5>1. list \in Seq(EntityId) /\ Range(list) \subseteq ObjectsOf(entities)
          BY <4>1, Known, TreeFacts DEF Scope, Owning
        <5>2. o \in Nat /\ o >= 1 /\ o <= MaxHere BY <1>4, Known
        <5>3. ObjectsOf(entities) \subseteq ObjectsOf(entities') /\ o \in ObjectsOf(entities')
          BY <2>4, <2>5, Known, LongerFacts
        <5>4. scopes'[Top].local_objects = list \o <<o>> BY <2>6, Known
        <5> HIDE DEF o, list
        <5>5. <<o>> \in Seq(EntityId) /\ Range(<<o>>) = {o} BY <5>2, Known DEF EntityId, Range
        <5> DEFINE more == <<o>>
        <5>6. more \in Seq(EntityId) /\ Range(more) = {o} BY <5>5
        <5> HIDE DEF more
        <5>7. Range(list \o more) = Range(list) \cup Range(more) BY <5>1, <5>6, RangeConcat
        <5>8. QED BY <5>1, <5>3, <5>4, <5>6, <5>7 DEF more
      <4>3. \A s \in 1..Len(scopes') :
               \/ s \in 1..Len(scopes) /\ scopes'[s].local_objects = scopes[s].local_objects
               \/ Range(scopes'[s].local_objects) \subseteq ObjectsOf(entities')
        BY <2>6, <4>2
      <4>4. QED BY <2>4, <2>5, <4>1, <4>3, Known, OwningMore
    <3>5. StartsWith(owned_classes, owned_classes) BY DEF StartsWith
    <3>6. NamedOnce(entities')
      <4>1. NamedOnce(entities) BY DEF RInv, Noted
      <4>2. \A d \in ClassesOf(entities') : d \in 1..Len(entities)
        <5>1. DOMAIN entities' = 1..o BY <2>4, LenProperties
        <5>2. \A d \in 1..o : d = o \/ d \in 1..Len(entities) BY Known
        <5>3. QED BY <2>4, <5>1, <5>2 DEF ClassesOf
      <4>3. QED BY <2>4, <2>5, <4>1, <4>2, Known, NamedOnceMore
    <3>7. Noted(owned_classes, scopes, entities, occurrences) /\ Looked(scopes, entities, occurrences)
      BY DEF RInv
    <3>8. NotedAs(owned_classes, scopes', entities', x)
      <4>1. x.scope \in 1..Len(scopes) BY <1>7, Known
      <4>2. \A i \in 1..Len(owned_classes) :
               i \in 1..Len(owned_classes) /\ owned_classes[i] = owned_classes[i]
        OBVIOUS
      <4>3. QED BY <1>5, <2>4, <2>5, <3>2, <4>1, <4>2, Known, NotedLater
    <3>9. NotedAs(owned_classes, scopes', entities', y) BY <1>7 DEF NotedAs
    <3>10. LookedUp(scopes', entities', y)
      <4>1. Ordered(scopes', stack', entities', owned_classes') BY DEF IInv
      <4>2. o \in ObjectsOf(entities') /\ entities'[o].scope = Top /\ entities'[o].name = n
        BY <2>3, <2>4
      <4>3. Len(entities') <= MaxHere BY <1>4, <2>4, Known
      <4>4. Top \in Range(stack') BY <1>2, Known
      <4> HIDE DEF o
      <4>5. QED BY <1>7, <4>1, <4>2, <4>3, <4>4, DeclaredLookedUp
    <3> DEFINE fresh == {x, y}
    <3>11. /\ \A z \in fresh : NotedAs(owned_classes, scopes', entities', z)
           /\ \A z \in fresh : z.token = "object" => LookedUp(scopes', entities', z)
      BY <1>7, <3>8, <3>9, <3>10
    <3>12. occurrences' = occurrences \cup fresh BY <2>1
    <3> HIDE DEF fresh
    <3>13. /\ Noted(owned_classes, scopes', entities', occurrences \cup fresh)
           /\ Looked(scopes', entities', occurrences \cup fresh)
      BY <2>4, <2>5, <3>1, <3>2, <3>3, <3>4, <3>5, <3>6, <3>7, <3>11, Known, KnownTokens, NamesKept
    <3>14. QED BY <1>2, <3>12, <3>13
  <2>9. Referred(RefsOf(entities'), occurrences', here')
    <3>1. Referred(RefsOf(entities), occurrences, here) BY DEF RInv
    <3> DEFINE adds == {<<x.means, here + 1>>, <<y.means, here + 2>>}
               fresh == {x, y}
    <3>2. Referred(adds, fresh, here + 2) /\ Counting(adds, fresh) /\ After(adds, fresh, here)
      <4>1. /\ here \in Nat /\ here + 1 \in Nat /\ here + 2 \in Nat
            /\ here < here + 1 /\ here + 1 < here + 2 /\ here + 2 <= here + 2
        BY Known
      <4>2. QED BY <1>7, <4>1, ReferredTwice
    <3>3. RefsOf(entities') = RefsOf(entities) \cup adds BY <1>6, <1>7, <2>4
    <3>4. here \in Nat /\ here + 2 \in Nat /\ here <= here + 2 BY Known
    <3>5. occurrences' = occurrences \cup fresh BY <2>1
    <3> HIDE DEF adds, fresh
    <3>6. Referred(RefsOf(entities) \cup adds, occurrences \cup fresh, here + 2)
      BY <3>1, <3>2, <3>4, KnownTokens, ReferredMore
    <3>7. QED BY <1>2, <3>3, <3>5, <3>6
  <2>10. QED BY <2>7, <2>8, <2>9 DEF RInv
<1>10. QED BY <1>8, <1>9

\* Two tokens of a scope that is opened.
LEMMA FreshTwice ==
    ASSUME NEW s, NEW at \in Nat, NEW to \in Nat, NEW x, NEW y, NEW j \in Nat, NEW k \in Nat,
           at < j, j < k, k <= to, x.at = j, y.at = k, x.scope = s, y.scope = s
    PROVE  Fresh({x, y}, s, at, to)
<1>1. at < k /\ j <= to /\ at < to OBVIOUS
<1>2. \A v \in {x, y} : v = x \/ v = y OBVIOUS
<1>3. QED BY <1>1, <1>2 DEF Fresh

\* The first of two tokens is the parameter's, and its class is referred to further left.
LEMMA ReferredParameter ==
    ASSUME NEW at \in Nat, NEW to \in Nat, NEW x, NEW y, NEW c,
           NEW i \in Nat, NEW j \in Nat, NEW k \in Nat,
           at < i, i < j, j < k, k <= to, x.at = j, y.at = k,
           x.token = "parameter", y.token # "parameter"
    PROVE  /\ Referred({<<c, i>>, <<y.means, k>>}, {x, y}, to)
           /\ Counting({<<c, i>>, <<y.means, k>>}, {x, y})
           /\ After({<<c, i>>, <<y.means, k>>}, {x, y}, at)
<1> DEFINE p == <<c, i>>
           q == <<y.means, k>>
<1>1. p[1] = c /\ p[2] = i /\ q[1] = y.means /\ q[2] = k /\ <<y.means, y.at>> = q OBVIOUS
<1>2. i # j /\ i # k /\ j # k /\ i <= to /\ j <= to /\ at < j /\ at < k OBVIOUS
<1> HIDE DEF p, q
<1>3. \A v \in {p, q} : v = p \/ v = q OBVIOUS
<1>4. \A v \in {x, y} : v = x \/ v = y OBVIOUS
<1>5. Referred({p, q}, {x, y}, to) BY <1>1, <1>2, <1>3, <1>4 DEF Referred
<1>6. Counting({p, q}, {x, y}) BY <1>1, <1>3, <1>4 DEF Counting
<1>7. After({p, q}, {x, y}, at) BY <1>1, <1>2, <1>3, <1>4 DEF After
<1>8. QED BY <1>5, <1>6, <1>7 DEF p, q

LEMMA AskedMethodDefinition ==
    ASSUME IInv, IInv', RInv, enterMethodDefinition PROVE RInv'
<1> DEFINE s == Len(scopes) + 1
           opened == inherit("method", Program)
           o == Len(entities) + 1
<1>1. /\ stack' = Append(stack, s) /\ owned_classes' = owned_classes /\ entity_map' = entity_map
  BY DEF enterMethodDefinition
<1>2. here' \in Position /\ here' <= MaxHere /\ here' \in Nat
  BY Known DEF IInv, Placed, Position
<1>3. here' = here + 1 \/ here' = here + 4 BY DEF enterMethodDefinition
<1>4. opened \in Scope /\ opened.low = here + 1 /\ opened.local_objects = <<>>
  <2>1. here + 1 <= MaxHere BY <1>2, <1>3, Known
  <2>2. PICK E, H, K : CountedNow(E, H, K) BY DEF IInv, Ordered, CountedNow
  <2>3. "method" \in Kinds BY DEF Kinds
  <2>4. QED BY <2>1, <2>2, <2>3, Known, Inherits
<1> HIDE DEF opened
<1>5. CASE here' = here + 1 /\ scopes' = Append(scopes, opened) /\ UNCHANGED <<entities, occurrences>>
  BY <1>1, <1>4, <1>5, AskedEmpty
<1>6. ASSUME NEW n \in Names, NEW c \in {owned_classes[i] : i \in DOMAIN owned_classes},
             here' = here + 4,
             scopes' = Append(scopes, [opened EXCEPT !.local_objects = <<o>>]),
             entities' = add_reference(Append(entities, Defined(n, c, s, here + 4)), c, here + 2),
             occurrences' = occurrences \cup
                {Token(here + 3, s, "parameter", n, c), Token(here + 4, s, "object", n, o)}
      PROVE  RInv'
  <2> DEFINE e == Defined(n, c, s, here + 4)
             es == Append(entities, e)
             new == [opened EXCEPT !.local_objects = <<o>>]
             x == Token(here + 3, s, "parameter", n, c)
             y == Token(here + 4, s, "object", n, o)
             fresh == {x, y}
             adds == {<<c, here + 2>>, <<y.means, here + 4>>}
  <2>1. c \in ClassesOf(entities) /\ c \in 1..Len(entities) /\ c \in Nat /\ c # 0
    <3>1. Range(owned_classes) = ClassesOf(entities) BY Known DEF Owned
    <3>2. c \in ClassesOf(entities) BY <3>1 DEF Range
    <3>3. QED BY <3>2, Known DEF ClassesOf
  <2>2. /\ here + 2 \in Position /\ here + 3 \in Position /\ here + 4 \in Position
        /\ here \in Nat /\ here + 2 \in Nat /\ here + 3 \in Nat /\ here + 4 \in Nat
        /\ here < here + 2 /\ here < here + 3 /\ here + 2 < here + 3 /\ here + 3 < here + 4
    <3>1. here \in Nat /\ here + 4 \in 0..MaxHere BY <1>2, <1>6, Known DEF Position
    <3>2. MaxHere \in Nat BY Known
    <3>3. /\ here + 2 \in 0..MaxHere /\ here + 3 \in 0..MaxHere
          /\ here + 2 \in Nat /\ here + 3 \in Nat /\ here + 4 \in Nat
      BY <3>1, <3>2
    <3>4. here < here + 2 /\ here < here + 3 /\ here + 2 < here + 3 /\ here + 3 < here + 4
      BY <3>1
    <3>5. QED BY <3>1, <3>3, <3>4 DEF Position
  <2>3. e \in Entity /\ e.class = c /\ e.scope = s /\ e.name = n /\ e.references = <<here + 4>>
    <3>1. <<here + 4>> \in Seq(Position) BY <2>2
    <3>2. s \in Nat BY Known
    <3>3. QED BY <2>1, <3>1, <3>2 DEF Defined, Entity
  <2>4. /\ x.at = here + 3 /\ x.scope = s /\ x.token = "parameter"
        /\ y.at = here + 4 /\ y.scope = s /\ y.token = "object" /\ y.name = n /\ y.means = o
    BY DEF Token
  <2>5. o \in Nat /\ o \in EntityId /\ o <= MaxHere
    <3>1. here + 4 <= MaxHere BY <1>2, <1>6
    <3>2. QED BY <3>1, Known DEF EntityId
  <2>6. new \in Scope /\ new.low = here + 1 /\ new.local_objects = <<o>>
    <3>1. <<o>> \in Seq(EntityId) BY <2>5
    <3> HIDE DEF o
    <3>2. QED BY <1>4, <3>1 DEF Scope
  <2> HIDE DEF e, x, y
  <2>7. /\ es \in Seq(Entity) /\ Len(es) = o /\ es[o] = e
        /\ ObjectsOf(es) = ObjectsOf(entities) \cup {o}
        /\ Longer(entities, es)
        /\ RefsOf(es) = RefsOf(entities) \cup {<<o, here + 4>>}
    <3>1. e.class # 0 BY <2>1, <2>3
    <3>2. /\ es \in Seq(Entity) /\ Len(es) = o /\ es[o] = e
          /\ ObjectsOf(es) = ObjectsOf(entities) \cup IF e.class # 0 THEN {o} ELSE {}
      BY <2>3, Known, MoreEntities
    <3>3. Longer(entities, es) BY <2>3, Known, AppendedLonger
    <3>4. RefsOf(es) = RefsOf(entities) \cup {<<o, here + 4>>} BY <2>2, <2>3, Known, RefsAppended
    <3> HIDE DEF es, o
    <3>5. QED BY <3>1, <3>2, <3>3, <3>4
  <2>8. c \in 1..Len(es) /\ o \in 1..Len(es) BY <2>1, <2>5, <2>7, Known
  <2> HIDE DEF es, new
  <2>9. entities' = add_reference(es, c, here + 2) BY <1>6 DEF es, e
  <2>10. /\ entities' \in Seq(Entity) /\ Likewise(es, entities')
         /\ RefsOf(entities') = RefsOf(es) \cup {<<c, here + 2>>}
    BY <2>2, <2>7, <2>8, <2>9, ReferenceAdded, RefsReferred
  <2>11. Longer(es, entities') BY <2>5, <2>7, <2>10, LikewiseLonger
  <2>12. Longer(entities, entities') BY <2>7, <2>11, LongerTwice
  <2>13. /\ o \in ObjectsOf(entities') /\ entities'[o].scope = s /\ entities'[o].name = n
         /\ Len(entities') = o /\ DOMAIN entities' = 1..o
    <3>1. Len(entities') = o BY <2>7, <2>10 DEF Likewise
    <3>2. DOMAIN entities' = 1..o BY <2>10, <3>1, LenProperties
    <3>3. /\ entities'[o].class = es[o].class /\ entities'[o].scope = es[o].scope
          /\ entities'[o].name = es[o].name
      BY <2>8, <2>11 DEF Longer
    <3>4. entities'[o].class # 0 /\ o \in 1..o BY <2>1, <2>3, <2>7, <2>8, <3>3
    <3>5. QED BY <2>3, <2>7, <3>1, <3>2, <3>3, <3>4 DEF ObjectsOf
  <2>14. NamedOnce(entities')
    <3>1. NamedOnce(entities) BY DEF RInv, Noted
    <3>2. \A d \in ClassesOf(entities') : d \in 1..Len(entities)
      <4>1. \A d \in 1..o : d = o \/ d \in 1..Len(entities) BY Known
      <4>2. QED BY <2>13, <4>1 DEF ClassesOf
    <3>3. QED BY <2>10, <2>12, <3>1, <3>2, Known, NamedOnceMore
  <2> HIDE DEF o
  <2>15. Range(new.local_objects) \subseteq ObjectsOf(entities') BY <2>6, <2>13 DEF Range
  <2>16. scopes' = Append(scopes, new) BY <1>6 DEF new, o
  <2>17. /\ NotedAs(owned_classes', scopes', entities', x)
         /\ NotedAs(owned_classes', scopes', entities', y)
    BY <2>4 DEF NotedAs
  <2>18. LookedUp(scopes', entities', y)
    <3>1. Ordered(scopes', stack', entities', owned_classes') BY DEF IInv
    <3>2. s \in Range(stack')
      <4>1. stack \in Seq(1..Len(scopes)) /\ s \in Nat BY Known, KnownTokens
      <4>2. Len(stack') = Len(stack) + 1 /\ stack'[Len(stack) + 1] = s BY <1>1, Known, AppendFacts DEF Stacked
      <4>3. stack' \in Seq(Nat)
        <5>1. stack \in Seq(Nat) BY <4>1, SeqMonotonic
        <5>2. QED BY <1>1, <4>1, <5>1, AppendProperties
      <4>4. DOMAIN stack' = 1..(Len(stack) + 1) BY <4>2, <4>3, LenProperties
      <4>5. Len(stack) + 1 \in 1..(Len(stack) + 1) BY Known
      <4>6. QED BY <4>2, <4>4, <4>5 DEF Range
    <3>3. Len(entities') <= MaxHere BY <2>5, <2>13
    <3> HIDE DEF s
    <3>4. QED BY <2>4, <2>13, <3>1, <3>2, <3>3, DeclaredLookedUp
  <2>19. /\ \A z \in fresh : NotedAs(owned_classes', scopes', entities', z)
         /\ \A z \in fresh : z.token = "object" => LookedUp(scopes', entities', z)
    BY <2>4, <2>17, <2>18
  <2>20. Fresh(fresh, Len(scopes) + 1, here, here')
    <3>1. here + 4 <= here + 4 BY <2>2
    <3>2. Fresh(fresh, s, here, here + 4) BY <2>2, <2>4, <3>1, FreshTwice
    <3>3. QED BY <1>6, <3>2
  <2>21. Referred(adds, fresh, here') /\ Counting(adds, fresh) /\ After(adds, fresh, here)
    <3>1. here + 4 <= here + 4 /\ y.token # "parameter" BY <2>2, <2>4
    <3>2. Referred(adds, fresh, here + 4) /\ Counting(adds, fresh) /\ After(adds, fresh, here)
      BY <2>2, <2>4, <3>1, ReferredParameter
    <3>3. QED BY <1>6, <3>2
  <2>22. RefsOf(entities') = RefsOf(entities) \cup adds BY <2>4, <2>7, <2>10
  <2>23. occurrences' = occurrences \cup fresh BY <1>6 DEF x, y, o
  <2>24. StartsWith(owned_classes', owned_classes) BY <1>1 DEF StartsWith
  <2> HIDE DEF fresh, adds
  <2>25. QED BY <1>1, <2>6, <2>12, <2>14, <2>15, <2>16, <2>19, <2>20, <2>21, <2>22, <2>23, <2>24,
                AskedOpened
<1>7. QED BY <1>5, <1>6 DEF enterMethodDefinition, opened

\* One token.
LEMMA ReferredOnce ==
    ASSUME NEW at \in Nat, NEW to \in Nat, NEW x, NEW j \in Nat, at < j, j <= to, x.at = j,
           x.token # "parameter"
    PROVE  /\ Referred({<<x.means, j>>}, {x}, to) /\ Counting({<<x.means, j>>}, {x})
           /\ After({<<x.means, j>>}, {x}, at)
<1> DEFINE p == <<x.means, j>>
<1>1. p[1] = x.means /\ p[2] = j /\ <<x.means, x.at>> = p OBVIOUS
<1> HIDE DEF p
<1>2. Referred({p}, {x}, to) BY <1>1 DEF Referred
<1>3. Counting({p}, {x}) /\ After({p}, {x}, at) BY <1>1 DEF Counting, After
<1>4. QED BY <1>2, <1>3 DEF p

NamesClass(es, x) ==
    x.token = "class" /\ x.means \in ClassesOf(es) /\ es[x.means].name = x.name

\* A class is defined, and the names in its header are read.
LEMMA AskedClass ==
    ASSUME IInv, IInv', RInv, NEW n \in Names, get_class(Program, n) = {},
           NEW e \in Entity, e.class = 0, e.name = n, e.references = <<here + 1>>, here + 1 <= here',
           scopes' = Append(scopes, inherit("class", Program)),
           stack' = Append(stack, Len(scopes) + 1),
           owned_classes' = Append(owned_classes, Len(entities) + 1), entity_map' = entity_map,
           entities' \in Seq(Entity), Likewise(Append(entities, e), entities'),
           NEW fresh, occurrences' = occurrences \cup fresh,
           Fresh(fresh, Len(scopes) + 1, here, here'),
           \A x \in fresh : NamesClass(Append(entities, e), x),
           NEW adds, RefsOf(entities') = RefsOf(entities) \cup adds,
           Referred(adds, fresh, here'), Counting(adds, fresh), After(adds, fresh, here)
    PROVE  RInv'
<1> DEFINE c == Len(entities) + 1
           es == Append(entities, e)
           new == inherit("class", Program)
<1>1. new \in Scope /\ new.low = here + 1 /\ new.local_objects = <<>>
  <2>1. here + 1 <= MaxHere
    <3>1. here' <= MaxHere /\ here' \in Nat BY Known DEF IInv, Placed, Position
    <3>2. QED BY <3>1, Known
  <2>2. PICK E, H, K : CountedNow(E, H, K) BY DEF IInv, Ordered, CountedNow
  <2>3. "class" \in Kinds BY DEF Kinds
  <2>4. QED BY <2>1, <2>2, <2>3, Known, Inherits
<1>2. es \in Seq(Entity) /\ Len(es) = c /\ es[c] = e /\ c \in Nat /\ Longer(entities, es)
  BY Known, MoreEntities, AppendedLonger
<1> HIDE DEF es, new
<1>3. Longer(es, entities')
  <2>1. Likewise(es, entities') BY DEF es
  <2> HIDE DEF c
  <2>2. QED BY <1>2, <2>1, LikewiseLonger
<1>4. Longer(entities, entities') BY <1>2, <1>3, LongerTwice
<1>5. ClassesOf(es) \subseteq ClassesOf(entities')
  BY <1>2, <1>3, LongerFacts
<1>6. Len(entities') = c /\ DOMAIN entities' = 1..c
  <2>1. Likewise(es, entities') BY DEF es
  <2>2. Len(entities') = c BY <1>2, <2>1 DEF Likewise
  <2>3. QED BY <2>2, LenProperties
<1>7. NamedOnce(entities')
  <2>1. NamedOnce(entities) BY DEF RInv, Noted
  <2>2. \A d \in ClassesOf(entities) : entities[d].name # n
    <3>1. Program \in 1..Len(scopes) BY Known, TreeFacts DEF Program
    <3>2. {d \in ClassesOf(entities) : entities[d].name = n} \subseteq get_class(Program, n)
      BY <3>1, ClassesSeen
    <3>3. QED BY <3>2
  <2>3. entities'[c].name = n
    <3>1. c \in 1..Len(es) BY <1>2, Known
    <3> HIDE DEF c
    <3>2. QED BY <1>2, <1>3, <3>1 DEF Longer
  <2>4. \A d \in ClassesOf(entities') : d = c \/ d \in 1..Len(entities)
    <3>1. Len(entities) \in Nat BY Known
    <3>2. \A d \in 1..c : d = c \/ d \in 1..Len(entities) BY <3>1
    <3>3. QED BY <1>6, <3>2 DEF ClassesOf
  <2> HIDE DEF c
  <2>5. \A d \in ClassesOf(entities') :
           d \in 1..Len(entities)
           \/ (d = c /\ \A b \in ClassesOf(entities) : entities[b].name # entities'[d].name)
    BY <2>2, <2>3, <2>4
  <2>6. ClassesOf(entities) = ClassesOf(entities') \cap 1..Len(entities)
        /\ \A d \in 1..Len(entities) : entities'[d].name = entities[d].name
    BY <1>4, Known, LongerFacts DEF Longer
  <2>7. ASSUME NEW b \in ClassesOf(entities'), NEW d \in ClassesOf(entities'),
               entities'[b].name = entities'[d].name
        PROVE  b = d
    <3>1. CASE b \in 1..Len(entities) /\ d \in 1..Len(entities)
      <4>1. b \in ClassesOf(entities) /\ d \in ClassesOf(entities) BY <2>6, <3>1
      <4>2. entities[b].name = entities[d].name BY <2>6, <2>7, <3>1
      <4>3. QED BY <2>1, <4>1, <4>2 DEF NamedOnce
    <3>2. CASE b \in 1..Len(entities) /\ d \notin 1..Len(entities)
      <4>1. b \in ClassesOf(entities) /\ entities'[b].name = entities[b].name BY <2>6, <3>2
      <4>2. QED BY <2>5, <2>7, <3>2, <4>1
    <3>3. CASE b \notin 1..Len(entities) /\ d \in 1..Len(entities)
      <4>1. d \in ClassesOf(entities) /\ entities'[d].name = entities[d].name BY <2>6, <3>3
      <4>2. QED BY <2>5, <2>7, <3>3, <4>1
    <3>4. CASE b \notin 1..Len(entities) /\ d \notin 1..Len(entities)
      BY <2>5, <3>4
    <3>5. QED BY <3>1, <3>2, <3>3, <3>4
  <2>8. QED BY <2>7 DEF NamedOnce
<1>8. StartsWith(owned_classes', owned_classes)
  <2>1. owned_classes \in Seq(Nat)
    <3>1. owned_classes \in Seq(ClassesOf(entities)) BY Known DEF Owned
    <3>2. ClassesOf(entities) \subseteq Nat BY Known DEF ClassesOf
    <3>3. QED BY <3>1, <3>2, SeqMonotonic
  <2> HIDE DEF c
  <2>2. Len(owned_classes') = Len(owned_classes) + 1
        /\ \A k \in 1..Len(owned_classes) : owned_classes'[k] = owned_classes[k]
    BY <2>1, AppendFacts DEF c
  <2>3. \A k \in 1..Len(owned_classes) : k \in 1..(Len(owned_classes) + 1) BY Known
  <2>4. QED BY <2>2, <2>3 DEF StartsWith
<1>9. Range(new.local_objects) \subseteq ObjectsOf(entities') BY <1>1 DEF Range
<1>10. ASSUME NEW x \in fresh
       PROVE  NotedAs(owned_classes', scopes', entities', x) /\ x.token # "object"
  <2>1. x.token = "class" /\ x.means \in ClassesOf(es) /\ es[x.means].name = x.name
    BY DEF NamesClass, es
  <2>2. x.means \in 1..Len(es) BY <1>2, <2>1, LenProperties DEF ClassesOf
  <2>3. entities'[x.means].name = x.name BY <1>3, <2>1, <2>2 DEF Longer
  <2>4. x.means \in ClassesOf(entities') BY <1>5, <2>1
  <2>5. QED BY <2>1, <2>3, <2>4 DEF NotedAs
<1>11. scopes' = Append(scopes, new) BY DEF new
<1>12. /\ \A x \in fresh : NotedAs(owned_classes', scopes', entities', x)
       /\ \A x \in fresh : x.token = "object" => LookedUp(scopes', entities', x)
  BY <1>10
<1>13. QED BY <1>1, <1>4, <1>7, <1>8, <1>9, <1>11, <1>12, AskedOpened

LEMMA AskedClassDefinition ==
    ASSUME IInv, IInv', RInv, NEW n \in Names, enterClassDefinition(n) PROVE RInv'
<1> DEFINE c == Len(entities) + 1
           s == Len(scopes) + 1
           e == Defined(n, 0, s, here + 1)
           es == Append(entities, e)
           x == Token(here + 1, s, "class", n, c)
<1>1. /\ get_class(Program, n) = {}
      /\ scopes' = Append(scopes, inherit("class", Program)) /\ stack' = Append(stack, s)
      /\ owned_classes' = Append(owned_classes, c) /\ entity_map' = entity_map
  BY DEF enterClassDefinition
<1>2. here' = here + 1 \/ here' = here + 2 BY DEF enterClassDefinition
<1>3. /\ here' \in Position /\ here + 1 \in Position /\ here + 1 <= here' /\ here' \in Nat
      /\ here \in Nat /\ here + 1 \in Nat /\ here < here + 1 /\ here < here'
  <2>1. here' \in Position BY DEF IInv, Placed
  <2>2. QED BY <1>2, <2>1, Known DEF Position
<1>4. e \in Entity /\ e.class = 0 /\ e.name = n /\ e.references = <<here + 1>>
  <2>1. <<here + 1>> \in Seq(Position) BY <1>3
  <2>2. s \in Nat BY Known
  <2>3. QED BY <2>1, <2>2 DEF Defined, Entity
<1>5. x.at = here + 1 /\ x.scope = s /\ x.token = "class" /\ x.name = n /\ x.means = c
  BY DEF Token
<1> HIDE DEF e, x
<1>6. /\ es \in Seq(Entity) /\ Len(es) = c /\ es[c] = e /\ DOMAIN es = 1..c /\ c \in 1..c
      /\ RefsOf(es) = RefsOf(entities) \cup {<<c, here + 1>>}
  <2>1. es \in Seq(Entity) /\ Len(es) = c /\ es[c] = e BY <1>4, Known, MoreEntities
  <2>2. RefsOf(es) = RefsOf(entities) \cup {<<c, here + 1>>} BY <1>3, <1>4, Known, RefsAppended
  <2>3. c \in 1..c BY Known
  <2> HIDE DEF es, c
  <2>4. DOMAIN es = 1..c BY <2>1, LenProperties
  <2>5. QED BY <2>1, <2>2, <2>3, <2>4
<1> HIDE DEF es, c
<1>7. NamesClass(es, x)
  <2>1. c \in ClassesOf(es) /\ es[c].name = n BY <1>4, <1>6 DEF ClassesOf, ObjectsOf
  <2>2. QED BY <1>5, <2>1 DEF NamesClass
<1>8. CASE entities' = es /\ occurrences' = occurrences \cup {x}
  <2> DEFINE fresh == {x}
             adds == {<<x.means, here + 1>>}
  <2>1. Likewise(es, entities') /\ entities' \in Seq(Entity) BY <1>6, <1>8 DEF Likewise
  <2>2. Fresh(fresh, s, here, here') BY <1>3, <1>5 DEF Fresh
  <2>3. Referred(adds, fresh, here') /\ Counting(adds, fresh) /\ After(adds, fresh, here)
    <3>1. x.token # "parameter" BY <1>5
    <3>2. QED BY <1>3, <1>5, <3>1, ReferredOnce
  <2>4. RefsOf(entities') = RefsOf(entities) \cup adds BY <1>5, <1>6, <1>8
  <2>5. \A z \in fresh : NamesClass(es, z) BY <1>7
  <2>6. occurrences' = occurrences \cup fresh BY <1>8
  <2> HIDE DEF fresh, adds
  <2>7. QED BY <1>1, <1>3, <1>4, <2>1, <2>2, <2>3, <2>4, <2>5, <2>6, AskedClass DEF es, c
<1>9. ASSUME NEW p \in {owned_classes'[i] : i \in DOMAIN owned_classes'}, here' = here + 2,
             entities' = add_reference(es, p, here + 2),
             occurrences' = occurrences \cup {x} \cup {Token(here + 2, s, "class", es[p].name, p)}
      PROVE  RInv'
  <2> DEFINE y == Token(here + 2, s, "class", es[p].name, p)
             fresh == {x, y}
             adds == {<<x.means, here + 1>>, <<y.means, here + 2>>}
  <2>1. y.at = here + 2 /\ y.scope = s /\ y.token = "class" /\ y.name = es[p].name /\ y.means = p
    BY DEF Token
  <2> HIDE DEF y
  <2>2. p \in ClassesOf(entities')
    <3>1. Range(owned_classes') = ClassesOf(entities') BY DEF IInv, Ordered, Owned
    <3>2. QED BY <3>1 DEF Range
  <2>3. p \in 1..Len(es)
    <3>1. p \in DOMAIN entities' BY <2>2 DEF ClassesOf
    <3>2. DOMAIN entities' = DOMAIN es BY <1>9 DEF add_reference
    <3>3. QED BY <1>6, <3>1, <3>2
  <2>4. here + 2 \in Position /\ here + 2 \in Nat /\ here + 1 < here + 2 /\ here + 2 <= here + 2
    BY <1>3, <1>9
  <2>5. /\ entities' \in Seq(Entity) /\ Likewise(es, entities')
        /\ RefsOf(entities') = RefsOf(es) \cup {<<p, here + 2>>}
    BY <1>6, <1>9, <2>3, <2>4, ReferenceAdded, RefsReferred
  <2>6. p \in ClassesOf(es)
    <3>1. entities'[p].class = es[p].class BY <2>3, <2>5 DEF Likewise
    <3>2. QED BY <1>6, <2>2, <2>3, <3>1 DEF ClassesOf, ObjectsOf
  <2>7. NamesClass(es, y) BY <2>1, <2>6 DEF NamesClass
  <2>8. Fresh(fresh, s, here, here')
    <3>1. Fresh(fresh, s, here, here + 2) BY <1>3, <1>5, <2>1, <2>4, FreshTwice
    <3>2. QED BY <1>9, <3>1
  <2>9. Referred(adds, fresh, here') /\ Counting(adds, fresh) /\ After(adds, fresh, here)
    <3>1. x.token # "parameter" /\ y.token # "parameter" BY <1>5, <2>1
    <3>2. Referred(adds, fresh, here + 2) /\ Counting(adds, fresh) /\ After(adds, fresh, here)
      BY <1>3, <1>5, <2>1, <2>4, <3>1, ReferredTwice
    <3>3. QED BY <1>9, <3>2
  <2>10. RefsOf(entities') = RefsOf(entities) \cup adds BY <1>5, <1>6, <2>1, <2>5
  <2>11. \A z \in fresh : NamesClass(es, z) BY <1>7, <2>7
  <2>12. occurrences' = occurrences \cup fresh BY <1>9 DEF y
  <2> HIDE DEF fresh, adds
  <2>13. QED BY <1>1, <1>3, <1>4, <2>5, <2>8, <2>9, <2>10, <2>11, <2>12, AskedClass DEF es, c
<1>10. QED BY <1>1, <1>8, <1>9 DEF enterClassDefinition, es, e, c, x

LEMMA InitAsked ==
    ASSUME Init PROVE RInv
<1>1. /\ Len(scopes) = 1 /\ scopes[1].low = 0 /\ scopes[1].local_objects = <<>>
      /\ stack = <<1>> /\ entities = <<>> /\ owned_classes = <<>>
      /\ entity_map = {} /\ occurrences = {} /\ here = 0
  BY DEF Init, Program
<1>2. 1..1 = {1} /\ 1..0 = {} OBVIOUS
<1>3. Range(stack) = {1} BY <1>1 DEF Range
<1>4. Spans(scopes, stack, entity_map, occurrences, here)
  <2>1. \A s, t \in 1..Len(scopes) : ~(t < s) BY <1>1, <1>2
  <2>2. \A s \in 1..Len(scopes) : scopes[s].low <= here /\ s \in Range(stack)
    BY <1>1, <1>2, <1>3
  <2>3. QED BY <1>1, <2>1, <2>2 DEF Spans
<1>5. ObjectsOf(entities) = {} /\ ClassesOf(entities) = {} BY <1>1 DEF ObjectsOf, ClassesOf
<1>6. Noted(owned_classes, scopes, entities, occurrences)
  BY <1>1, <1>5 DEF Noted, NamedOnce
<1>7. Looked(scopes, entities, occurrences)
  <2>1. \A s \in 1..Len(scopes) : Range(scopes[s].local_objects) = {}
    <3>1. Range(scopes[1].local_objects) = {} BY <1>1 DEF Range
    <3>2. QED BY <1>1, <1>2, <3>1
  <2>2. QED BY <1>1, <2>1 DEF Looked, Owning
<1>8. RefsOf(entities) = {}
  <2>1. 1..Len(entities) = {} BY <1>1, <1>2
  <2>2. QED BY <2>1 DEF RefsOf
<1>9. Referred(RefsOf(entities), occurrences, here) BY <1>1, <1>8 DEF Referred
<1>10. QED BY <1>4, <1>6, <1>7, <1>9 DEF RInv

LEMMA NextAsked ==
    ASSUME IInv, IInv', RInv, [Next]_vars PROVE RInv'
<1>1. CASE Next
  <2>1. ASSUME NEW kind \in {"function", "block", "supershell"}, Open(kind) PROVE RInv'
    BY <2>1, AskedOpen
  <2>2. CASE enterBashFunction \/ enterBlock \/ enterSupershell
    BY <2>1, <2>2 DEF enterBashFunction, enterBlock, enterSupershell
  <2>3. CASE \E n \in Names : enterClassDefinition(n) BY <2>3, AskedClassDefinition
  <2>4. CASE enterMethodDefinition BY <2>4, AskedMethodDefinition
  <2>5. CASE exitSupershell
    <3> DEFINE marks == mark_entity(Top, here + 1)
               after == adopt(scopes[Top].parent, Top)
    <3>1. "supershell" \in Kinds \ {"program"} BY DEF Kinds
    <3>2. Leave("supershell", marks, after) BY <2>5 DEF exitSupershell
    <3>3. /\ marks = IF "supershell" = "block" THEN {} ELSE mark_entity(Top, here + 1)
          /\ after = IF "supershell" = "supershell" THEN adopt(scopes[Top].parent, Top) ELSE scopes
      OBVIOUS
    <3> HIDE DEF marks, after
    <3>4. QED BY <3>1, <3>2, <3>3, AskedLeave
  <2>6. ASSUME NEW kind \in {"function", "class", "method"},
               Leave(kind, mark_entity(Top, here + 1), scopes)
        PROVE  RInv'
    <3> DEFINE marks == mark_entity(Top, here + 1)
               after == scopes
    <3>1. kind \in Kinds \ {"program"} /\ kind # "supershell" /\ kind # "block" BY DEF Kinds
    <3>2. Leave(kind, marks, after) BY <2>6
    <3>3. /\ marks = IF kind = "block" THEN {} ELSE mark_entity(Top, here + 1)
          /\ after = IF kind = "supershell" THEN adopt(scopes[Top].parent, Top) ELSE scopes
      BY <3>1
    <3> HIDE DEF marks, after
    <3>4. QED BY <3>1, <3>2, <3>3, AskedLeave
  <2>7. CASE exitBashFunction \/ exitClassDefinition \/ exitMethodDefinition
    BY <2>6, <2>7 DEF exitBashFunction, exitClassDefinition, exitMethodDefinition
  <2>8. CASE exitBlock
    <3> DEFINE marks == {}
               after == scopes
    <3>1. "block" \in Kinds \ {"program"} BY DEF Kinds
    <3>2. Leave("block", marks, after) BY <2>8 DEF exitBlock
    <3>3. /\ marks = IF "block" = "block" THEN {} ELSE mark_entity(Top, here + 1)
          /\ after = IF "block" = "supershell" THEN adopt(scopes[Top].parent, Top) ELSE scopes
      OBVIOUS
    <3> HIDE DEF marks, after
    <3>4. QED BY <3>1, <3>2, <3>3, AskedLeave
  <2>9. CASE \E c, n \in Names : ObjectInstantiation(c, n) BY <2>9, AskedObjectInstantiation
  <2>10. CASE \E n \in Names : ObjectReference(n) BY <2>10, AskedObjectReference
  <2>11. CASE \E c \in Names : NewStatement(c) BY <2>11, AskedNewStatement
  <2>12. QED BY <1>1, <2>2, <2>3, <2>4, <2>5, <2>7, <2>8, <2>9, <2>10, <2>11 DEF Next
<1>2. CASE UNCHANGED vars
  <2>1. UNCHANGED <<scopes, stack, entities, owned_classes, entity_map, occurrences, here>>
    BY <1>2 DEF vars
  <2>2. QED BY <2>1 DEF RInv
<1>3. QED BY <1>1, <1>2

LEMMA AskedInvariant == Spec => [](IInv /\ RInv)
<1>1. Init => IInv /\ RInv BY InitInv, InitAsked
<1>2. IInv /\ RInv /\ [Next]_vars => (IInv /\ RInv)' BY NextInv, NextAsked
<1>3. QED BY <1>1, <1>2, PTL DEF Spec

--------------------------------------------------------------------------------
(* What the server answers when the program has been read. *)

\* The innermost mark around a token is the one of the scope it was read in.
LEMMA ActiveScope ==
    ASSUME IInv, RInv, stack = <<Program>>, NEW o \in occurrences,
           scopes[o.scope].kind # "block"
    PROVE  get_active_entity(o.at) = o.scope
<1> DEFINE at == o.at
           s == o.scope
           over == {m \in entity_map : m.low <= at /\ at <= m.high}
           found == {m \in over : \A q \in over : q.low <= m.low}
<1>1. get_active_entity(at) = IF found = {} THEN Program ELSE (CHOOSE m \in found : TRUE).entity
  BY DEF get_active_entity, find_innermost_overlap
<1>2. Range(stack) = {1} BY DEF Range, Program
<1>3. Spans(scopes, stack, entity_map, occurrences, here)
      /\ Numbered(scopes, entity_map, occurrences, here)
  BY KnownTokens DEF RInv
<1>4. s \in 1..Len(scopes) /\ s \in Nat /\ at \in Nat /\ scopes[s].low <= at /\ scopes[s].low \in Nat
  BY <1>3 DEF Spans, Numbered
<1>5. ASSUME NEW m \in over
      PROVE  /\ m.entity \in 1..Len(scopes) /\ m.entity \in Nat /\ m.low = scopes[m.entity].low
             /\ m.low \in Nat /\ m.entity # 1 /\ m.entity <= s
             /\ m.entity < s => m.low < scopes[s].low
  <2>1. m \in entity_map /\ m.low <= at /\ at <= m.high OBVIOUS
  <2>2. m.entity \in 1..Len(scopes) /\ m.entity \in Nat /\ m.low \in Nat
    BY <1>3, <2>1 DEF Numbered
  <2>3. m.low = scopes[m.entity].low /\ m.entity # 1 BY <1>2, <1>3, <2>1 DEF Spans
  <2>4. m.entity <= s BY <1>3, <2>1 DEF Spans
  <2>5. m.entity < s => scopes[m.entity].low < scopes[s].low BY <1>3, <1>4, <2>2 DEF Spans
  <2>6. QED BY <2>2, <2>3, <2>4, <2>5
<1>6. CASE s = 1
  <2>1. over = {} BY <1>5, <1>6
  <2>2. found = {} BY <2>1
  <2>3. QED BY <1>1, <1>6, <2>2 DEF Program
<1>7. CASE s # 1
  <2>1. s \notin Range(stack) /\ scopes[s].kind # "block" BY <1>2, <1>7
  <2>2. PICK m \in entity_map : m.entity = s /\ \A x \in occurrences : x.scope = s => x.at <= m.high
    BY <1>3, <1>4, <2>1 DEF Spans
  <2>3. m.low = scopes[s].low BY <1>3, <2>2 DEF Spans
  <2>4. m \in over BY <1>4, <2>2, <2>3
  <2> HIDE DEF over, s
  <2>5. \A q \in over : q.low <= m.low BY <1>4, <1>5, <2>3
  <2>6. m \in found BY <2>4, <2>5
  <2>7. \A r \in found : r.entity = s
    <3> SUFFICES ASSUME NEW r \in found PROVE r.entity = s OBVIOUS
    <3>1. r \in over /\ m.low <= r.low BY <2>4
    <3>2. r.entity <= s /\ r.entity \in Nat /\ r.low \in Nat
          /\ (r.entity < s => r.low < scopes[s].low)
      BY <1>5, <3>1
    <3>3. QED BY <1>4, <2>3, <3>1, <3>2
  <2> HIDE DEF found
  <2>8. QED BY <1>1, <2>6, <2>7 DEF s
<1>8. QED BY <1>6, <1>7

\* Asked what a token means, the server answers what the compiler took it for.
LEMMA ResolvedAsRead ==
    ASSUME IInv, RInv, stack = <<Program>>, NEW o \in occurrences,
           scopes[o.scope].kind # "block", o.token # "parameter"
    PROVE  resolve_entity_at(o) = {o.means}
<1>1. get_active_entity(o.at) = o.scope BY ActiveScope
<1>2. o.token \in {"object", "type", "class"}
  <2>1. o.token \in Tokens BY DEF IInv, Marks
  <2>2. QED BY <2>1 DEF Tokens
<1>3. NotedAs(owned_classes, scopes, entities, o) /\ NamedOnce(entities)
      /\ (o.token = "object" => LookedUp(scopes, entities, o))
  BY DEF RInv, Noted, Looked
<1>4. o.scope \in 1..Len(scopes) BY KnownTokens DEF Placeable
<1>5. CASE o.token = "object"
  <2>1. resolve_entity_at(o) = get_object(o.scope, o.name)
    BY <1>1, <1>5 DEF resolve_entity_at
  <2>2. PICK f : IsFrom(f, scopes, entities, o.name) /\ get_object(o.scope, o.name) = f[o.scope][SIZE_MAX]
    BY Known, ObjectLookup
  <2>3. f[o.scope][SIZE_MAX] = {o.means} BY <1>3, <1>5, <2>2 DEF LookedUp
  <2>4. QED BY <2>1, <2>2, <2>3
<1>6. ASSUME o.token # "object"
      PROVE  /\ o.means \in {c \in ClassesOf(entities) : entities[c].name = o.name}
             /\ {c \in ClassesOf(entities) : entities[c].name = o.name} \subseteq {o.means}
  BY <1>2, <1>3, <1>6 DEF NotedAs, NamedOnce
<1>7. CASE o.token = "type"
  <2>1. resolve_entity_at(o) = get_class(o.scope, o.name)
    BY <1>1, <1>7 DEF resolve_entity_at
  <2>2. get_class(o.scope, o.name) \subseteq {c \in ClassesOf(entities) : entities[c].name = o.name}
    BY <1>4, ClassesSeen
  <2>3. PICK k \in 1..Len(owned_classes) :
           /\ owned_classes[k] = o.means
           /\ o.scope = Program \/ k - 1 <= scopes[o.scope].program_visible_class_count_at_creation
    BY <1>3, <1>7 DEF NotedAs
  <2> DEFINE visible == IF o.scope = Program THEN SIZE_MAX
                        ELSE scopes[o.scope].program_visible_class_count_at_creation
  <2>4. k - 1 <= visible
    <3>1. k - 1 <= MaxHere BY Known
    <3>2. QED BY <2>3, <3>1 DEF SIZE_MAX
  <2>5. DOMAIN owned_classes = 1..Len(owned_classes) BY Known, OwnedFacts
  <2>6. entities[owned_classes[k]].name = o.name BY <1>6, <1>7, <2>3
  <2>7. get_class(o.scope, o.name) = find(owned_classes, o.name, visible) BY DEF get_class
  <2> HIDE DEF visible
  <2>8. o.means \in get_class(o.scope, o.name)
    BY <2>3, <2>4, <2>5, <2>6, <2>7 DEF find
  <2>9. QED BY <1>6, <1>7, <2>1, <2>2, <2>8
<1>8. CASE o.token = "class"
  <2>1. resolve_entity_at(o) = get_class(Program, o.name) BY <1>8 DEF resolve_entity_at
  <2>2. Program \in 1..Len(scopes) BY Known, TreeFacts DEF Program
  <2>3. get_class(Program, o.name) = {c \in ClassesOf(entities) : entities[c].name = o.name}
    BY <2>2, ClassesSeen
  <2>4. QED BY <1>6, <1>8, <2>1, <2>3
<1>9. QED BY <1>2, <1>5, <1>7, <1>8

\* What the tokens of an entity and the references to it have in common.
LEMMA ReferencesRead ==
    ASSUME IInv, RInv, NEW o \in occurrences, resolve_entity_at(o) = {o.means},
           NEW x \in occurrences
    PROVE  x.at \in handleRename(o) <=> x.means = o.means /\ x.token # "parameter"
<1>1. handleRename(o) = Range(entities[o.means].references)
  BY DEF handleRename
<1>2. o.means \in 1..Len(entities) BY KnownTokens DEF Placeable
<1>3. x.at \in handleRename(o) <=> <<o.means, x.at>> \in RefsOf(entities)
  BY <1>1, <1>2, Known, RefsInSight
<1>4. Referred(RefsOf(entities), occurrences, here) BY DEF RInv
<1> DEFINE p == <<o.means, x.at>>
<1>5. p[1] = o.means /\ p[2] = x.at OBVIOUS
<1>6. x.means = o.means => p = <<x.means, x.at>> OBVIOUS
<1>7. x.at \in handleRename(o) <=> p \in RefsOf(entities) BY <1>3
<1> HIDE DEF p
<1>8. p \in RefsOf(entities) => x.means = o.means /\ x.token # "parameter"
  BY <1>4, <1>5 DEF Referred
<1>9. x.token # "parameter" => <<x.means, x.at>> \in RefsOf(entities) BY <1>4 DEF Referred
<1>10. QED BY <1>6, <1>7, <1>8, <1>9

LEMMA InvRenames ==
    ASSUME IInv, RInv, "block" \notin AskedScopes, AskedTokens = Tokens \ {"parameter"}
    PROVE  RenamesWhatMeansTheSame
<1> SUFFICES ASSUME stack = <<Program>>, NEW o \in Asked
             PROVE  /\ resolve_entity_at(o) = {o.means}
                    /\ {x.at : x \in occurrences} \cap handleRename(o) =
                         {x.at : x \in {y \in occurrences :
                                          y.means = o.means /\ y.token \in AskedTokens}}
  BY DEF RenamesWhatMeansTheSame
<1>1. o \in occurrences /\ scopes[o.scope].kind # "block" /\ o.token # "parameter"
  BY DEF Asked
<1>2. resolve_entity_at(o) = {o.means} BY <1>1, ResolvedAsRead
<1>3. \A x \in occurrences : x.token # "parameter" <=> x.token \in AskedTokens
  <2>1. \A x \in occurrences : x.token \in Tokens BY DEF IInv, Marks
  <2>2. QED BY <2>1
<1>4. \A x \in occurrences : x.at \in handleRename(o) <=> x.means = o.means /\ x.token # "parameter"
  BY <1>1, <1>2, ReferencesRead
<1>5. \A x \in occurrences :
         x.at \in handleRename(o) <=> x.means = o.means /\ x.token \in AskedTokens
  BY <1>3, <1>4
<1> DEFINE edited == handleRename(o)
<1>6. \A x \in occurrences : x.at \in edited <=> x.means = o.means /\ x.token \in AskedTokens
  BY <1>5
<1> HIDE DEF edited
<1>7. {x.at : x \in occurrences} \cap edited =
        {x.at : x \in {y \in occurrences : y.means = o.means /\ y.token \in AskedTokens}}
  BY <1>6
<1>8. QED BY <1>2, <1>7 DEF edited

\* As long as the names in blocks and the names of parameters in signatures are left out,
\* which have no scope of their own for the server, a rename requested anywhere in the
\* finished program edits exactly the tokens that the compiler took for the same entity,
\* wherever classes are defined and whatever was added after the token was read.
THEOREM RenamesAll ==
    ASSUME "block" \notin AskedScopes, AskedTokens = Tokens \ {"parameter"}
    PROVE  Spec => []RenamesWhatMeansTheSame
<1>1. IInv /\ RInv => RenamesWhatMeansTheSame BY InvRenames
<1>2. QED BY <1>1, AskedInvariant, PTL

--------------------------------------------------------------------------------
(* Where a definition is. *)

\* The references of an entity begin with the one furthest to the left.
Leftmost(list) == Len(list) >= 1 /\ \A i \in 1..Len(list) : list[1] <= list[i]

Begun(es) == \A e \in 1..Len(es) : Leftmost(es[e].references)

LEMMA BegunAppended ==
    ASSUME NEW es \in Seq(Entity), Begun(es), NEW x \in Entity, NEW at \in Nat,
           x.references = <<at>>
    PROVE  Begun(Append(es, x))
<1>1. /\ Len(Append(es, x)) = Len(es) + 1 /\ Append(es, x)[Len(es) + 1] = x
      /\ \A e \in 1..Len(es) : Append(es, x)[e] = es[e]
  BY AppendFacts
<1>2. Leftmost(x.references) BY DEF Leftmost
<1>3. Len(es) \in Nat BY LenProperties
<1>4. \A e \in 1..(Len(es) + 1) : e \in 1..Len(es) \/ e = Len(es) + 1 BY <1>3
<1>5. QED BY <1>1, <1>2, <1>4 DEF Begun

LEMMA BegunReferred ==
    ASSUME NEW es \in Seq(Entity), Begun(es), NEW e \in 1..Len(es), NEW at \in Position,
           \A p \in RefsOf(es) : p[1] = e => p[2] <= at
    PROVE  Begun(add_reference(es, e, at))
<1> DEFINE old == es[e].references
           list == Append(old, at)
           x == [es[e] EXCEPT !.references = list]
<1>1. es[e] \in Entity /\ Position \subseteq Nat
  BY ElementOfSeq, SymbolsAssumption DEF Position
<1>2. old \in Seq(Position) /\ old \in Seq(Nat) /\ at \in Nat
  <2>1. old \in Seq(Position) BY <1>1 DEF Entity
  <2>2. QED BY <1>1, <2>1, SeqMonotonic
<1>3. Leftmost(list)
  <2>1. Leftmost(old) BY DEF Begun
  <2>2. Len(old) \in Nat /\ DOMAIN old = 1..Len(old) BY <1>2, LenProperties
  <2>3. old[1] <= at
    <3>1. old[1] \in Range(old) BY <2>1, <2>2 DEF Range, Leftmost
    <3>2. <<e, old[1]>> \in RefsOf(es) BY <3>1, RefsInSight
    <3>3. QED BY <3>2
  <2> HIDE DEF old
  <2>4. /\ Len(list) = Len(old) + 1 /\ list[Len(old) + 1] = at
        /\ \A i \in 1..Len(old) : list[i] = old[i]
    BY <1>2, AppendFacts
  <2> HIDE DEF list
  <2>5. \A i \in 1..(Len(old) + 1) : i \in 1..Len(old) \/ i = Len(old) + 1 BY <2>2
  <2>6. 1 \in 1..Len(old) /\ Len(old) + 1 >= 1 BY <2>1, <2>2 DEF Leftmost
  <2>7. \A i \in 1..Len(old) : old[1] <= old[i] BY <2>1 DEF Leftmost
  <2>8. \A i \in 1..(Len(old) + 1) : list[1] <= list[i] BY <2>3, <2>4, <2>5, <2>6, <2>7
  <2>9. QED BY <2>4, <2>6, <2>8 DEF Leftmost
<1>4. list \in Seq(Position) BY <1>2, AppendFacts
<1> HIDE DEF list
<1>5. x \in Entity /\ x.references = list BY <1>1, <1>4 DEF Entity
<1>6. add_reference(es, e, at) = [es EXCEPT ![e] = x] BY DEF add_reference, list
<1> HIDE DEF x
<1>7. /\ Len(add_reference(es, e, at)) = Len(es)
      /\ \A i \in 1..Len(es) : add_reference(es, e, at)[i] = IF i = e THEN x ELSE es[i]
  BY <1>5, <1>6, ExceptSeq
<1>8. QED BY <1>3, <1>5, <1>7 DEF Begun

\* No reference is further right than the last token.
LEMMA Behind ==
    ASSUME IInv, RInv, NEW at, at \in {here + 1, here + 2}
    PROVE  \A p \in RefsOf(entities) : p[2] <= at /\ p[2] \in Nat
<1>1. Referred(RefsOf(entities), occurrences, here) BY DEF RInv
<1>2. ASSUME NEW p \in RefsOf(entities) PROVE p[2] <= at /\ p[2] \in Nat
  <2>1. p[2] \in Nat BY KnownTokens DEF Counting
  <2>2. p[2] <= here BY <1>1 DEF Referred
  <2>3. here \in Nat BY Known
  <2>4. QED BY <2>1, <2>2, <2>3
<1>3. QED BY <1>2

\* A reference to what was there.
LEMMA BegunReference ==
    ASSUME IInv, RInv, Begun(entities), here + 1 <= MaxHere, NEW e \in 1..Len(entities)
    PROVE  /\ add_reference(entities, e, here + 1) \in Seq(Entity)
           /\ Begun(add_reference(entities, e, here + 1))
<1>1. here + 1 \in Position BY Known DEF Position
<1>2. \A p \in RefsOf(entities) : p[1] = e => p[2] <= here + 1 BY Behind
<1>3. QED BY <1>1, <1>2, Known, BegunReferred, ReferenceAdded

LEMMA NextBegun ==
    ASSUME IInv, IInv', RInv, Begun(entities), [Next]_vars PROVE Begun(entities')
<1>1. here \in Nat /\ here' \in Nat /\ here' <= MaxHere
  BY Known DEF IInv, Placed, Position
<1>2. CASE UNCHANGED entities BY <1>2
<1>3. ASSUME NEW n \in Names, enterClassDefinition(n) PROVE Begun(entities')
  <2> DEFINE s == Len(scopes) + 1
             x == Defined(n, 0, s, here + 1)
             es == Append(entities, x)
  <2>1. here' = here + 1 \/ here' = here + 2 BY <1>3 DEF enterClassDefinition
  <2>2. here + 1 \in Nat /\ here + 1 \in Position
    <3>1. MaxHere \in Nat BY Known
    <3>2. here + 1 \in 0..MaxHere BY <1>1, <2>1, <3>1
    <3>3. QED BY <3>2 DEF Position
  <2>3. x \in Entity /\ x.references = <<here + 1>>
    <3>1. <<here + 1>> \in Seq(Position) BY <2>2
    <3>2. s \in Nat BY Known
    <3>3. QED BY <3>1, <3>2 DEF Defined, Entity
  <2> HIDE DEF x
  <2>4. /\ es \in Seq(Entity) /\ Begun(es) /\ Len(es) = Len(entities) + 1
        /\ RefsOf(es) = RefsOf(entities) \cup {<<Len(entities) + 1, here + 1>>}
    <3>1. Begun(es) BY <2>2, <2>3, Known, BegunAppended
    <3>2. es \in Seq(Entity) /\ Len(es) = Len(entities) + 1 BY <2>3, Known, MoreEntities
    <3>3. QED BY <2>2, <2>3, <3>1, <3>2, Known, RefsAppended
  <2> HIDE DEF es
  <2>5. CASE entities' = es BY <2>4, <2>5
  <2>6. ASSUME NEW p \in {owned_classes'[i] : i \in DOMAIN owned_classes'}, here' = here + 2,
               entities' = add_reference(es, p, here + 2)
        PROVE  Begun(entities')
    <3>1. p \in 1..Len(es)
      <4>1. Range(owned_classes') = ClassesOf(entities') BY DEF IInv, Ordered, Owned
      <4>2. p \in DOMAIN entities' BY <4>1 DEF Range, ClassesOf
      <4>3. DOMAIN entities' = DOMAIN es BY <2>6 DEF add_reference
      <4>4. QED BY <2>4, <4>2, <4>3, LenProperties
    <3>2. here + 2 \in Position BY <1>1, <2>6 DEF Position
    <3>3. \A r \in RefsOf(entities) : r[2] <= here + 2 BY Behind
    <3>4. \A r \in RefsOf(es) : r[2] <= here + 2
      <4> DEFINE q == <<Len(entities) + 1, here + 1>>
      <4>1. q[2] <= here + 2 BY <1>1
      <4> HIDE DEF q
      <4>2. QED BY <2>4, <3>3, <4>1 DEF q
    <3>5. QED BY <2>4, <2>6, <3>1, <3>2, <3>4, BegunReferred
  <2>7. QED BY <1>3, <2>5, <2>6 DEF enterClassDefinition, es, x
<1>4. ASSUME enterMethodDefinition PROVE Begun(entities')
  <2> DEFINE s == Len(scopes) + 1
             o == Len(entities) + 1
  <2>1. ASSUME NEW n \in Names, NEW c \in {owned_classes[i] : i \in DOMAIN owned_classes},
               here' = here + 4,
               entities' = add_reference(Append(entities, Defined(n, c, s, here + 4)), c, here + 2)
        PROVE  Begun(entities')
    <3> DEFINE x == Defined(n, c, s, here + 4)
               es == Append(entities, x)
    <3>1. c \in 1..Len(entities) /\ c \in Nat
      <4>1. Range(owned_classes) = ClassesOf(entities) BY Known DEF Owned
      <4>2. QED BY <4>1, Known DEF Range, ClassesOf
    <3>2. here + 4 \in Nat /\ here + 4 \in 0..MaxHere BY <1>1, <2>1
    <3>3. here + 2 \in Position /\ here + 4 \in Position
      <4>1. MaxHere \in Nat BY Known
      <4>2. QED BY <1>1, <3>2, <4>1 DEF Position
    <3>4. x \in Entity /\ x.references = <<here + 4>>
      <4>1. <<here + 4>> \in Seq(Position) BY <3>3
      <4>2. s \in Nat BY Known
      <4>3. QED BY <3>1, <4>1, <4>2 DEF Defined, Entity
    <3> HIDE DEF x
    <3>5. /\ es \in Seq(Entity) /\ Begun(es) /\ Len(es) = o
          /\ RefsOf(es) = RefsOf(entities) \cup {<<o, here + 4>>}
      <4>1. Begun(es) BY <3>2, <3>4, Known, BegunAppended
      <4>2. es \in Seq(Entity) /\ Len(es) = Len(entities) + 1 BY <3>4, Known, MoreEntities
      <4>3. QED BY <3>2, <3>4, <4>1, <4>2, Known, RefsAppended
    <3>6. c \in 1..Len(es) /\ c # o BY <3>1, <3>5, Known
    <3>7. \A r \in RefsOf(entities) : r[2] <= here + 2 BY Behind
    <3> HIDE DEF es
    <3>8. \A r \in RefsOf(es) : r[1] = c => r[2] <= here + 2
      <4> DEFINE q == <<o, here + 4>>
      <4>1. q[1] # c BY <3>6
      <4> HIDE DEF q
      <4>2. QED BY <3>5, <3>7, <4>1 DEF q
    <3>9. entities' = add_reference(es, c, here + 2) BY <2>1 DEF es, x
    <3>10. QED BY <3>3, <3>5, <3>6, <3>8, <3>9, BegunReferred
  <2>2. QED BY <1>2, <1>4, <2>1 DEF enterMethodDefinition
<1>5. ASSUME NEW c \in Names, NEW n \in Names, ObjectInstantiation(c, n) PROVE Begun(entities')
  <2> DEFINE free == get_class(Top, n) = {} /\ get_object(Top, n) = {}
  <2>1. PICK k \in get_class(Top, c) :
           entities' = LET es == add_reference(entities, k, here + 1)
                       IN  IF free THEN Append(es, Defined(n, k, Top, here + 2)) ELSE es
    BY <1>5 DEF ObjectInstantiation
  <2> DEFINE es == add_reference(entities, k, here + 1)
             x == Defined(n, k, Top, here + 2)
  <2>2. here' = here + 2 BY <1>5 DEF ObjectInstantiation
  <2>3. here + 1 <= MaxHere /\ here + 2 \in Nat /\ here + 2 \in Position
    <3>1. MaxHere \in Nat BY Known
    <3>2. QED BY <1>1, <2>2, <3>1 DEF Position
  <2>4. k \in 1..Len(entities) /\ k \in Nat BY FoundEntities
  <2>5. es \in Seq(Entity) /\ Begun(es) BY <2>3, <2>4, BegunReference
  <2>6. x \in Entity /\ x.references = <<here + 2>>
    <3>1. <<here + 2>> \in Seq(Position) BY <2>3
    <3>2. Top \in Nat BY Known
    <3>3. QED BY <2>4, <3>1, <3>2 DEF Defined, Entity
  <2> HIDE DEF es, x, free
  <2>7. Begun(Append(es, x)) BY <2>3, <2>5, <2>6, BegunAppended
  <2>8. QED BY <2>1, <2>5, <2>7 DEF es, x
<1>6. ASSUME NEW n \in Names, ObjectReference(n) PROVE Begun(entities')
  <2>1. PICK o \in get_object(Top, n) : entities' = add_reference(entities, o, here + 1)
    BY <1>6 DEF ObjectReference
  <2>2. here + 1 <= MaxHere BY <1>1, <1>6 DEF ObjectReference
  <2>3. o \in 1..Len(entities) BY FoundEntities
  <2>4. QED BY <2>1, <2>2, <2>3, BegunReference
<1>7. ASSUME NEW c \in Names, NewStatement(c) PROVE Begun(entities')
  <2>1. PICK k \in get_class(Top, c) : entities' = add_reference(entities, k, here + 1)
    BY <1>7 DEF NewStatement
  <2>2. here + 1 <= MaxHere BY <1>1, <1>7 DEF NewStatement
  <2>3. k \in 1..Len(entities) BY FoundEntities
  <2>4. QED BY <2>1, <2>2, <2>3, BegunReference
<1>8. CASE enterBashFunction \/ enterBlock \/ enterSupershell
  BY <1>2, <1>8 DEF enterBashFunction, enterBlock, enterSupershell, Open
<1>9. CASE exitBashFunction \/ exitBlock \/ exitSupershell \/ exitClassDefinition
           \/ exitMethodDefinition
  BY <1>2, <1>9
  DEF exitBashFunction, exitBlock, exitSupershell, exitClassDefinition, exitMethodDefinition, Leave
<1>10. CASE UNCHANGED vars BY <1>2, <1>10 DEF vars
<1>11. QED BY <1>3, <1>4, <1>5, <1>6, <1>7, <1>8, <1>9, <1>10 DEF Next

LEMMA BegunInvariant == Spec => [](IInv /\ RInv /\ Begun(entities))
<1>1. Init => Begun(entities)
  <2> SUFFICES ASSUME Init PROVE Begun(entities) OBVIOUS
  <2>1. Len(entities) = 0 BY DEF Init
  <2>2. 1..0 = {} OBVIOUS
  <2>3. QED BY <2>1, <2>2 DEF Begun
<1>2. Init => IInv /\ RInv /\ Begun(entities) BY <1>1, InitInv, InitAsked
<1>3. IInv /\ RInv /\ Begun(entities) /\ [Next]_vars => (IInv /\ RInv /\ Begun(entities))'
  BY NextInv, NextAsked, NextBegun
<1>4. QED BY <1>2, <1>3, PTL DEF Spec

LEMMA InvDefinedBefore ==
    ASSUME IInv, RInv, Begun(entities), "block" \notin AskedScopes, "parameter" \notin AskedTokens
    PROVE  DefinedBefore
<1> SUFFICES ASSUME stack = <<Program>>, NEW o \in Asked, NEW at \in handleDefinition(o)
             PROVE  at <= o.at
  BY DEF DefinedBefore
<1>1. o \in occurrences /\ scopes[o.scope].kind # "block" /\ o.token # "parameter"
  BY DEF Asked
<1>2. resolve_entity_at(o) = {o.means} BY <1>1, ResolvedAsRead
<1>3. at = Head(entities[o.means].references) BY <1>2 DEF handleDefinition
<1>4. o.means \in 1..Len(entities) BY <1>1, KnownTokens DEF Placeable
<1> DEFINE list == entities[o.means].references
<1>5. list \in Seq(Position) /\ DOMAIN list = 1..Len(list)
  <2>1. entities[o.means] \in Entity BY <1>4, Known, ElementOfSeq
  <2>2. QED BY <2>1, LenProperties DEF Entity
<1>6. o.at \in Range(list)
  <2>1. handleRename(o) = Range(list) BY <1>2 DEF handleRename
  <2>2. QED BY <1>1, <1>2, <2>1, ReferencesRead
<1>7. Leftmost(list) BY <1>4 DEF Begun
<1> HIDE DEF list
<1>8. Head(list) = list[1] BY <1>5, <1>7 DEF Leftmost
<1>9. \E i \in 1..Len(list) : o.at = list[i] BY <1>5, <1>6 DEF Range
<1>10. QED BY <1>3, <1>7, <1>8, <1>9 DEF Leftmost, list

\* Outside of blocks, what the server gives as the definition of a name is never further
\* down than the name: entities are referred to from left to right, beginning with their
\* definition, and what is added to a scope later is not accessible from further left.
THEOREM DefinedLeft ==
    ASSUME "block" \notin AskedScopes, "parameter" \notin AskedTokens
    PROVE  Spec => []DefinedBefore
<1>1. IInv /\ RInv /\ Begun(entities) => DefinedBefore BY InvDefinedBefore
<1>2. QED BY <1>1, BegunInvariant, PTL
====
