----------------------------- MODULE ClassesProofs -----------------------------
(***************************************************************************)
(* However a program declares its classes, the compiler's shared methods   *)
(* and members mean what the source says.                                  *)
(*                                                                         *)
(* The invariant speaks of a function M that gives every class and name    *)
(* its meaning; it is Meanings, but a step has only to say where it        *)
(* changes.                                                                *)
(***************************************************************************)
EXTENDS Classes, SequenceTheorems, FiniteSetTheorems, WellFoundedInduction, TLAPS

--------------------------------------------------------------------------------
(* The invariant. *)

ClassId == ClassNames \cup {NoClass}

MemberType == [name : MemberNames, scope : ScopeType]

DeclarationType == [kind : {"method", "data"}, scope : Scopes, virtual : BOOLEAN]

MeaningType == [in : ClassId, kind : {"none", "method", "data"}, scope : Scopes,
                virtual : BOOLEAN, levels : Seq(ClassNames)]

ClassType(heap, dat) ==
    [name : ClassNames, methods : SUBSET DOMAIN heap, members : SUBSET DOMAIN dat,
     custom : BOOLEAN, parents : Seq(ClassNames)]

\* What the properties say of the variables, said of their values.
UpOf(ext, c) == IF ext[c] = c THEN NoClass ELSE ext[c]

DeclaresIn(dec, tab, c, n) ==
    <<c, n>> \in DOMAIN dec \/ n = "toPrimitive" \/ (n \in SystemMethods /\ c \in DOMAIN tab)

DeclarationIn(dec, c, n) ==
    IF n \in SpecialMethods
    THEN [kind |-> "method", scope |-> "public", virtual |-> n \notin {"__constructor", "__new"}]
    ELSE dec[<<c, n>>]

AboveIn(M, ext, c, n) == IF UpOf(ext, c) = NoClass THEN Nothing ELSE M[UpOf(ext, c)][n]

\* What a declaration of c makes of a name that means `above` without it.
Declared(c, own, above) ==
    [in |-> c, kind |-> own.kind, scope |-> own.scope,
     virtual |-> IF above.in = NoClass THEN own.virtual ELSE above.virtual,
     levels |-> <<c>> \o above.levels]

MeaningIn(M, ext, dec, tab, c, n) ==
    IF ~DeclaresIn(dec, tab, c, n) THEN AboveIn(M, ext, c, n)
    ELSE Declared(c, DeclarationIn(dec, c, n), AboveIn(M, ext, c, n))

IsMeaning(M, ext, dec, tab) ==
    M = [c \in DOMAIN ext |-> [n \in Names |-> MeaningIn(M, ext, dec, tab, c, n)]]

Typed(heap, dat, cls, emi, cal, dec) ==
    /\ heap \in Seq(MethodType)
    /\ dat \in Seq(MemberType)
    /\ cls \in Seq(ClassType(heap, dat))
    /\ emi \subseteq [of : ClassNames, name : Names, from : DOMAIN heap]
    /\ \A k \in DOMAIN cal : cal[k] \in ClassId
    /\ \A k \in DOMAIN dec : dec[k] \in DeclarationType

\* A class has a name of its own, and a parent that was prepared before it.
Tree(cls, ext) ==
    /\ \A i, k \in DOMAIN cls : cls[i].name = cls[k].name => i = k
    /\ DOMAIN ext = {cls[i].name : i \in DOMAIN cls}
    /\ \A i \in DOMAIN cls :
          /\ GetParent(cls[i]) = ext[cls[i].name]
          /\ \/ UpOf(ext, cls[i].name) = NoClass
             \/ \E k \in 1..(i - 1) : cls[k].name = UpOf(ext, cls[i].name)

\* Only classes that are finished, and the one that is being defined, declare anything.
Progress(cls, cur, tab, dec, ext) ==
    /\ cur \in {0, Len(cls)}
    /\ DOMAIN tab \subseteq DOMAIN ext
    /\ cur # 0 => cls[cur].name \notin DOMAIN tab
    /\ \A k \in DOMAIN dec :
          \E c \in ClassNames, n \in Names \ SystemMethods :
             /\ k = <<c, n>>
             /\ c \in DOMAIN tab \/ (cur # 0 /\ c = cls[cur].name)

\* The class that defines a method.
Origin(m) == IF m.owner = NoClass THEN m.last ELSE m.owner

\* A method object keeps what its class said of it.
ObjectOf(M, m) ==
    LET o == Origin(m)
        d == M[o][m.name]
    IN  /\ o \in DOMAIN M /\ d.in = o /\ d.kind = "method" /\ d.virtual = m.virtual
        /\ m.scope = IF m.inherited /\ d.scope = "private" THEN "inaccessible" ELSE d.scope
        /\ m.virtual \/ m.name \in SystemMethods => m.overridable
        /\ m.overridable => m.last = o
        /\ m.owner = NoClass => m.name = "toPrimitive"

Objects(M, heap) == \A j \in DOMAIN heap : ObjectOf(M, heap[j])

\* A class holds one object for each name that means something in it, and it is the
\* object of the class that the name's meaning comes from.
HoldsMethods(M, heap, c) ==
    /\ \A j \in c.methods :
          /\ M[c.name][heap[j].name].kind = "method"
          /\ M[c.name][heap[j].name].in = Origin(heap[j])
          /\ Origin(heap[j]) # c.name => heap[j].inherited
    /\ \A j, k \in c.methods : heap[j].name = heap[k].name => j = k
    /\ \A n \in Names :
          M[c.name][n].kind = "method" => \E j \in c.methods : heap[j].name = n

HoldsMembers(M, dat, c) ==
    /\ \A j \in c.members :
          LET m == M[c.name][dat[j].name]
          IN  /\ m.kind = "data"
              /\ dat[j].scope = m.scope \/ (m.scope = "private" /\ dat[j].scope = "inaccessible")
              /\ m.in # c.name => dat[j].scope # "private"
    /\ \A n \in Names :
          M[c.name][n].kind = "data" => \E j \in c.members : dat[j].name = n

\* What an heir has taken from a class.
Hidden(heap, dat, c) ==
    /\ \A j \in c.methods : heap[j].name # "toPrimitive" => heap[j].inherited
    /\ \A j \in c.members : dat[j].scope # "private"

\* No heir has taken anything from a class yet.
Open(M, heap, dat, c) ==
    /\ \A j \in c.methods : Origin(heap[j]) = c.name => ~heap[j].inherited
    /\ \A j \in c.members :
          LET m == M[c.name][dat[j].name]
          IN  m.in = c.name => dat[j].scope = m.scope

Held(M, heap, dat, cls, cur, ext) ==
    /\ \A i \in DOMAIN cls : HoldsMethods(M, heap, cls[i]) /\ HoldsMembers(M, dat, cls[i])
    /\ \A i, k \in DOMAIN cls :
          cls[k].name = UpOf(ext, cls[i].name) => Hidden(heap, dat, cls[k])
    /\ cur # 0 => Open(M, heap, dat, cls[cur])

\* A finished class has written its own methods, once each.
Written(M, emi, tab) ==
    /\ \A e \in emi : e.of \in DOMAIN tab
    /\ \A e, f \in emi : e.of = f.of /\ e.name = f.name => e = f
    /\ \A c \in DOMAIN tab, n \in Names :
          M[c][n].kind = "method" /\ M[c][n].in = c => \E e \in emi : e.of = c /\ e.name = n

TableIn(M, c) ==
    [n \in {m \in Names : M[c][m].kind = "method" /\ M[c][m].virtual} |-> <<M[c][n].in, n>>]

Tables(M, tab) == \A c \in DOMAIN tab : tab[c] = TableIn(M, c)

Runners == {"__constructor", "__destructor"}

CallsUp(M, cal, dec, ext) ==
    /\ \A k \in DOMAIN cal : k \in DOMAIN dec
    /\ \A c \in DOMAIN ext, n \in Runners :
          <<c, n>> \in DOMAIN dec =>
             <<c, n>> \in DOMAIN cal /\ cal[<<c, n>>] = AboveIn(M, ext, c, n).in

\* The state of the program, and what its classes mean.
Good(M, heap, dat, cls, cur, emi, cal, tab, dec, ext) ==
    /\ Typed(heap, dat, cls, emi, cal, dec)
    /\ Tree(cls, ext) /\ Progress(cls, cur, tab, dec, ext)
    /\ IsMeaning(M, ext, dec, tab) /\ Objects(M, heap)
    /\ Held(M, heap, dat, cls, cur, ext)
    /\ Written(M, emi, tab) /\ Tables(M, tab)

IInv ==
    /\ bound \in Bounds /\ count \in 0..bound.members /\ errors \in BOOLEAN
    /\ \E M : /\ Good(M, meth, data, class, current, emitted, calls, vTable, decl, extends)
              /\ CallsUp(M, calls, decl, extends)

--------------------------------------------------------------------------------
(* Meanings. *)

\* What holds of a number when it holds of all that are less holds of all.
LEMMA Upwards ==
    ASSUME NEW N \in Nat, NEW S,
           \A s \in 1..N : (\A t \in 1..(s - 1) : t \in S) => s \in S
    PROVE  \A s \in 1..N : s \in S
<1> SUFFICES ASSUME NEW u \in 1..N, u \notin S PROVE FALSE OBVIOUS
<1> DEFINE R == {s \in 1..N : s \notin S}
           below == {ss \in Nat \X Nat : ss[1] < ss[2]}
<1>1. IsWellFoundedOn(below, Nat) BY NatLessThanWellFounded DEF OpToRel
<1>2. \A i \in Nat, j \in Nat : i < j => <<i, j>> \in below OBVIOUS
<1>3. R \in SUBSET Nat /\ R # {} OBVIOUS
<1> HIDE DEF below
<1>4. PICK s \in R : \A t \in R : <<t, s>> \notin below BY <1>1, <1>3, WFMin
<1>5. ASSUME NEW t \in 1..(s - 1) PROVE t \in S
  <2>1. t \in 1..N /\ t \in Nat /\ s \in Nat /\ t < s BY <1>4
  <2>2. QED BY <1>2, <1>4, <2>1
<1>6. QED BY <1>4, <1>5

\* The part of Typed that the meanings rest on.
Lined(cls, dec) ==
    /\ Len(cls) \in Nat /\ DOMAIN cls = 1..Len(cls)
    /\ \A i \in 1..Len(cls) : cls[i].name \in ClassNames
    /\ \A k \in DOMAIN dec : dec[k] \in DeclarationType

LEMMA TypedLined ==
    ASSUME NEW heap, NEW dat, NEW cls, NEW emi, NEW cal, NEW dec,
           Typed(heap, dat, cls, emi, cal, dec)
    PROVE  Lined(cls, dec)
<1>1. cls \in Seq(ClassType(heap, dat)) /\ \A k \in DOMAIN dec : dec[k] \in DeclarationType
  BY DEF Typed
<1>2. Len(cls) \in Nat /\ DOMAIN cls = 1..Len(cls)
      /\ \A i \in 1..Len(cls) : cls[i] \in ClassType(heap, dat)
  BY <1>1, LenProperties, ElementOfSeq
<1>3. QED BY <1>1, <1>2 DEF Lined, ClassType

LEMMA NothingType == Nothing \in MeaningType
<1>1. <<>> \in Seq(ClassNames) OBVIOUS
<1>2. QED BY <1>1 DEF Nothing, MeaningType, ClassId, Scopes

LEMMA DeclaredType ==
    ASSUME NEW c \in ClassNames, NEW own \in DeclarationType, NEW above \in MeaningType
    PROVE  Declared(c, own, above) \in MeaningType
<1>1. <<c>> \o above.levels \in Seq(ClassNames)
  <2>1. <<c>> \in Seq(ClassNames) /\ above.levels \in Seq(ClassNames) BY DEF MeaningType
  <2>2. QED BY <2>1, ConcatProperties
<1>2. QED BY <1>1 DEF Declared, MeaningType, DeclarationType, ClassId

LEMMA DeclarationInType ==
    ASSUME NEW dec, NEW tab, NEW c, NEW n \in Names, DeclaresIn(dec, tab, c, n),
           \A k \in DOMAIN dec : dec[k] \in DeclarationType
    PROVE  DeclarationIn(dec, c, n) \in DeclarationType
  BY DEF DeclaresIn, DeclarationIn, DeclarationType, SpecialMethods, SystemMethods, Scopes

\* What a name means in a class that is the i-th.
Sound(M, cls, i, n) ==
    LET m == M[cls[i].name][n]
    IN  /\ m \in MeaningType
        /\ m.in = NoClass \/ m.kind = "none" => m = Nothing
        /\ m.in # NoClass => \E k \in 1..i : cls[k].name = m.in /\ M[m.in][n] = m
        /\ n \in SpecialMethods => m.scope = "public" /\ m.kind # "data"
        /\ n = "toPrimitive" => m.in = cls[i].name /\ m.kind = "method" /\ m.virtual

\* The meaning that a class gives to a name is its own, or the one above.
LEMMA MeaningAt ==
    ASSUME NEW M, NEW cls, NEW ext, NEW dec, NEW tab,
           Tree(cls, ext), IsMeaning(M, ext, dec, tab), NEW i \in DOMAIN cls, NEW n \in Names
    PROVE  /\ cls[i].name \in DOMAIN ext /\ cls[i].name \in DOMAIN M
           /\ M[cls[i].name][n] = MeaningIn(M, ext, dec, tab, cls[i].name, n)
<1>1. cls[i].name \in DOMAIN ext BY DEF Tree
<1>2. QED BY <1>1 DEF IsMeaning

LEMMA SoundStep ==
    ASSUME NEW M, NEW cls, NEW ext, NEW dec, NEW tab, Lined(cls, dec),
           Tree(cls, ext), IsMeaning(M, ext, dec, tab), NEW i \in 1..Len(cls), NEW n \in Names,
           \A k \in 1..(i - 1) : Sound(M, cls, k, n)
    PROVE  Sound(M, cls, i, n)
<1> DEFINE a == cls[i].name
           above == AboveIn(M, ext, a, n)
<1>1. i \in DOMAIN cls /\ a \in ClassNames /\ a # NoClass BY ClassesAssumption DEF Lined
<1>2. /\ above \in MeaningType
      /\ above.in = NoClass \/ above.kind = "none" => above = Nothing
      /\ above.in # NoClass =>
            \E k \in 1..(i - 1) : cls[k].name = above.in /\ M[above.in][n] = above
      /\ n \in SpecialMethods => above.scope = "public" /\ above.kind # "data"
      /\ n = "toPrimitive" => above = Nothing \/ above.virtual
  <2>1. CASE UpOf(ext, a) = NoClass
    <3>1. above = Nothing BY <2>1 DEF AboveIn
    <3>2. QED BY <3>1, NothingType DEF Nothing
  <2>2. CASE UpOf(ext, a) # NoClass
    <3>1. PICK k \in 1..(i - 1) : cls[k].name = UpOf(ext, a) BY <1>1, <2>2 DEF Tree
    <3>2. above = M[cls[k].name][n] BY <2>2, <3>1 DEF AboveIn
    <3>3. Sound(M, cls, k, n) OBVIOUS
    <3>4. 1..k \subseteq 1..(i - 1) BY <3>1
    <3>5. QED BY <3>2, <3>3, <3>4 DEF Sound
  <2>3. QED BY <2>1, <2>2
<1>3. M[a][n] = MeaningIn(M, ext, dec, tab, a, n) BY <1>1, MeaningAt
<1>4. \A k \in 1..(i - 1) : k \in 1..i OBVIOUS
<1> HIDE DEF a, above
<1>5. CASE ~DeclaresIn(dec, tab, a, n)
  <2>1. M[a][n] = above BY <1>3, <1>5 DEF MeaningIn, above
  <2>2. n # "toPrimitive" BY <1>5 DEF DeclaresIn
  <2>3. QED BY <1>2, <1>4, <2>1, <2>2 DEF Sound, a
<1>6. CASE DeclaresIn(dec, tab, a, n)
  <2> DEFINE own == DeclarationIn(dec, a, n)
  <2>1. M[a][n] = Declared(a, own, above) BY <1>3, <1>6 DEF MeaningIn, above
  <2>2. own \in DeclarationType BY <1>6, DeclarationInType DEF Lined
  <2>3. n \in SpecialMethods => own.scope = "public" /\ own.kind = "method"
                                /\ (n = "toPrimitive" => own.virtual)
    BY DEF DeclarationIn
  <2> HIDE DEF own
  <2>4. M[a][n] \in MeaningType BY <1>1, <1>2, <2>1, <2>2, DeclaredType
  <2>5. M[a][n].in = a /\ M[a][n].kind = own.kind /\ M[a][n].scope = own.scope
        /\ M[a][n].virtual = (IF above.in = NoClass THEN own.virtual ELSE above.virtual)
    BY <2>1 DEF Declared
  <2>6. own.kind # "none" BY <2>2 DEF DeclarationType
  <2>7. i \in 1..i BY DEF Lined
  <2>8. "toPrimitive" \in SpecialMethods BY DEF SpecialMethods
  <2>9. n = "toPrimitive" => M[a][n].virtual BY <1>2, <2>3, <2>5, <2>8 DEF Nothing
  <2>10. QED BY <1>1, <2>3, <2>4, <2>5, <2>6, <2>7, <2>8, <2>9 DEF Sound, a
<1>7. QED BY <1>5, <1>6

LEMMA AllSound ==
    ASSUME NEW M, NEW cls, NEW ext, NEW dec, NEW tab, Lined(cls, dec),
           Tree(cls, ext), IsMeaning(M, ext, dec, tab)
    PROVE  \A i \in 1..Len(cls), n \in Names : Sound(M, cls, i, n)
<1> SUFFICES ASSUME NEW n \in Names PROVE \A i \in 1..Len(cls) : Sound(M, cls, i, n) OBVIOUS
<1> DEFINE S == {i \in 1..Len(cls) : Sound(M, cls, i, n)}
<1>1. ASSUME NEW i \in 1..Len(cls), \A k \in 1..(i - 1) : k \in S PROVE i \in S
  BY <1>1, SoundStep
<1>2. Len(cls) \in Nat BY DEF Lined
<1>3. \A i \in 1..Len(cls) : i \in S
  <2> HIDE DEF S
  <2>1. QED BY <1>1, <1>2, Upwards
<1>4. QED BY <1>3

\* A name comes from the class itself when, and only when, it declares it.
LEMMA OwnMeaning ==
    ASSUME NEW M, NEW cls, NEW ext, NEW dec, NEW tab, Lined(cls, dec),
           Tree(cls, ext), IsMeaning(M, ext, dec, tab), NEW i \in 1..Len(cls), NEW n \in Names
    PROVE  LET a == cls[i].name
           IN  /\ DeclaresIn(dec, tab, a, n) <=> M[a][n].in = a
               /\ M[a][n].in = a => M[a][n] = Declared(a, DeclarationIn(dec, a, n), AboveIn(M, ext, a, n))
               /\ M[a][n].in # a => M[a][n] = AboveIn(M, ext, a, n)
<1> DEFINE a == cls[i].name
           above == AboveIn(M, ext, a, n)
<1>1. i \in DOMAIN cls /\ a \in ClassNames /\ a # NoClass BY ClassesAssumption DEF Lined
<1>2. M[a][n] = MeaningIn(M, ext, dec, tab, a, n) BY <1>1, MeaningAt
<1>3. above.in # a
  <2>1. CASE UpOf(ext, a) = NoClass BY <1>1, <2>1 DEF AboveIn, Nothing
  <2>2. CASE UpOf(ext, a) # NoClass
    <3>1. PICK k \in 1..(i - 1) : cls[k].name = UpOf(ext, a) BY <1>1, <2>2 DEF Tree
    <3>2. above = M[cls[k].name][n] BY <2>2, <3>1 DEF AboveIn
    <3>3. k \in 1..Len(cls) BY <3>1 DEF Lined
    <3>4. Sound(M, cls, k, n) BY <3>3, AllSound
    <3>5. above.in # NoClass => \E h \in 1..k : cls[h].name = above.in BY <3>2, <3>4 DEF Sound
    <3>6. \A h \in 1..k : h \in DOMAIN cls /\ h # i BY <3>1, <3>3 DEF Lined
    <3>7. \A h \in 1..k : cls[h].name # a BY <1>1, <3>6 DEF Tree
    <3>8. QED BY <1>1, <3>5, <3>7
  <2>3. QED BY <2>1, <2>2
<1>4. DeclaresIn(dec, tab, a, n) => M[a][n] = Declared(a, DeclarationIn(dec, a, n), above)
                                    /\ M[a][n].in = a
  BY <1>2 DEF MeaningIn, Declared
<1>5. ~DeclaresIn(dec, tab, a, n) => M[a][n] = above BY <1>2 DEF MeaningIn
<1>6. QED BY <1>3, <1>4, <1>5

--------------------------------------------------------------------------------
(* What another class sees of a step. *)

Evolves(heap, heap2) ==
    \A j \in DOMAIN heap :
       /\ j \in DOMAIN heap2 /\ heap[j].name \in Names
       /\ heap2[j].name = heap[j].name /\ Origin(heap2[j]) = Origin(heap[j])
       /\ heap[j].inherited => heap2[j].inherited

EvolvesData(dat, dat2) ==
    \A j \in DOMAIN dat :
       /\ j \in DOMAIN dat2 /\ dat[j].name \in Names
       /\ dat2[j].name = dat[j].name
       /\ \/ dat2[j].scope = dat[j].scope
          \/ dat[j].scope = "private" /\ dat2[j].scope = "inaccessible"

\* A class whose meanings stay holds what it held.
LEMMA HoldsOn ==
    ASSUME NEW M, NEW M2, NEW heap, NEW heap2, NEW dat, NEW dat2, NEW c,
           c \in ClassType(heap, dat), Evolves(heap, heap2), EvolvesData(dat, dat2),
           \A n \in Names : M2[c.name][n] = M[c.name][n]
    PROVE  /\ HoldsMethods(M, heap, c) => HoldsMethods(M2, heap2, c)
           /\ HoldsMembers(M, dat, c) => HoldsMembers(M2, dat2, c)
           /\ c \in ClassType(heap2, dat2)
<1>1. c.methods \subseteq DOMAIN heap /\ c.members \subseteq DOMAIN dat BY DEF ClassType
<1>2. DOMAIN heap \subseteq DOMAIN heap2 /\ DOMAIN dat \subseteq DOMAIN dat2
  BY DEF Evolves, EvolvesData
<1>3. HoldsMethods(M, heap, c) => HoldsMethods(M2, heap2, c)
  <2> SUFFICES ASSUME HoldsMethods(M, heap, c) PROVE HoldsMethods(M2, heap2, c) OBVIOUS
  <2>1. \A j \in c.methods :
           /\ heap2[j].name = heap[j].name /\ Origin(heap2[j]) = Origin(heap[j])
           /\ heap[j].name \in Names /\ (heap[j].inherited => heap2[j].inherited)
    BY <1>1 DEF Evolves
  <2>2. QED BY <2>1 DEF HoldsMethods
<1>4. HoldsMembers(M, dat, c) => HoldsMembers(M2, dat2, c)
  <2> SUFFICES ASSUME HoldsMembers(M, dat, c) PROVE HoldsMembers(M2, dat2, c) OBVIOUS
  <2>1. \A j \in c.members :
           /\ dat2[j].name = dat[j].name /\ dat[j].name \in Names
           /\ \/ dat2[j].scope = dat[j].scope
              \/ dat[j].scope = "private" /\ dat2[j].scope = "inaccessible"
    BY <1>1 DEF EvolvesData
  <2>2. QED BY <2>1 DEF HoldsMembers
<1>5. c \in ClassType(heap2, dat2) BY <1>2 DEF ClassType
<1>6. QED BY <1>3, <1>4, <1>5

LEMMA HiddenOn ==
    ASSUME NEW heap, NEW heap2, NEW dat, NEW dat2, NEW c,
           c \in ClassType(heap, dat), Evolves(heap, heap2), EvolvesData(dat, dat2),
           Hidden(heap, dat, c)
    PROVE  Hidden(heap2, dat2, c)
<1>1. c.methods \subseteq DOMAIN heap /\ c.members \subseteq DOMAIN dat BY DEF ClassType
<1>2. \A j \in c.methods : heap2[j].name # "toPrimitive" => heap2[j].inherited
  BY <1>1 DEF Hidden, Evolves
<1>3. \A j \in c.members : dat2[j].scope # "private" BY <1>1 DEF Hidden, EvolvesData
<1>4. QED BY <1>2, <1>3 DEF Hidden

LEMMA Appended ==
    ASSUME NEW T, NEW s \in Seq(T), NEW e \in T
    PROVE  /\ Append(s, e) \in Seq(T) /\ Len(s) \in Nat /\ Len(Append(s, e)) = Len(s) + 1
           /\ DOMAIN s = 1..Len(s) /\ DOMAIN Append(s, e) = DOMAIN s \cup {Len(s) + 1}
           /\ Len(s) + 1 \notin DOMAIN s
           /\ \A j \in DOMAIN s : Append(s, e)[j] = s[j]
           /\ Append(s, e)[Len(s) + 1] = e
<1>1. Len(s) \in Nat /\ DOMAIN s = 1..Len(s) BY LenProperties
<1>2. /\ Append(s, e) \in Seq(T) /\ Len(Append(s, e)) = Len(s) + 1
      /\ \A j \in 1..Len(s) : Append(s, e)[j] = s[j]
      /\ Append(s, e)[Len(s) + 1] = e
  BY AppendProperties
<1>3. DOMAIN Append(s, e) = 1..(Len(s) + 1) BY <1>2, LenProperties
<1>4. 1..(Len(s) + 1) = (1..Len(s)) \cup {Len(s) + 1} /\ Len(s) + 1 \notin 1..Len(s) BY <1>1
<1>5. QED BY <1>1, <1>2, <1>3, <1>4

LEMMA AppendEvolves ==
    ASSUME NEW heap \in Seq(MethodType), NEW m \in MethodType
    PROVE  Evolves(heap, heap) /\ Evolves(heap, Append(heap, m))
<1>1. \A j \in DOMAIN heap : heap[j] \in MethodType BY LenProperties, ElementOfSeq
<1>2. \A j \in DOMAIN heap : heap[j].name \in Names BY <1>1 DEF MethodType
<1>3. QED BY <1>2, Appended DEF Evolves

LEMMA AppendEvolvesData ==
    ASSUME NEW dat \in Seq(MemberType), NEW m \in MemberType
    PROVE  EvolvesData(dat, dat) /\ EvolvesData(dat, Append(dat, m))
<1>1. \A j \in DOMAIN dat : dat[j] \in MemberType BY LenProperties, ElementOfSeq
<1>2. \A j \in DOMAIN dat : dat[j].name \in Names BY <1>1 DEF MemberType, Names
<1>3. QED BY <1>2, Appended DEF EvolvesData

--------------------------------------------------------------------------------
(* add_method, in the class that is being defined. *)

\* What M says of a class, without its levels.
SoundIn(M, a) ==
    /\ a \in DOMAIN M /\ a \in ClassNames
    /\ \A n \in Names :
          /\ M[a][n] \in MeaningType
          /\ M[a][n].in = NoClass => M[a][n] = Nothing
          /\ M[a][n].kind = "none" => M[a][n].in = NoClass
          /\ M[a][n].in # NoClass => M[a][n].in \in DOMAIN M /\ M[M[a][n].in][n] = M[a][n]
          /\ n \in SpecialMethods => M[a][n].scope = "public" /\ M[a][n].kind # "data"
          /\ n = "toPrimitive" => M[a][n].in = a /\ M[a][n].kind = "method" /\ M[a][n].virtual

Ready(M, heap, dat, c) ==
    /\ heap \in Seq(MethodType) /\ dat \in Seq(MemberType) /\ c \in ClassType(heap, dat)
    /\ SoundIn(M, c.name) /\ Objects(M, heap)
    /\ HoldsMethods(M, heap, c) /\ HoldsMembers(M, dat, c) /\ Open(M, heap, dat, c)

\* The method that a handler gives to add_method.
Given(method, a) ==
    /\ method \in MethodType
    /\ method.owner = a /\ method.inherited = FALSE /\ method.last = NoClass
    /\ method.scope \in Scopes
    /\ method.virtual \/ method.name \in SystemMethods => method.overridable
    /\ method.name \in SpecialMethods => method.scope = "public"

\* What becomes of it when M[a] gives its name the meaning `old`.
Settled(method, a, old) ==
    [name |-> method.name, owner |-> a, scope |-> method.scope,
     virtual |-> IF old.in = NoClass THEN method.virtual ELSE old.virtual,
     overridable |-> IF old.in = NoClass THEN method.overridable ELSE TRUE,
     inherited |-> FALSE,
     last |-> IF old.in # NoClass \/ method.overridable THEN a ELSE NoClass]

Without(heap, c, n) == {j \in c.methods : heap[j].name # n}

LEMMA ReadyHeap ==
    ASSUME NEW M, NEW heap, NEW dat, NEW c, Ready(M, heap, dat, c)
    PROVE  /\ Len(heap) \in Nat /\ DOMAIN heap = 1..Len(heap) /\ Len(heap) + 1 \notin DOMAIN heap
           /\ c.methods \subseteq DOMAIN heap /\ c.members \subseteq DOMAIN dat
           /\ c.name \in ClassNames /\ c.name # NoClass
           /\ \A j \in DOMAIN heap : heap[j] \in MethodType /\ heap[j].name \in Names
           /\ \A j \in DOMAIN dat : dat[j] \in MemberType /\ dat[j].name \in MemberNames
<1>1. Len(heap) \in Nat /\ DOMAIN heap = 1..Len(heap) /\ \A j \in DOMAIN heap : heap[j] \in MethodType
  BY LenProperties, ElementOfSeq DEF Ready
<1>2. \A j \in DOMAIN dat : dat[j] \in MemberType BY LenProperties, ElementOfSeq DEF Ready
<1>3. c \in ClassType(heap, dat) BY DEF Ready
<1>4. Len(heap) + 1 \notin 1..Len(heap) BY <1>1
<1>5. QED BY <1>1, <1>2, <1>3, <1>4, ClassesAssumption DEF ClassType, MethodType, MemberType

\* A class has a member for a name, a method, or neither.
LEMMA NamedMethod ==
    ASSUME NEW M, NEW heap, NEW dat, NEW c, Ready(M, heap, dat, c), NEW n \in Names,
           M[c.name][n].kind = "method"
    PROVE  \E j \in c.methods :
              /\ Named(heap, c.methods, n) = {j} /\ Named(dat, c.members, n) = {}
              /\ j \in DOMAIN heap /\ heap[j].name = n /\ Origin(heap[j]) = M[c.name][n].in
              /\ ObjectOf(M, heap[j])
<1>1. HoldsMethods(M, heap, c) /\ HoldsMembers(M, dat, c) /\ Objects(M, heap) BY DEF Ready
<1>2. PICK j \in c.methods : heap[j].name = n BY <1>1 DEF HoldsMethods
<1>3. j \in DOMAIN heap BY ReadyHeap
<1>4. Named(heap, c.methods, n) = {j} BY <1>1, <1>2 DEF HoldsMethods, Named
<1>5. Named(dat, c.members, n) = {} BY <1>1 DEF HoldsMembers, Named
<1>6. Origin(heap[j]) = M[c.name][n].in BY <1>1, <1>2 DEF HoldsMethods
<1>7. QED BY <1>1, <1>2, <1>3, <1>4, <1>5, <1>6 DEF Objects

LEMMA NamedNothing ==
    ASSUME NEW M, NEW heap, NEW dat, NEW c, Ready(M, heap, dat, c), NEW n \in Names
    PROVE  /\ M[c.name][n].kind = "none" =>
                 Named(heap, c.methods, n) = {} /\ Named(dat, c.members, n) = {}
           /\ M[c.name][n].kind = "data" =>
                 Named(heap, c.methods, n) = {} /\ Named(dat, c.members, n) # {}
<1>1. HoldsMethods(M, heap, c) /\ HoldsMembers(M, dat, c) BY DEF Ready
<1>2. M[c.name][n].kind # "method" => Named(heap, c.methods, n) = {}
  BY <1>1 DEF HoldsMethods, Named
<1>3. M[c.name][n].kind # "data" => Named(dat, c.members, n) = {}
  BY <1>1 DEF HoldsMembers, Named
<1>4. M[c.name][n].kind = "data" => Named(dat, c.members, n) # {}
  BY <1>1 DEF HoldsMembers, Named
<1>5. QED BY <1>2, <1>3, <1>4

\* The own method of a class was not inherited by any.
LEMMA OverridesInherited ==
    ASSUME NEW M, NEW heap, NEW dat, NEW c, Ready(M, heap, dat, c), NEW j \in c.methods
    PROVE  /\ Origin(heap[j]) = c.name <=> ~heap[j].inherited
           /\ Overrides(heap[j], c) <=> heap[j].inherited /\ heap[j].overridable
<1>1. HoldsMethods(M, heap, c) /\ Open(M, heap, dat, c) /\ Objects(M, heap) BY DEF Ready
<1>2. j \in DOMAIN heap BY ReadyHeap
<1>3. Origin(heap[j]) = c.name <=> ~heap[j].inherited BY <1>1 DEF HoldsMethods, Open
<1>4. heap[j].overridable => heap[j].last = Origin(heap[j]) BY <1>1, <1>2 DEF Objects, ObjectOf
<1>5. QED BY <1>3, <1>4 DEF Overrides

LEMMA AppendedThenChanged ==
    ASSUME NEW heap \in Seq(MethodType), NEW m \in MethodType, NEW e \in MethodType
    PROVE  [Append(heap, m) EXCEPT ![Len(heap) + 1] = e] = Append(heap, e)
<1> DEFINE f == [Append(heap, m) EXCEPT ![Len(heap) + 1] = e]
           g == Append(heap, e)
<1>1. DOMAIN f = DOMAIN heap \cup {Len(heap) + 1} /\ DOMAIN g = DOMAIN f BY Appended
<1>2. ASSUME NEW j \in DOMAIN heap PROVE f[j] = g[j]
  <2>1. /\ j # Len(heap) + 1 /\ j \in DOMAIN Append(heap, m)
        /\ Append(heap, m)[j] = heap[j] /\ g[j] = heap[j]
    BY Appended
  <2>2. f[j] = Append(heap, m)[j] BY <2>1
  <2>3. QED BY <2>1, <2>2
<1>3. f[Len(heap) + 1] = g[Len(heap) + 1] BY Appended
<1>4. \A j \in DOMAIN f : f[j] = g[j] BY <1>1, <1>2, <1>3
<1>5. f = [j \in DOMAIN f |-> f[j]] OBVIOUS
<1>6. g = [j \in DOMAIN g |-> g[j]]
  <2>1. g \in Seq(MethodType) BY Appended
  <2>2. QED BY <2>1, LenProperties
<1>7. QED BY <1>1, <1>4, <1>5, <1>6

LEMMA SettledType ==
    ASSUME NEW a \in ClassNames, NEW method, NEW old \in MeaningType, Given(method, a)
    PROVE  Settled(method, a, old) \in MethodType
  BY DEF Settled, Given, MethodType, MeaningType, ClassId, ScopeType

\* The parts of AddMethod: the methods that stay to be asked, those that give way, the
\* object that comes.
Asked(h, c, i) ==
    IF Custom(h[i], c) THEN c.methods \ Named(h, c.methods, "toPrimitive") ELSE c.methods

Over(h, c, i) == {j \in Named(h, Asked(h, c, i), h[i].name) : Overrides(h[j], c)}

Coming(h, c, i) ==
    IF Over(h, c, i) # {} THEN Override(h[i], h[CHOOSE j \in Over(h, c, i) : TRUE], c)
    ELSE IF Custom(h[i], c) THEN [h[i] EXCEPT !.virtual = TRUE, !.overridable = TRUE]
    ELSE h[i]

Accepted(h, c, i) ==
    /\ Named(h, Asked(h, c, i), h[i].name) = Over(h, c, i)
    /\ Named(data, c.members, h[i].name) = {}

LEMMA AddMethodIs ==
    ASSUME NEW h, NEW c, NEW i
    PROVE  AddMethod(h, c, i) =
              [ok    |-> Accepted(h, c, i),
               heap  |-> [h EXCEPT ![i] = Place(Coming(h, c, i), c)],
               class |-> [c EXCEPT !.methods = (Asked(h, c, i) \ Over(h, c, i))
                                                   \cup (IF Accepted(h, c, i) THEN {i} ELSE {}),
                                   !.custom  = @ \/ Custom(h[i], c)]]
  BY Zenon DEF AddMethod, Accepted, Coming, Over, Asked

\* The method comes, in place of the one with its name if there is one,
Comes(M, heap, c, method, heap2, c2) ==
    LET old == M[c.name][method.name]
    IN  /\ old.kind # "data"
        /\ old.in # c.name \/ method.name = "toPrimitive"
        /\ heap2 = Append(heap, Settled(method, c.name, old))
        /\ c2.methods = Without(heap, c, method.name) \cup {Len(heap) + 1}
        /\ c2.custom \in BOOLEAN
        /\ c2 = [c EXCEPT !.methods = c2.methods, !.custom = c2.custom]

\* What add_method answers, r, is that it does, or that it is an error.
Outcome(M, heap, c, method, r) ==
    /\ r.ok \in BOOLEAN
    /\ r.ok => Comes(M, heap, c, method, r.heap, r.class)
    /\ ~r.ok => r.class = c
    /\ method.name \in SystemMethods /\ M[c.name][method.name].in # c.name => r.ok

LEMMA AddNewOutcome ==
    ASSUME NEW M, NEW heap, NEW c, Ready(M, heap, data, c), NEW method, Given(method, c.name)
    PROVE  Outcome(M, heap, c, method, AddNew(heap, c, method))
<1> DEFINE n      == method.name
           a      == c.name
           old    == M[a][n]
           h      == Append(heap, method)
           i      == Len(heap) + 1
           custom == Custom(h[i], c)
           ids    == Asked(h, c, i)
           over   == Over(h, c, i)
           new    == Coming(h, c, i)
           ok     == Accepted(h, c, i)
           r      == AddMethod(h, c, i)
<1>1. /\ r.ok = ok
      /\ r.heap = [h EXCEPT ![i] = Place(new, c)]
      /\ r.class = [c EXCEPT !.methods = (ids \ over) \cup (IF ok THEN {i} ELSE {}),
                             !.custom  = @ \/ custom]
  <2>1. r = [ok    |-> ok,
             heap  |-> [h EXCEPT ![i] = Place(new, c)],
             class |-> [c EXCEPT !.methods = (ids \ over) \cup (IF ok THEN {i} ELSE {}),
                                 !.custom  = @ \/ custom]]
    BY AddMethodIs
  <2> HIDE DEF r, ok, h, i, new, ids, over, custom
  <2>2. QED BY <2>1
<1>2. AddNew(heap, c, method) = r BY DEF AddNew
<1>3. /\ heap \in Seq(MethodType) /\ method \in MethodType /\ n \in Names
      /\ c \in ClassType(heap, data) /\ a \in ClassNames /\ a # NoClass
  <2>1. heap \in Seq(MethodType) /\ c \in ClassType(heap, data) BY DEF Ready
  <2>2. method \in MethodType BY DEF Given
  <2>3. QED BY <2>1, <2>2, ClassesAssumption DEF MethodType, ClassType
<1>4. h[i] = method /\ (\A j \in DOMAIN heap : h[j] = heap[j]) /\ c.methods \subseteq DOMAIN heap
      /\ i \notin DOMAIN heap
  BY <1>3, Appended, ReadyHeap
<1>5. SoundIn(M, a) /\ old \in MeaningType BY <1>3 DEF Ready, SoundIn
<1>6. custom <=> n = "toPrimitive" /\ ~c.custom BY <1>4 DEF Custom
<1> HIDE DEF new, r
<1>7. ASSUME Place(new, c) = Settled(method, a, old)
      PROVE  r.heap = Append(heap, Settled(method, a, old))
  <2>1. Settled(method, a, old) \in MethodType BY <1>3, <1>5, SettledType
  <2>3. Place(new, c) \in MethodType BY <1>7, <2>1
  <2> HIDE DEF old
  <2>2. [h EXCEPT ![i] = Place(new, c)] = Append(heap, Place(new, c))
    BY <1>3, <2>3, AppendedThenChanged
  <2>4. QED BY <1>1, <1>7, <2>2
<1>8. ids = (IF custom THEN c.methods \ Named(heap, c.methods, "toPrimitive") ELSE c.methods)
      /\ ids \subseteq c.methods
  BY <1>4 DEF Asked, Named
<1>9. over = {j \in Named(heap, ids, n) : Overrides(heap[j], c)}
  BY <1>4, <1>8 DEF Over, Named
<1>10. Named(h, ids, n) = Named(heap, ids, n) BY <1>4, <1>8 DEF Named
<1>11. ok <=> Named(heap, ids, n) = over /\ Named(data, c.members, n) = {}
  BY <1>4, <1>10 DEF Accepted
<1>12. new = IF over # {} THEN Override(method, h[CHOOSE j \in over : TRUE], c)
             ELSE IF custom THEN [method EXCEPT !.virtual = TRUE, !.overridable = TRUE]
             ELSE method
  BY <1>4 DEF new, Coming
<1>13. c.custom \in BOOLEAN BY <1>3 DEF ClassType
<1>17. ok \in BOOLEAN BY DEF Accepted
<1> HIDE DEF custom, ids, over, ok, h, i
<1>14. custom \in BOOLEAN BY <1>6
<1>15. /\ r.class = [c EXCEPT !.methods = r.class.methods, !.custom = r.class.custom]
       /\ r.class.custom \in BOOLEAN
       /\ r.class.methods = (ids \ over) \cup (IF ok THEN {i} ELSE {})
       /\ r.class.custom = (c.custom \/ custom)
  BY <1>1, <1>3, <1>13, <1>14 DEF ClassType
<1>16. r.ok \in BOOLEAN BY <1>1, <1>17
<1> SUFFICES /\ r.ok => /\ old.kind # "data"
                        /\ old.in # a \/ n = "toPrimitive"
                        /\ r.heap = Append(heap, Settled(method, a, old))
                        /\ r.class.methods = Without(heap, c, n) \cup {Len(heap) + 1}
             /\ ~r.ok => r.class = c
             /\ n \in SystemMethods /\ old.in # a => r.ok
  BY <1>2, <1>15, <1>16 DEF Outcome, Comes
<1>18. ASSUME ~ok, ~custom, over = {}, ids = c.methods PROVE r.class = c
  <2>1. r.class.methods = c.methods /\ r.class.custom = c.custom
    BY <1>13, <1>15, <1>18
  <2>2. [c EXCEPT !.methods = c.methods, !.custom = c.custom] = c BY <1>3 DEF ClassType
  <2>3. QED BY <1>15, <2>1, <2>2
<1>19. Without(heap, c, n) = c.methods \ Named(heap, c.methods, n) BY DEF Without, Named
<1>20. \A j \in c.methods : Overrides(heap[j], c) <=> heap[j].inherited /\ heap[j].overridable
  BY OverridesInherited
<1>21. CASE old.kind = "method" /\ n = "toPrimitive"
  <2>1. PICK j \in c.methods :
           /\ Named(heap, c.methods, n) = {j} /\ Named(data, c.members, n) = {}
           /\ Origin(heap[j]) = old.in
    <3> HIDE DEF n, a
    <3>1. Ready(M, heap, data, c) /\ n \in Names /\ M[c.name][n].kind = "method"
      BY <1>3, <1>21 DEF a
    <3>2. \E j \in c.methods :
             /\ Named(heap, c.methods, n) = {j} /\ Named(data, c.members, n) = {}
             /\ j \in DOMAIN heap /\ heap[j].name = n /\ Origin(heap[j]) = M[c.name][n].in
             /\ ObjectOf(M, heap[j])
      BY <3>1, NamedMethod
    <3>3. QED BY <3>2 DEF a
  <2>2. old.in = a /\ old.virtual BY <1>3, <1>5, <1>21 DEF SoundIn
  <2>3. ~Overrides(heap[j], c) BY <1>20, <2>1, <2>2, OverridesInherited
  <2>4. CASE custom
    <3>1. ids = c.methods \ {j} BY <1>8, <1>21, <2>1, <2>4
    <3>2. Named(heap, ids, n) = {} BY <2>1, <3>1 DEF Named
    <3>3. over = {} BY <1>9, <3>2
    <3>4. ok BY <1>11, <2>1, <3>2, <3>3
    <3>5. new = [method EXCEPT !.virtual = TRUE, !.overridable = TRUE] BY <1>12, <2>4, <3>3
    <3>6. Place(new, c) = Settled(method, a, old)
      BY <1>3, <2>2, <3>5 DEF Place, Settled, Given, MethodType
    <3>7. r.class.methods = Without(heap, c, n) \cup {i} BY <1>15, <1>19, <2>1, <3>1, <3>3, <3>4
    <3>8. QED BY <1>1, <1>2, <1>7, <1>15, <1>16, <1>21, <3>4, <3>6, <3>7 DEF i
  <2>5. CASE ~custom
    <3>1. ids = c.methods BY <1>8, <2>5
    <3>2. over = {} BY <1>9, <2>1, <2>3, <3>1
    <3>3. ~ok BY <1>11, <2>1, <3>1, <3>2
    <3>4. n \notin SystemMethods BY <1>21 DEF SystemMethods
    <3>5. QED BY <1>1, <1>2, <1>15, <1>16, <1>18, <2>5, <3>1, <3>2, <3>3, <3>4
  <2>6. QED BY <2>4, <2>5
<1>22. CASE n # "toPrimitive"
  <2>1. ~custom /\ ids = c.methods BY <1>6, <1>8, <1>22
  <2>2. CASE old.kind = "method"
    <3>1. PICK j \in c.methods :
             /\ Named(heap, c.methods, n) = {j} /\ Named(data, c.members, n) = {}
             /\ j \in DOMAIN heap /\ Origin(heap[j]) = old.in /\ ObjectOf(M, heap[j])
             /\ heap[j].name = n
    <4> HIDE DEF n, a
    <4>1. Ready(M, heap, data, c) /\ n \in Names /\ M[c.name][n].kind = "method"
      BY <1>3, <2>2 DEF a
    <4>2. \E j \in c.methods :
               /\ Named(heap, c.methods, n) = {j} /\ Named(data, c.members, n) = {}
               /\ j \in DOMAIN heap /\ heap[j].name = n /\ Origin(heap[j]) = M[c.name][n].in
               /\ ObjectOf(M, heap[j])
        BY <4>1, NamedMethod
      <4>3. QED BY <4>2 DEF a
    <3>2. CASE Overrides(heap[j], c)
      <4>1. over = {j} BY <1>9, <2>1, <3>1, <3>2
      <4>2. ok BY <1>11, <2>1, <3>1, <4>1
      <4>3. new = Override(method, heap[j], c) BY <1>4, <1>12, <3>1, <4>1
      <4>4. heap[j].inherited BY <1>20, <3>2
      <4>5. old.in # a BY <3>1, <4>4, OverridesInherited
      <4>6. old.in # NoClass BY <1>3, <1>5, <2>2 DEF SoundIn, Nothing
      <4>7. heap[j].virtual = old.virtual
        <5>1. M[old.in][n] = old BY <1>3, <1>5, <4>6 DEF SoundIn
        <5>2. QED BY <3>1, <5>1 DEF ObjectOf
      <4>8. Place(new, c) = Settled(method, a, old)
        BY <1>3, <4>3, <4>6, <4>7 DEF Place, Settled, Given, MethodType, Override
      <4>9. r.class.methods = Without(heap, c, n) \cup {i}
        BY <1>15, <1>19, <2>1, <3>1, <4>1, <4>2
      <4>10. old.kind # "data" BY <2>2
      <4>11. QED BY <1>1, <1>2, <1>7, <1>15, <1>16, <4>2, <4>5, <4>8, <4>9, <4>10 DEF i
    <3>3. CASE ~Overrides(heap[j], c)
      <4>1. over = {} BY <1>9, <2>1, <3>1, <3>3
      <4>2. ~ok BY <1>11, <2>1, <3>1, <4>1
      <4>3. ASSUME n \in SystemMethods PROVE old.in = a
        <5>1. heap[j].overridable BY <3>1, <4>3 DEF ObjectOf
        <5>2. ~heap[j].inherited BY <1>20, <3>3, <5>1
        <5>3. QED BY <3>1, <5>2, OverridesInherited
      <4>4. QED BY <1>1, <1>2, <1>15, <1>16, <1>18, <2>1, <4>1, <4>2, <4>3
    <3>4. QED BY <3>2, <3>3
  <2>3. CASE old.kind = "data"
    <3>1. Named(heap, c.methods, n) = {} /\ Named(data, c.members, n) # {}
      BY <1>3, <2>3, NamedNothing
    <3>2. over = {} BY <1>9, <2>1, <3>1
    <3>3. ~ok BY <1>11, <3>1
    <3>4. n \notin SystemMethods BY <1>3, <1>5, <2>3 DEF SoundIn, SpecialMethods
    <3>5. QED BY <1>1, <1>2, <1>15, <1>16, <1>18, <2>1, <3>2, <3>3, <3>4
  <2>4. CASE old.kind = "none"
    <3>1. Named(heap, c.methods, n) = {} /\ Named(data, c.members, n) = {}
      BY <1>3, <2>4, NamedNothing
    <3>2. over = {} BY <1>9, <2>1, <3>1
    <3>3. ok BY <1>11, <2>1, <3>1, <3>2
    <3>4. new = method BY <1>12, <2>1, <3>2
    <3>5. old.in = NoClass BY <1>3, <1>5, <2>4 DEF SoundIn
    <3>6. Place(new, c) = Settled(method, a, old)
      BY <1>3, <3>4, <3>5 DEF Place, Settled, Given, MethodType
    <3>7. r.class.methods = Without(heap, c, n) \cup {i} BY <1>15, <1>19, <2>1, <3>1, <3>2, <3>3
    <3>8. old.kind # "data" /\ old.in # a BY <1>3, <2>4, <3>5
    <3>9. QED BY <1>1, <1>2, <1>7, <1>15, <1>16, <3>3, <3>6, <3>7, <3>8 DEF i
  <2>5. QED BY <1>5, <2>2, <2>3, <2>4 DEF MeaningType
<1>23. n = "toPrimitive" => old.kind = "method" BY <1>3, <1>5 DEF SoundIn
<1>24. QED BY <1>21, <1>22, <1>23

\* M2 differs from M only in what n means in a.
Redeclares(M, M2, a, n) ==
    /\ DOMAIN M2 = DOMAIN M
    /\ \A b \in DOMAIN M, x \in Names : b # a \/ x # n => M2[b][x] = M[b][x]

\* The name of the method means what it says.
Says(M, M2, a, method) ==
    LET old == M[a][method.name]
        new == M2[a][method.name]
    IN  /\ Redeclares(M, M2, a, method.name)
        /\ old.in # a \/ new = old
        /\ new \in MeaningType
        /\ new.in = a /\ new.kind = "method" /\ new.scope = method.scope
        /\ new.virtual = Settled(method, a, old).virtual
        /\ method.name = "toPrimitive" => new.virtual

LEMMA ReadyAfterMethod ==
    ASSUME NEW M, NEW M2, NEW heap, NEW dat, NEW c, Ready(M, heap, dat, c),
           NEW method, Given(method, c.name), NEW c2, NEW heap2,
           Comes(M, heap, c, method, heap2, c2), Says(M, M2, c.name, method)
    PROVE  Ready(M2, heap2, dat, c2) /\ Evolves(heap, heap2) /\ c2.name = c.name
<1> DEFINE n == method.name
           a == c.name
           i == Len(heap) + 1
<1>1. /\ heap \in Seq(MethodType) /\ dat \in Seq(MemberType) /\ method \in MethodType
      /\ c \in ClassType(heap, dat) /\ n \in Names /\ a \in ClassNames /\ a # NoClass
      /\ SoundIn(M, a) /\ Objects(M, heap)
      /\ HoldsMethods(M, heap, c) /\ HoldsMembers(M, dat, c) /\ Open(M, heap, dat, c)
  <2>1. method \in MethodType BY DEF Given
  <2>2. n \in Names BY <2>1 DEF MethodType
  <2>3. a \in ClassNames /\ a # NoClass BY ReadyHeap
  <2>4. QED BY <2>1, <2>2, <2>3 DEF Ready
<1>2. M[a][n] \in MeaningType BY <1>1 DEF SoundIn
<1> DEFINE object == Settled(method, a, M[a][n])
<1>3. object \in MethodType BY <1>1, <1>2, SettledType
<1>4. /\ object.name = n /\ object.owner = a /\ object.scope = method.scope
      /\ object.inherited = FALSE /\ Origin(object) = a
      /\ object.overridable => object.last = a
      /\ object.virtual \/ n \in SystemMethods => object.overridable
  BY <1>1, <1>2 DEF Settled, Origin, Given
<1>5. /\ heap2 \in Seq(MethodType) /\ DOMAIN heap2 = DOMAIN heap \cup {i} /\ i \notin DOMAIN heap
      /\ (\A j \in DOMAIN heap : heap2[j] = heap[j]) /\ heap2[i] = object
      /\ c.methods \subseteq DOMAIN heap /\ c.members \subseteq DOMAIN dat
  BY <1>1, <1>3, Appended, ReadyHeap DEF Comes
<1>6. Evolves(heap, heap2) BY <1>1, <1>3, AppendEvolves DEF Comes
<1> HIDE DEF object, i
<1>7. c2.name = a /\ c2.members = c.members /\ c2 \in ClassType(heap2, dat)
  <2>1. c2.methods \subseteq DOMAIN heap2 BY <1>5 DEF Without, i, Comes
  <2>2. QED BY <1>1, <2>1 DEF ClassType, Comes
<1>8. /\ DOMAIN M2 = DOMAIN M
      /\ \A b \in DOMAIN M, x \in Names : b # a \/ x # n => M2[b][x] = M[b][x]
  BY DEF Redeclares, Says
<1>9. a \in DOMAIN M BY <1>1 DEF SoundIn
<1>10. SoundIn(M2, a)
  <2>1. ASSUME NEW x \in Names
        PROVE  /\ M2[a][x] \in MeaningType
               /\ M2[a][x].in = NoClass => M2[a][x] = Nothing
               /\ M2[a][x].kind = "none" => M2[a][x].in = NoClass
               /\ x \in SpecialMethods => M2[a][x].scope = "public" /\ M2[a][x].kind # "data"
               /\ x = "toPrimitive" =>
                     M2[a][x].in = a /\ M2[a][x].kind = "method" /\ M2[a][x].virtual
    <3>1. CASE x = n BY <1>1, <3>1 DEF Given, Says
    <3>2. CASE x # n BY <1>1, <1>8, <1>9, <3>2 DEF SoundIn
    <3>3. QED BY <3>1, <3>2
  <2>2. ASSUME NEW x \in Names, M2[a][x].in # NoClass
        PROVE  M2[a][x].in \in DOMAIN M2 /\ M2[M2[a][x].in][x] = M2[a][x]
    <3>1. CASE x = n BY <1>8, <1>9, <3>1 DEF Says
    <3>2. CASE x # n
      <4>1. M2[a][x] = M[a][x] BY <1>8, <1>9, <3>2
      <4>2. M[a][x].in \in DOMAIN M /\ M[M[a][x].in][x] = M[a][x] BY <1>1, <2>2, <4>1 DEF SoundIn
      <4>3. M2[M[a][x].in][x] = M[M[a][x].in][x] BY <1>8, <3>2, <4>2
      <4>4. QED BY <1>8, <4>1, <4>2, <4>3
    <3>3. QED BY <3>1, <3>2
  <2>3. QED BY <1>1, <1>8, <1>9, <2>1, <2>2 DEF SoundIn
<1>11. Objects(M2, heap2)
  <2>1. ASSUME NEW j \in DOMAIN heap PROVE ObjectOf(M2, heap2[j])
    <3> DEFINE o == Origin(heap[j])
               x == heap[j].name
    <3>1. ObjectOf(M, heap[j]) /\ x \in Names BY <1>1, ReadyHeap DEF Objects
    <3>2. o \in DOMAIN M /\ M[o][x].in = o BY <3>1 DEF ObjectOf
    <3>3. M2[o][x] = M[o][x]
      <4>1. CASE o # a \/ x # n BY <1>1, <1>8, <3>1, <3>2, <4>1
      <4>2. CASE o = a /\ x = n BY <3>2, <4>2 DEF Says
      <4>3. QED BY <4>1, <4>2
    <3>4. QED BY <1>5, <1>8, <3>1, <3>3 DEF ObjectOf
  <2>2. ObjectOf(M2, heap2[i])
    <3>1. object.virtual = M2[a][n].virtual BY DEF object, Says
    <3>2. a # NoClass BY <1>1
    <3>3. M2[a][n].scope = method.scope /\ M2[a][n].in = a /\ M2[a][n].kind = "method"
      BY DEF Says
    <3>4. QED BY <1>4, <1>5, <1>8, <1>9, <3>1, <3>2, <3>3 DEF ObjectOf
  <2>3. QED BY <1>5, <2>1, <2>2 DEF Objects
<1>12. c2.methods = {j \in c.methods : heap[j].name # n} \cup {i} BY DEF Without, i, Comes
<1>13. \A x \in Names : x # n => M2[a][x] = M[a][x] BY <1>8, <1>9
<1>14. \A j \in c.methods : heap2[j] = heap[j] /\ heap[j].name \in Names BY <1>5, ReadyHeap
<1>15. \A j \in c.members : dat[j].name \in Names BY <1>5, ReadyHeap DEF Names
<1>16. M[a][n].kind # "data" /\ M2[a][n].in = a /\ M2[a][n].kind = "method" BY DEF Says, Comes
<1>17. HoldsMethods(M2, heap2, c2)
  <2>1. ASSUME NEW j \in c2.methods
        PROVE  /\ M2[a][heap2[j].name].kind = "method"
               /\ M2[a][heap2[j].name].in = Origin(heap2[j])
               /\ Origin(heap2[j]) # a => heap2[j].inherited
    <3>1. CASE j = i BY <1>4, <1>5, <1>16, <3>1
    <3>2. CASE j \in c.methods /\ heap[j].name # n
      BY <1>1, <1>13, <1>14, <3>2 DEF HoldsMethods
    <3>3. QED BY <1>12, <3>1, <3>2
  <2>2. ASSUME NEW j \in c2.methods, NEW k \in c2.methods, heap2[j].name = heap2[k].name
        PROVE  j = k
    <3>1. heap2[i].name = n BY <1>4, <1>5
    <3>2. \A h \in c2.methods : h # i => h \in c.methods /\ heap2[h].name # n
      BY <1>12, <1>14
    <3>3. CASE j = i \/ k = i BY <2>2, <3>1, <3>2, <3>3
    <3>4. CASE j # i /\ k # i BY <1>1, <1>14, <2>2, <3>2, <3>4 DEF HoldsMethods
    <3>5. QED BY <3>3, <3>4
  <2>3. ASSUME NEW x \in Names, M2[a][x].kind = "method"
        PROVE  \E j \in c2.methods : heap2[j].name = x
    <3>1. CASE x = n BY <1>4, <1>5, <1>12, <3>1
    <3>2. CASE x # n
      <4>1. PICK j \in c.methods : heap[j].name = x
        BY <1>1, <1>13, <2>3, <3>2 DEF HoldsMethods
      <4>2. QED BY <1>12, <1>14, <3>2, <4>1
    <3>3. QED BY <3>1, <3>2
  <2>4. QED BY <1>7, <2>1, <2>2, <2>3 DEF HoldsMethods
<1>18. \A j \in c.members : M2[a][dat[j].name] = M[a][dat[j].name]
  BY <1>1, <1>13, <1>15, <1>16 DEF HoldsMembers
<1>19. HoldsMembers(M2, dat, c2)
  <2>1. \A x \in Names : M2[a][x].kind = "data" => M[a][x].kind = "data" BY <1>13, <1>16
  <2>2. QED BY <1>1, <1>7, <1>18, <2>1 DEF HoldsMembers
<1>20. Open(M2, heap2, dat, c2)
  <2>1. \A j \in c2.methods : Origin(heap2[j]) = a => ~heap2[j].inherited
    BY <1>1, <1>4, <1>5, <1>12, <1>14 DEF Open
  <2>2. QED BY <1>1, <1>7, <1>18, <2>1 DEF Open
<1>21. QED BY <1>1, <1>5, <1>6, <1>7, <1>10, <1>11, <1>17, <1>19, <1>20 DEF Ready

LEMMA DeclaredSays ==
    ASSUME NEW M, NEW M2, NEW a \in ClassNames, NEW method, Given(method, a),
           SoundIn(M, a), method.name # "toPrimitive", NEW own \in DeclarationType,
           M[a][method.name].in # a, Redeclares(M, M2, a, method.name),
           M2[a][method.name] = Declared(a, own, M[a][method.name]),
           own.kind = "method", own.scope = method.scope, own.virtual = method.virtual
    PROVE  Says(M, M2, a, method)
<1> DEFINE old == M[a][method.name]
           new == M2[a][method.name]
<1>1. method.name \in Names BY DEF Given, MethodType
<1>2. old \in MeaningType BY <1>1 DEF SoundIn
<1>3. new \in MeaningType BY <1>2, DeclaredType
<1>4. new.in = a /\ new.kind = "method" /\ new.scope = method.scope
      /\ new.virtual = (IF old.in = NoClass THEN method.virtual ELSE old.virtual)
  BY DEF Declared
<1>5. Settled(method, a, old).virtual = (IF old.in = NoClass THEN method.virtual ELSE old.virtual)
  BY DEF Settled
<1>6. QED BY <1>3, <1>4, <1>5 DEF Says

--------------------------------------------------------------------------------
(* The class that is being defined among the others. *)

\* No class has the last one as its parent.
LEMMA NoHeir ==
    ASSUME NEW cls, NEW ext, NEW dec, Lined(cls, dec), Tree(cls, ext),
           NEW i \in 1..Len(cls), NEW k \in 1..Len(cls),
           cls[k].name = UpOf(ext, cls[i].name)
    PROVE  k < i
<1>1. UpOf(ext, cls[i].name) # NoClass BY ClassesAssumption DEF Lined
<1>2. PICK h \in 1..(i - 1) : cls[h].name = UpOf(ext, cls[i].name) BY <1>1 DEF Lined, Tree
<1>3. h \in 1..Len(cls) /\ h < i BY <1>2 DEF Lined
<1>4. h = k BY <1>2, <1>3 DEF Lined, Tree
<1>5. QED BY <1>3, <1>4

LEMMA SoundInClass ==
    ASSUME NEW M, NEW cls, NEW ext, NEW dec, NEW tab, Lined(cls, dec),
           Tree(cls, ext), IsMeaning(M, ext, dec, tab), NEW i \in 1..Len(cls)
    PROVE  SoundIn(M, cls[i].name)
<1> DEFINE a == cls[i].name
<1>1. a \in ClassNames /\ i \in DOMAIN cls BY DEF Lined
<1>2. a \in DOMAIN M BY <1>1, ClassesAssumption DEF Tree, IsMeaning
<1>3. ASSUME NEW n \in Names
      PROVE  /\ M[a][n] \in MeaningType
             /\ M[a][n].in = NoClass => M[a][n] = Nothing
             /\ M[a][n].kind = "none" => M[a][n].in = NoClass
             /\ M[a][n].in # NoClass => M[a][n].in \in DOMAIN M /\ M[M[a][n].in][n] = M[a][n]
             /\ n \in SpecialMethods => M[a][n].scope = "public" /\ M[a][n].kind # "data"
             /\ n = "toPrimitive" => M[a][n].in = a /\ M[a][n].kind = "method" /\ M[a][n].virtual
  <2>1. Sound(M, cls, i, n) BY AllSound
  <2>2. \A k \in 1..i : k \in DOMAIN cls BY DEF Lined
  <2>3. \A k \in 1..i : cls[k].name \in DOMAIN M BY <2>2 DEF Tree, IsMeaning
  <2>4. M[a][n].kind = "none" => M[a][n].in = NoClass BY <2>1 DEF Sound, Nothing
  <2>5. QED BY <2>1, <2>3, <2>4 DEF Sound
<1>4. QED BY <1>1, <1>2, <1>3 DEF SoundIn

LEMMA CurrentReady ==
    ASSUME NEW M, NEW heap, NEW dat, NEW cls, NEW emi, NEW cal, NEW cur, NEW ext, NEW dec, NEW tab,
           Typed(heap, dat, cls, emi, cal, dec), Tree(cls, ext), Progress(cls, cur, tab, dec, ext),
           IsMeaning(M, ext, dec, tab), Objects(M, heap), Held(M, heap, dat, cls, cur, ext), cur # 0
    PROVE  /\ cur = Len(cls) /\ cur \in 1..Len(cls) /\ cur \in DOMAIN cls
           /\ Ready(M, heap, dat, cls[cur])
           /\ cls[cur].name \in ClassNames /\ cls[cur].name \in DOMAIN ext
           /\ cls[cur].name \notin DOMAIN tab
<1>1. Lined(cls, dec) BY TypedLined
<1>2. cur = Len(cls) /\ cur \in 1..Len(cls) /\ cur \in DOMAIN cls
  <2>1. cur = Len(cls) BY DEF Progress
  <2>2. Len(cls) \in Nat /\ Len(cls) # 0 /\ DOMAIN cls = 1..Len(cls) BY <1>1, <2>1 DEF Lined
  <2>3. Len(cls) \in 1..Len(cls) BY <2>2
  <2>4. QED BY <2>1, <2>2, <2>3
<1>3. cls[cur] \in ClassType(heap, dat) BY <1>2, ElementOfSeq DEF Typed
<1>4. SoundIn(M, cls[cur].name) BY <1>1, <1>2, SoundInClass
<1>5. HoldsMethods(M, heap, cls[cur]) /\ HoldsMembers(M, dat, cls[cur])
      /\ Open(M, heap, dat, cls[cur])
  BY <1>2 DEF Held
<1>6. cls[cur].name \in DOMAIN ext BY <1>2 DEF Tree
<1>7. cls[cur].name \notin DOMAIN tab BY DEF Progress
<1>8. QED BY <1>1, <1>2, <1>3, <1>4, <1>5, <1>6, <1>7 DEF Ready, Typed, Lined

Put(cls, cur, c) == [cls EXCEPT ![cur] = c]

\* A step of the class that is being defined leaves the others what they hold.
LEMMA CurrentStep ==
    ASSUME NEW M, NEW heap, NEW dat, NEW cls, NEW emi, NEW cal, NEW cur, NEW ext, NEW dec, NEW tab,
           Typed(heap, dat, cls, emi, cal, dec), Tree(cls, ext), Progress(cls, cur, tab, dec, ext),
           IsMeaning(M, ext, dec, tab), Objects(M, heap), Held(M, heap, dat, cls, cur, ext), cur # 0,
           NEW M2, NEW heap2, NEW dat2, NEW c2, NEW cls2, NEW cur2 \in {0, cur},
           Ready(M2, heap2, dat2, c2),
           c2.name = cls[cur].name, c2.parents = cls[cur].parents,
           Evolves(heap, heap2), EvolvesData(dat, dat2),
           \A b \in DOMAIN M, x \in Names : b # cls[cur].name => M2[b][x] = M[b][x],
           cls2 = Put(cls, cur, c2)
    PROVE  /\ Held(M2, heap2, dat2, cls2, cur2, ext) /\ Tree(cls2, ext)
           /\ cls2 \in Seq(ClassType(heap2, dat2)) /\ Len(cls2) = Len(cls)
           /\ DOMAIN cls2 = DOMAIN cls /\ \A i \in DOMAIN cls : cls2[i].name = cls[i].name
<1>1. Lined(cls, dec) BY TypedLined
<1>2. cur = Len(cls) /\ cur \in DOMAIN cls /\ DOMAIN cls = 1..Len(cls)
  BY <1>1, CurrentReady DEF Lined
<1>3. /\ DOMAIN cls2 = DOMAIN cls /\ cls2[cur] = c2
      /\ \A i \in DOMAIN cls : i # cur => cls2[i] = cls[i]
  BY <1>2 DEF Put
<1>4. \A i \in DOMAIN cls : cls2[i].name = cls[i].name BY <1>3
<1>5. \A i \in DOMAIN cls : GetParent(cls2[i]) = GetParent(cls[i]) BY <1>3 DEF GetParent
<1>6. Tree(cls2, ext)
  <2>1. \A i, k \in DOMAIN cls2 : cls2[i].name = cls2[k].name => i = k BY <1>3, <1>4 DEF Tree
  <2>2. DOMAIN ext = {cls2[i].name : i \in DOMAIN cls2} BY <1>3, <1>4 DEF Tree
  <2>3. ASSUME NEW i \in DOMAIN cls
        PROVE  /\ GetParent(cls2[i]) = ext[cls2[i].name]
               /\ \/ UpOf(ext, cls2[i].name) = NoClass
                  \/ \E k \in 1..(i - 1) : cls2[k].name = UpOf(ext, cls2[i].name)
    <3>1. \A k \in 1..(i - 1) : k \in DOMAIN cls
      <4>1. Len(cls) \in Nat /\ i \in 1..Len(cls) BY <1>1, <1>2 DEF Lined
      <4>2. QED BY <1>2, <4>1
    <3>2. QED BY <1>3, <1>4, <1>5, <3>1 DEF Tree
  <2>4. QED BY <1>3, <2>1, <2>2, <2>3 DEF Tree
<1>7. ASSUME NEW i \in DOMAIN cls, i # cur
      PROVE  HoldsMethods(M2, heap2, cls2[i]) /\ HoldsMembers(M2, dat2, cls2[i])
             /\ cls2[i] \in ClassType(heap2, dat2)
             /\ cls[i] \in ClassType(heap, dat)
  <2>1. cls[i] \in ClassType(heap, dat) BY <1>2, ElementOfSeq DEF Typed
  <2>2. cls[i].name # cls[cur].name BY <1>2, <1>7 DEF Tree
  <2>3. cls[i].name \in DOMAIN M BY DEF Tree, IsMeaning
  <2>4. \A n \in Names : M2[cls[i].name][n] = M[cls[i].name][n] BY <2>2, <2>3
  <2>5. HoldsMethods(M, heap, cls[i]) /\ HoldsMembers(M, dat, cls[i]) BY DEF Held
  <2>6. QED BY <1>3, <1>7, <2>1, <2>4, <2>5, HoldsOn
<1>8. c2 \in ClassType(heap2, dat2) /\ HoldsMethods(M2, heap2, c2) /\ HoldsMembers(M2, dat2, c2)
      /\ Open(M2, heap2, dat2, c2)
  BY DEF Ready
<1>9. \A i \in DOMAIN cls2 : HoldsMethods(M2, heap2, cls2[i]) /\ HoldsMembers(M2, dat2, cls2[i])
                             /\ cls2[i] \in ClassType(heap2, dat2)
  BY <1>3, <1>7, <1>8
<1>10. cls2 \in Seq(ClassType(heap2, dat2)) /\ Len(cls2) = Len(cls)
  <2> DEFINE T == ClassType(heap2, dat2)
  <2>1. cls2 = [i \in 1..Len(cls) |-> cls2[i]] BY <1>2, <1>3 DEF Put
  <2>2. \A i \in 1..Len(cls) : cls2[i] \in T BY <1>2, <1>3, <1>9
  <2>3. Len(cls) \in Nat BY <1>1 DEF Lined
  <2> HIDE DEF T
  <2>8. cls2 \in [1..Len(cls) -> T] BY <2>1, <2>2
  <2>9. cls2 \in Seq(T) BY <2>3, <2>8, SeqDef
  <2>4. cls2 \in Seq(ClassType(heap2, dat2)) BY <2>9 DEF T
  <2>5. Len(cls2) \in Nat /\ DOMAIN cls2 = 1..Len(cls2) BY <2>4, LenProperties
  <2>6. 1..Len(cls2) = 1..Len(cls) BY <1>2, <1>3, <2>5
  <2>7. QED BY <2>3, <2>4, <2>5, <2>6
<1>11. ASSUME NEW i \in DOMAIN cls2, NEW k \in DOMAIN cls2,
              cls2[k].name = UpOf(ext, cls2[i].name)
       PROVE  Hidden(heap2, dat2, cls2[k])
  <2>1. i \in 1..Len(cls) /\ k \in 1..Len(cls) /\ cls[k].name = UpOf(ext, cls[i].name)
    BY <1>2, <1>3, <1>4, <1>11
  <2>2. k < i BY <1>1, <2>1, NoHeir
  <2>3. k # cur
    <3>1. Len(cls) \in Nat /\ i <= Len(cls) BY <1>1, <2>1 DEF Lined
    <3>2. QED BY <1>2, <2>1, <2>2, <3>1
  <2>4. Hidden(heap, dat, cls[k]) BY <1>2, <2>1 DEF Held
  <2>5. k \in DOMAIN cls BY <1>3
  <2>6. QED BY <1>3, <1>7, <2>3, <2>4, <2>5, HiddenOn
<1>12. cur2 # 0 => Open(M2, heap2, dat2, cls2[cur2]) BY <1>3, <1>8
<1>13. Held(M2, heap2, dat2, cls2, cur2, ext) BY <1>9, <1>11, <1>12 DEF Held
<1>14. QED BY <1>3, <1>4, <1>6, <1>10, <1>13

Shaped(M, ext) == M = [b \in DOMAIN ext |-> [n \in Names |-> M[b][n]]]

Redeclare(M, a, n, d) == [M EXCEPT ![a] = [M[a] EXCEPT ![n] = d]]

LEMMA MeaningShaped ==
    ASSUME NEW M, NEW ext, NEW dec, NEW tab, IsMeaning(M, ext, dec, tab)
    PROVE  Shaped(M, ext) /\ DOMAIN M = DOMAIN ext
<1>1. DOMAIN M = DOMAIN ext BY DEF IsMeaning
<1>2. \A b \in DOMAIN ext : M[b] = [n \in Names |-> MeaningIn(M, ext, dec, tab, b, n)]
  BY DEF IsMeaning
<1>3. \A b \in DOMAIN ext : M[b] = [n \in Names |-> M[b][n]] BY <1>2
<1>4. M = [b \in DOMAIN ext |-> M[b]] BY DEF IsMeaning
<1>5. QED BY <1>1, <1>3, <1>4 DEF Shaped

LEMMA RedeclareIs ==
    ASSUME NEW M, NEW ext, Shaped(M, ext), NEW a \in DOMAIN ext, NEW n \in Names, NEW d
    PROVE  /\ Shaped(Redeclare(M, a, n, d), ext)
           /\ Redeclares(M, Redeclare(M, a, n, d), a, n)
           /\ Redeclare(M, a, n, d)[a][n] = d
<1> DEFINE N == Redeclare(M, a, n, d)
<1>1. DOMAIN M = DOMAIN ext /\ \A b \in DOMAIN ext : M[b] = [x \in Names |-> M[b][x]]
  BY DEF Shaped
<1>2. DOMAIN M[a] = Names BY <1>1
<1>3. DOMAIN N = DOMAIN ext /\ N[a] = [M[a] EXCEPT ![n] = d]
      /\ \A b \in DOMAIN ext : b # a => N[b] = M[b]
  BY <1>1 DEF Redeclare
<1>4. N[a][n] = d /\ \A x \in Names : x # n => N[a][x] = M[a][x] BY <1>2, <1>3
<1>5. N[a] = [x \in Names |-> N[a][x]] BY <1>2, <1>3
<1>6. \A b \in DOMAIN ext : N[b] = [x \in Names |-> N[b][x]] BY <1>1, <1>3, <1>5
<1>7. N = [b \in DOMAIN ext |-> N[b]] BY <1>1, <1>3 DEF Redeclare
<1> HIDE DEF N
<1>8. Shaped(N, ext) BY <1>3, <1>6, <1>7 DEF Shaped
<1>9. Redeclares(M, N, a, n) BY <1>1, <1>3, <1>4 DEF Redeclares
<1>10. QED BY <1>4, <1>8, <1>9 DEF N

\* When only the last class declares more, only its meanings change.
LEMMA MeaningChange ==
    ASSUME NEW M, NEW M2, NEW cls, NEW ext, NEW dec, NEW tab, NEW dec2, NEW tab2,
           Lined(cls, dec), Tree(cls, ext), IsMeaning(M, ext, dec, tab), Shaped(M2, ext),
           NEW a, Len(cls) # 0, a = cls[Len(cls)].name,
           \A b \in DOMAIN ext, n \in Names : b # a => M2[b][n] = M[b][n],
           \A b \in DOMAIN ext, n \in Names :
              b # a => /\ DeclaresIn(dec2, tab2, b, n) <=> DeclaresIn(dec, tab, b, n)
                       /\ DeclaresIn(dec, tab, b, n) =>
                             DeclarationIn(dec2, b, n) = DeclarationIn(dec, b, n),
           \A n \in Names : M2[a][n] = MeaningIn(M, ext, dec2, tab2, a, n)
    PROVE  IsMeaning(M2, ext, dec2, tab2)
<1>1. \A b \in DOMAIN ext : UpOf(ext, b) # a
  <2> SUFFICES ASSUME NEW b \in DOMAIN ext, UpOf(ext, b) = a PROVE FALSE OBVIOUS
  <2>1. PICK i \in 1..Len(cls) : cls[i].name = b BY DEF Tree, Lined
  <2>2. Len(cls) \in 1..Len(cls) BY DEF Lined
  <2>3. Len(cls) < i BY <2>1, <2>2, NoHeir
  <2>4. QED BY <2>1, <2>3 DEF Lined
<1>2. ASSUME NEW b \in DOMAIN ext, NEW n \in Names PROVE AboveIn(M2, ext, b, n) = AboveIn(M, ext, b, n)
  <2>1. UpOf(ext, b) = NoClass \/ UpOf(ext, b) \in DOMAIN ext
    <3>1. PICK i \in DOMAIN cls : cls[i].name = b BY DEF Tree
    <3>2. \A k \in 1..(i - 1) : k \in DOMAIN cls BY DEF Lined
    <3>3. QED BY <3>1, <3>2 DEF Tree
  <2>2. QED BY <1>1, <2>1 DEF AboveIn
<1>3. ASSUME NEW b \in DOMAIN ext, NEW n \in Names
      PROVE  M2[b][n] = MeaningIn(M2, ext, dec2, tab2, b, n)
  <2>1. MeaningIn(M2, ext, dec2, tab2, b, n) = MeaningIn(M, ext, dec2, tab2, b, n)
    BY <1>2 DEF MeaningIn
  <2>2. CASE b = a BY <2>1, <2>2
  <2>3. CASE b # a
    <3>1. M[b][n] = MeaningIn(M, ext, dec, tab, b, n) BY DEF IsMeaning
    <3>2. M2[b][n] = M[b][n] BY <2>3
    <3>3. MeaningIn(M, ext, dec2, tab2, b, n) = MeaningIn(M, ext, dec, tab, b, n)
      BY <2>3 DEF MeaningIn
    <3>4. QED BY <2>1, <3>1, <3>2, <3>3
  <2>4. QED BY <2>2, <2>3
<1>4. \A b \in DOMAIN ext :
         [n \in Names |-> M2[b][n]] = [n \in Names |-> MeaningIn(M2, ext, dec2, tab2, b, n)]
  BY <1>3
<1>5. M2 = [b \in DOMAIN ext |-> [n \in Names |-> M2[b][n]]] BY DEF Shaped
<1>6. QED BY <1>4, <1>5 DEF IsMeaning

LEMMA WrittenOn ==
    ASSUME NEW M, NEW M2, NEW emi, NEW tab, \A c \in DOMAIN tab, n \in Names : M2[c][n] = M[c][n]
    PROVE  /\ Written(M, emi, tab) => Written(M2, emi, tab)
           /\ Tables(M, tab) => Tables(M2, tab)
<1>1. Written(M, emi, tab) => Written(M2, emi, tab) BY DEF Written
<1>2. \A c \in DOMAIN tab : TableIn(M2, c) = TableIn(M, c)
  <2> TAKE c \in DOMAIN tab
  <2> DEFINE D  == {m \in Names : M[c][m].kind = "method" /\ M[c][m].virtual}
             D2 == {m \in Names : M2[c][m].kind = "method" /\ M2[c][m].virtual}
  <2>1. D2 = D OBVIOUS
  <2>2. \A n \in D : M2[c][n] = M[c][n] OBVIOUS
  <2> HIDE DEF D, D2
  <2>3. [n \in D2 |-> <<M2[c][n].in, n>>] = [n \in D |-> <<M[c][n].in, n>>] BY <2>1, <2>2
  <2>4. QED BY <2>3 DEF TableIn, D, D2
<1>3. QED BY <1>1, <1>2 DEF Tables

--------------------------------------------------------------------------------
(* A method definition. *)

Accept(dec, c, n, d) == Extend(dec, <<c, n>>, d)

\* The declaration says what the method says.
Fits(method, d) ==
    /\ d \in DeclarationType
    /\ d.kind = "method" /\ d.scope = method.scope
    /\ method.name \notin SpecialMethods => d.virtual = method.virtual
    /\ method.name \in SpecialMethods =>
          \/ method.name = "toPrimitive"
          \/ method.name \in Runners /\ method.virtual = (method.name = "__destructor")

\* What changes when a declaration of n in a is accepted.
LEMMA DeclaresMore ==
    ASSUME NEW dec, NEW tab, NEW a, NEW n, NEW d
    PROVE  /\ DeclaresIn(Accept(dec, a, n, d), tab, a, n)
           /\ n \notin SpecialMethods => DeclarationIn(Accept(dec, a, n, d), a, n) = d
<1> DEFINE key  == <<a, n>>
           dec2 == Extend(dec, key, d)
<1> HIDE DEF key
<1>1. key \in DOMAIN dec2 /\ dec2[key] = d BY DEF Extend
<1>2. Accept(dec, a, n, d) = dec2 BY DEF Accept, key
<1> HIDE DEF dec2
<1>3. <<a, n>> \in DOMAIN dec2 /\ dec2[<<a, n>>] = d BY <1>1 DEF key
<1>4. QED BY <1>2, <1>3 DEF DeclaresIn, DeclarationIn

LEMMA DeclaresOther ==
    ASSUME NEW dec, NEW tab, NEW a, NEW n, NEW d, NEW b, NEW x, b # a \/ x # n
    PROVE  /\ DeclaresIn(Accept(dec, a, n, d), tab, b, x) <=> DeclaresIn(dec, tab, b, x)
           /\ DeclaresIn(dec, tab, b, x) =>
                 DeclarationIn(Accept(dec, a, n, d), b, x) = DeclarationIn(dec, b, x)
<1> DEFINE key  == <<a, n>>
           dec2 == Extend(dec, key, d)
<1> HIDE DEF key
<1>1. DOMAIN dec2 = DOMAIN dec \cup {key} /\ \A k \in DOMAIN dec : k # key => dec2[k] = dec[k]
  BY DEF Extend
<1>2. Accept(dec, a, n, d) = dec2 BY DEF Accept, key
<1> HIDE DEF dec2
<1>3. <<b, x>> # key BY DEF key
<1>4. <<b, x>> \in DOMAIN dec2 <=> <<b, x>> \in DOMAIN dec BY <1>1, <1>3
<1>5. <<b, x>> \in DOMAIN dec => dec2[<<b, x>>] = dec[<<b, x>>] BY <1>1, <1>3
<1>6. DeclaresIn(dec, tab, b, x) => x \in SpecialMethods \/ <<b, x>> \in DOMAIN dec
  BY DEF DeclaresIn, SpecialMethods
<1>7. QED BY <1>2, <1>4, <1>5, <1>6 DEF DeclaresIn, DeclarationIn

\* When a declaration is accepted, its class's meanings are these.
LEMMA MeaningDeclared ==
    ASSUME NEW M, NEW M2, NEW cls, NEW ext, NEW dec, NEW tab, NEW dec2,
           Lined(cls, dec), Tree(cls, ext), IsMeaning(M, ext, dec, tab),
           NEW a, Len(cls) # 0, a = cls[Len(cls)].name, NEW n \in Names, NEW d,
           dec2 = Accept(dec, a, n, d),
           Shaped(M2, ext), Redeclares(M, M2, a, n),
           \/ n = "toPrimitive" /\ M2[a][n] = M[a][n]
           \/ M[a][n].in # a /\ M2[a][n] = Declared(a, DeclarationIn(dec2, a, n), M[a][n])
    PROVE  IsMeaning(M2, ext, dec2, tab)
<1>1. Len(cls) \in 1..Len(cls) /\ Len(cls) \in DOMAIN cls BY DEF Lined
<1>2. DOMAIN M = DOMAIN ext BY MeaningShaped
<1>3. /\ DeclaresIn(dec2, tab, a, n)
      /\ \A b, x : b # a \/ x # n =>
            /\ DeclaresIn(dec2, tab, b, x) <=> DeclaresIn(dec, tab, b, x)
            /\ DeclaresIn(dec, tab, b, x) => DeclarationIn(dec2, b, x) = DeclarationIn(dec, b, x)
  <2>1. DeclaresIn(dec2, tab, a, n) BY DeclaresMore
  <2>2. ASSUME NEW b, NEW x, b # a \/ x # n
        PROVE  /\ DeclaresIn(dec2, tab, b, x) <=> DeclaresIn(dec, tab, b, x)
               /\ DeclaresIn(dec, tab, b, x) => DeclarationIn(dec2, b, x) = DeclarationIn(dec, b, x)
    BY <2>2, DeclaresOther
  <2>3. QED BY <2>1, <2>2
<1>4. a \in DOMAIN ext BY <1>1 DEF Tree
<1>5. ASSUME NEW x \in Names PROVE M2[a][x] = MeaningIn(M, ext, dec2, tab, a, x)
  <2>1. M[a][x] = MeaningIn(M, ext, dec, tab, a, x) BY <1>1, MeaningAt
  <2>2. CASE x # n
    <3>1. M2[a][x] = M[a][x] BY <1>2, <1>4, <2>2 DEF Redeclares
    <3>2. QED BY <1>3, <2>1, <2>2, <3>1 DEF MeaningIn
  <2>3. CASE x = n /\ n = "toPrimitive" /\ M2[a][n] = M[a][n]
    <3>1. DeclaresIn(dec, tab, a, n) BY <2>3 DEF DeclaresIn
    <3>2. DeclarationIn(dec2, a, n) = DeclarationIn(dec, a, n)
      BY <2>3 DEF DeclarationIn, SpecialMethods
    <3>3. QED BY <1>3, <2>1, <2>3, <3>1, <3>2 DEF MeaningIn
  <2>4. CASE x = n /\ M[a][n].in # a /\ M2[a][n] = Declared(a, DeclarationIn(dec2, a, n), M[a][n])
    <3>1. M[a][n] = AboveIn(M, ext, a, n) BY <1>1, <2>4, OwnMeaning
    <3>2. QED BY <1>3, <2>4, <3>1 DEF MeaningIn
  <2>5. QED BY <2>2, <2>3, <2>4
<1>6. \A b \in DOMAIN ext, x \in Names : b # a => M2[b][x] = M[b][x]
  BY <1>2 DEF Redeclares
<1>7. QED BY <1>3, <1>5, <1>6, MeaningChange

\* What is typed, and in a tree, is so after the class that is being defined has changed.
LEMMA CurrentTyped ==
    ASSUME NEW heap, NEW dat, NEW cls, NEW emi, NEW cal, NEW dec,
           Typed(heap, dat, cls, emi, cal, dec),
           NEW heap2 \in Seq(MethodType), NEW dat2 \in Seq(MemberType),
           NEW cls2 \in Seq(ClassType(heap2, dat2)), NEW a \in ClassNames, NEW n \in Names,
           NEW d \in DeclarationType, DOMAIN heap \subseteq DOMAIN heap2,
           NEW dec2, dec2 = Accept(dec, a, n, d)
    PROVE  Typed(heap2, dat2, cls2, emi, cal, dec2)
<1>1. \A k \in DOMAIN dec2 : dec2[k] \in DeclarationType BY DEF Accept, Extend, Typed
<1>2. emi \subseteq [of : ClassNames, name : Names, from : DOMAIN heap2] BY DEF Typed
<1>3. QED BY <1>1, <1>2 DEF Typed

LEMMA CurrentProgress ==
    ASSUME NEW cls, NEW cls2, NEW cur, NEW tab, NEW dec, NEW dec2, NEW ext,
           Progress(cls, cur, tab, dec, ext), cur # 0, Len(cls2) = Len(cls),
           cls2[cur].name = cls[cur].name,
           NEW n \in Names \ SystemMethods, NEW d, dec2 = Accept(dec, cls[cur].name, n, d),
           cls[cur].name \in ClassNames
    PROVE  Progress(cls2, cur, tab, dec2, ext)
<1> DEFINE a == cls[cur].name
<1>1. ASSUME NEW k \in DOMAIN dec2
      PROVE  \E c \in ClassNames, x \in Names \ SystemMethods :
                k = <<c, x>> /\ (c \in DOMAIN tab \/ (cur # 0 /\ c = cls2[cur].name))
  <2>1. k \in DOMAIN dec \/ k = <<a, n>> BY DEF Accept, Extend
  <2>2. CASE k = <<a, n>> BY <2>2
  <2>3. CASE k \in DOMAIN dec BY <2>3 DEF Progress
  <2>4. QED BY <2>1, <2>2, <2>3
<1>2. QED BY <1>1 DEF Progress

\* The state after a declaration of n in the class that is being defined.
After(M, M2, heap2, dat2, cls2, cur, emi, cal, tab, dec2, ext) ==
    /\ Typed(heap2, dat2, cls2, emi, cal, dec2)
    /\ Tree(cls2, ext) /\ Progress(cls2, cur, tab, dec2, ext)
    /\ IsMeaning(M2, ext, dec2, tab) /\ Objects(M2, heap2)
    /\ Held(M2, heap2, dat2, cls2, cur, ext)
    /\ Written(M2, emi, tab) /\ Tables(M2, tab)
    /\ \A c \in DOMAIN ext, n \in Names : AboveIn(M2, ext, c, n) = AboveIn(M, ext, c, n)

OnlyIn(M, M2, a) == \A b \in DOMAIN M, x \in Names : b # a => M2[b][x] = M[b][x]

SameAbove(M, M2, ext) ==
    \A c \in DOMAIN ext, x \in Names : AboveIn(M2, ext, c, x) = AboveIn(M, ext, c, x)

\* What is above a class does not change with the last one.
LEMMA AboveSame ==
    ASSUME NEW M, NEW M2, NEW cls, NEW ext, NEW dec, Lined(cls, dec), Tree(cls, ext),
           Len(cls) # 0, DOMAIN M = DOMAIN ext, OnlyIn(M, M2, cls[Len(cls)].name)
    PROVE  SameAbove(M, M2, ext)
<1> SUFFICES ASSUME NEW c \in DOMAIN ext, NEW x \in Names
             PROVE  AboveIn(M2, ext, c, x) = AboveIn(M, ext, c, x)
  BY DEF SameAbove
<1>1. PICK i \in 1..Len(cls) : cls[i].name = c BY DEF Tree, Lined
<1>2. \A k \in 1..(i - 1) : k \in 1..Len(cls) /\ k \in DOMAIN cls BY DEF Lined
<1>3. UpOf(ext, c) = NoClass \/ UpOf(ext, c) \in DOMAIN ext BY <1>1, <1>2 DEF Tree, Lined
<1>4. UpOf(ext, c) # cls[Len(cls)].name
  <2> SUFFICES ASSUME UpOf(ext, c) = cls[Len(cls)].name PROVE FALSE OBVIOUS
  <2>1. Len(cls) \in 1..Len(cls) BY DEF Lined
  <2>2. Len(cls) < i BY <1>1, <2>1, NoHeir
  <2>3. QED BY <1>1, <2>2 DEF Lined
<1>5. QED BY <1>3, <1>4 DEF AboveIn, OnlyIn

LEMMA DeclaredAfter ==
    ASSUME NEW M, NEW heap, NEW dat, NEW cls, NEW emi, NEW cal, NEW cur, NEW ext, NEW dec, NEW tab,
           Typed(heap, dat, cls, emi, cal, dec), Tree(cls, ext), Progress(cls, cur, tab, dec, ext),
           IsMeaning(M, ext, dec, tab), Objects(M, heap), Held(M, heap, dat, cls, cur, ext), cur # 0,
           Written(M, emi, tab), Tables(M, tab),
           NEW M2, NEW heap2, NEW dat2, NEW c2, NEW cls2, NEW a, NEW n \in Names \ SystemMethods,
           NEW d \in DeclarationType, NEW dec2, dec2 = Accept(dec, a, n, d),
           a = cls[cur].name, Shaped(M2, ext), Redeclares(M, M2, a, n),
           \/ n = "toPrimitive" /\ M2[a][n] = M[a][n]
           \/ M[a][n].in # a /\ M2[a][n] = Declared(a, DeclarationIn(dec2, a, n), M[a][n]),
           Ready(M2, heap2, dat2, c2),
           c2.name = cls[cur].name, c2.parents = cls[cur].parents,
           Evolves(heap, heap2), EvolvesData(dat, dat2), cls2 = Put(cls, cur, c2)
    PROVE  After(M, M2, heap2, dat2, cls2, cur, emi, cal, tab, dec2, ext)
<1>1. Lined(cls, dec) BY TypedLined
<1>2. /\ cur = Len(cls) /\ cur \in 1..Len(cls) /\ cur \in DOMAIN cls
      /\ a \in ClassNames /\ a \in DOMAIN ext /\ a \notin DOMAIN tab
  BY CurrentReady
<1>3. IsMeaning(M2, ext, dec2, tab) BY <1>1, <1>2, MeaningDeclared
<1>4. DOMAIN M = DOMAIN ext BY MeaningShaped
<1>5. \A b \in DOMAIN M, x \in Names : b # cls[cur].name => M2[b][x] = M[b][x] BY DEF Redeclares
<1>6. cur \in {0, cur} OBVIOUS
<1>7. /\ Held(M2, heap2, dat2, cls2, cur, ext) /\ Tree(cls2, ext)
      /\ cls2 \in Seq(ClassType(heap2, dat2)) /\ Len(cls2) = Len(cls)
      /\ DOMAIN cls2 = DOMAIN cls /\ \A i \in DOMAIN cls : cls2[i].name = cls[i].name
  BY <1>5, <1>6, CurrentStep
<1>8. heap2 \in Seq(MethodType) /\ dat2 \in Seq(MemberType) /\ Objects(M2, heap2) BY DEF Ready
<1>9. DOMAIN heap \subseteq DOMAIN heap2 BY DEF Evolves
<1>10. Typed(heap2, dat2, cls2, emi, cal, dec2) BY <1>2, <1>7, <1>8, <1>9, CurrentTyped
<1>11. Progress(cls2, cur, tab, dec2, ext) BY <1>2, <1>7, CurrentProgress
<1>12. \A c \in DOMAIN tab, x \in Names : M2[c][x] = M[c][x] BY <1>2, <1>4, <1>5 DEF Progress
<1>13. Written(M2, emi, tab) /\ Tables(M2, tab) BY <1>12, WrittenOn
<1>14. SameAbove(M, M2, ext)
  <2>1. OnlyIn(M, M2, cls[Len(cls)].name) BY <1>2, <1>5 DEF OnlyIn
  <2>2. Len(cls) # 0 BY <1>2
  <2>3. QED BY <1>1, <1>4, <2>1, <2>2, AboveSame
<1>15. QED BY <1>3, <1>7, <1>8, <1>10, <1>11, <1>13, <1>14 DEF After, SameAbove

LEMMA GoodReady ==
    ASSUME NEW M, NEW heap, NEW dat, NEW cls, NEW cur, NEW emi, NEW cal, NEW tab, NEW dec, NEW ext,
           Good(M, heap, dat, cls, cur, emi, cal, tab, dec, ext), cur # 0
    PROVE  /\ Lined(cls, dec)
           /\ cur = Len(cls) /\ cur \in 1..Len(cls) /\ cur \in DOMAIN cls
           /\ Ready(M, heap, dat, cls[cur]) /\ SoundIn(M, cls[cur].name)
           /\ cls[cur].name \in ClassNames /\ cls[cur].name \in DOMAIN ext
           /\ cls[cur].name \notin DOMAIN tab
           /\ Shaped(M, ext) /\ DOMAIN M = DOMAIN ext
<1>1. Lined(cls, dec) BY TypedLined DEF Good
<1>2. /\ cur = Len(cls) /\ cur \in 1..Len(cls) /\ cur \in DOMAIN cls
      /\ Ready(M, heap, dat, cls[cur])
      /\ cls[cur].name \in ClassNames /\ cls[cur].name \in DOMAIN ext
      /\ cls[cur].name \notin DOMAIN tab
  BY CurrentReady DEF Good
<1>3. Shaped(M, ext) /\ DOMAIN M = DOMAIN ext BY MeaningShaped DEF Good
<1>4. QED BY <1>1, <1>2, <1>3 DEF Ready

LEMMA SameAfter ==
    ASSUME NEW M, NEW heap, NEW dat, NEW cls, NEW cur, NEW emi, NEW cal, NEW tab, NEW dec, NEW ext,
           Good(M, heap, dat, cls, cur, emi, cal, tab, dec, ext)
    PROVE  After(M, M, heap, dat, cls, cur, emi, cal, tab, dec, ext)
  BY DEF Good, After

\* The method is accepted.
LEMMA AcceptMethod ==
    ASSUME NEW M, NEW heap, NEW dat, NEW cls, NEW cur, NEW emi, NEW cal, NEW tab, NEW dec, NEW ext,
           Good(M, heap, dat, cls, cur, emi, cal, tab, dec, ext), cur # 0,
           NEW method, Given(method, cls[cur].name), NEW d, Fits(method, d),
           NEW heap2, NEW c2, Comes(M, heap, cls[cur], method, heap2, c2)
    PROVE  \E M2 : After(M, M2, heap2, dat, Put(cls, cur, c2), cur, emi, cal, tab,
                         Accept(dec, cls[cur].name, method.name, d), ext)
<1> DEFINE c    == cls[cur]
           a    == c.name
           n    == method.name
           old  == M[a][n]
           dec2 == Accept(dec, a, n, d)
           own  == DeclarationIn(dec2, a, n)
           M2   == IF n = "toPrimitive" THEN M ELSE Redeclare(M, a, n, Declared(a, own, old))
<1>1. /\ cur = Len(cls) /\ cur \in 1..Len(cls) /\ cur \in DOMAIN cls
      /\ Ready(M, heap, dat, c) /\ SoundIn(M, a)
      /\ a \in ClassNames /\ a \in DOMAIN ext /\ a \notin DOMAIN tab
      /\ Shaped(M, ext) /\ DOMAIN M = DOMAIN ext
  BY GoodReady
<1>2. n \in Names /\ method \in MethodType /\ d \in DeclarationType BY DEF Given, MethodType, Fits
<1>3. old.kind # "data" /\ (old.in # a \/ n = "toPrimitive") BY DEF Comes
<1>4. c2.name = a /\ c2.parents = c.parents
  <2>1. c \in ClassType(heap, dat) BY <1>1 DEF Ready
  <2>2. QED BY <2>1 DEF Comes, ClassType
<1>5. Shaped(M2, ext) /\ Says(M, M2, a, method) /\ Redeclares(M, M2, a, n)
      /\ (\/ n = "toPrimitive" /\ M2[a][n] = M[a][n]
          \/ M[a][n].in # a /\ M2[a][n] = Declared(a, own, M[a][n]))
  <2>1. CASE n = "toPrimitive"
    <3>1. M2 = M BY <2>1
    <3>2. Redeclares(M, M, a, n) BY DEF Redeclares
    <3>3. old \in MeaningType /\ old.in = a /\ old.kind = "method" /\ old.virtual
          /\ old.scope = "public"
      BY <1>1, <1>2, <2>1 DEF SoundIn, SpecialMethods
    <3>4. method.scope = "public" BY <2>1 DEF Given, SpecialMethods
    <3>5. Settled(method, a, old).virtual = old.virtual
      <4>1. old.in # NoClass BY <1>1, <3>3, ClassesAssumption
      <4>2. QED BY <4>1 DEF Settled
    <3> HIDE DEF M2, own
    <3>6. QED BY <1>1, <2>1, <3>1, <3>2, <3>3, <3>4, <3>5 DEF Says
  <2>2. CASE n # "toPrimitive"
    <3>1. M2 = Redeclare(M, a, n, Declared(a, own, old)) BY <2>2
    <3>2. own \in DeclarationType /\ own.kind = "method" /\ own.scope = method.scope
          /\ own.virtual = method.virtual
      <4>1. CASE n \notin SpecialMethods
        <5>1. own = d BY <4>1, DeclaresMore
        <5>2. QED BY <4>1, <5>1 DEF Fits
      <4>2. CASE n \in SpecialMethods
        <5>1. n \in Runners /\ method.virtual = (n = "__destructor") BY <2>2, <4>2 DEF Fits
        <5>2. own = [kind |-> "method", scope |-> "public",
                     virtual |-> n \notin {"__constructor", "__new"}]
          BY <4>2 DEF DeclarationIn
        <5>3. method.scope = "public" BY <4>2 DEF Given
        <5>4. (n \notin {"__constructor", "__new"}) = (n = "__destructor") BY <5>1 DEF Runners
        <5> HIDE DEF own
        <5>5. QED BY <5>1, <5>2, <5>3, <5>4 DEF DeclarationType, Scopes
      <4>3. QED BY <4>1, <4>2
    <3> HIDE DEF M2, own
    <3>3. Shaped(M2, ext) /\ Redeclares(M, M2, a, n) /\ M2[a][n] = Declared(a, own, old)
      BY <1>1, <1>2, <3>1, RedeclareIs
    <3>4. Says(M, M2, a, method) BY <1>1, <1>3, <2>2, <3>2, <3>3, DeclaredSays
    <3>5. QED BY <1>3, <2>2, <3>3, <3>4
  <2>3. QED BY <2>1, <2>2
<1> HIDE DEF M2, own
<1>6. Ready(M2, heap2, dat, c2) /\ Evolves(heap, heap2)
  BY <1>1, <1>5, ReadyAfterMethod
<1>7. EvolvesData(dat, dat)
  <2>1. \A j \in DOMAIN dat : dat[j].name \in Names BY <1>1, ReadyHeap DEF Names
  <2>2. QED BY <2>1 DEF EvolvesData
<1>8. n \notin SystemMethods BY DEF Fits, Runners, SystemMethods, SpecialMethods
<1>9. After(M, M2, heap2, dat, Put(cls, cur, c2), cur, emi, cal, tab, dec2, ext)
  BY <1>2, <1>4, <1>5, <1>6, <1>7, <1>8, DeclaredAfter DEF Good, own
<1>10. QED BY <1>9

\* A call that is bound by the compiler goes to the class that the meaning comes from.
LEMMA StaticTargetIs ==
    ASSUME NEW M, NEW dat, NEW cls, NEW cur, NEW emi, NEW cal, NEW tab, NEW dec, NEW ext,
           Good(M, meth, dat, cls, cur, emi, cal, tab, dec, ext),
           NEW i \in DOMAIN cls, NEW n \in Names
    PROVE  StaticTarget(cls[i], n) =
              IF M[cls[i].name][n].kind = "method" THEN M[cls[i].name][n].in ELSE NoClass
<1> DEFINE c == cls[i]
           a == c.name
           m == M[a][n]
<1>1. Lined(cls, dec) BY TypedLined DEF Good
<1>2. i \in 1..Len(cls) BY <1>1 DEF Lined
<1>3. SoundIn(M, a) BY <1>1, <1>2, SoundInClass DEF Good
<1>4. HoldsMethods(M, meth, c) /\ Objects(M, meth) BY DEF Good, Held
<1>5. c \in ClassType(meth, dat) BY <1>2, ElementOfSeq DEF Good, Typed
<1>6. c.methods \subseteq DOMAIN meth BY <1>5 DEF ClassType
<1>7. CASE m.kind # "method"
  <2>1. Named(meth, c.methods, n) = {} BY <1>4, <1>7 DEF HoldsMethods, Named
  <2>2. QED BY <1>7, <2>1 DEF StaticTarget
<1>8. CASE m.kind = "method"
  <2>1. PICK j \in c.methods : meth[j].name = n BY <1>4, <1>8 DEF HoldsMethods
  <2>2. Named(meth, c.methods, n) = {j} BY <1>4, <2>1 DEF HoldsMethods, Named
  <2>3. (CHOOSE k \in {j} : TRUE) = j OBVIOUS
  <2>4. StaticTarget(c, n) = IF meth[j].owner = NoClass THEN c.name ELSE meth[j].owner
    BY <2>2, <2>3 DEF StaticTarget
  <2>5. Origin(meth[j]) = m.in BY <1>4, <2>1 DEF HoldsMethods
  <2>6. CASE meth[j].owner = NoClass
    <3>1. ObjectOf(M, meth[j]) BY <1>4, <1>6 DEF Objects
    <3>2. n = "toPrimitive" BY <2>1, <2>6, <3>1 DEF ObjectOf
    <3>3. m.in = a BY <1>3, <3>2 DEF SoundIn
    <3>4. QED BY <1>8, <2>4, <2>6, <3>3
  <2>7. CASE meth[j].owner # NoClass BY <1>8, <2>4, <2>5, <2>7 DEF Origin
  <2>8. QED BY <2>6, <2>7
<1>9. QED BY <1>7, <1>8

LEMMA ClassOfIs ==
    ASSUME NEW cls, NEW ext, Tree(cls, ext), NEW i \in DOMAIN cls
    PROVE  ClassOf(cls, cls[i].name) = cls[i]
<1>1. (CHOOSE k \in DOMAIN cls : cls[k].name = cls[i].name) = i BY DEF Tree
<1>2. QED BY <1>1 DEF ClassOf

LEMMA RunnerTarget ==
    ASSUME NEW M, NEW dat, NEW cls, NEW cur, NEW emi, NEW cal, NEW tab, NEW dec, NEW ext,
           Good(M, meth, dat, cls, cur, emi, cal, tab, dec, ext),
           NEW i \in DOMAIN cls, NEW n \in Runners
    PROVE  StaticTarget(cls[i], n) = M[cls[i].name][n].in
<1>1. n \in Names /\ n \in SpecialMethods BY DEF Runners, Names, SpecialMethods
<1>2. Lined(cls, dec) BY TypedLined DEF Good
<1>3. i \in 1..Len(cls) BY <1>2 DEF Lined
<1>4. SoundIn(M, cls[i].name) BY <1>2, <1>3, SoundInClass DEF Good
<1>5. /\ M[cls[i].name][n].kind # "method" => M[cls[i].name][n].in = NoClass
  BY <1>1, <1>4 DEF SoundIn, MeaningType
<1>6. QED BY <1>1, <1>5, StaticTargetIs

\* What the constructor or destructor calls that has just been accepted.
LEMMA ParentCallIs ==
    ASSUME NEW M, Good(M, meth, data, class, current, emitted, calls, vTable, decl, extends),
           current # 0, NEW n \in Runners, M[class[current].name][n].in # class[current].name
    PROVE  ParentCall(n) = AboveIn(M, extends, class[current].name, n).in
<1> DEFINE a  == class[current].name
           up == GetParent(class[current])
<1>1. Lined(class, decl) /\ current \in DOMAIN class /\ current \in 1..Len(class)
      /\ a \in ClassNames
  BY GoodReady
<1>2. Tree(class, extends) BY DEF Good
<1>3. up = extends[a] BY <1>1, <1>2 DEF Tree
<1>4. n \in Names BY DEF Runners, Names, SpecialMethods
<1>5. CASE up = NoClass
  <2>1. UpOf(extends, a) = NoClass BY <1>3, <1>5 DEF UpOf
  <2>2. QED BY <1>5, <2>1 DEF ParentCall, AboveIn, Nothing
<1>6. CASE up = a
  <2>1. ParentCall(n) = StaticTarget(ClassOf(class, a), n)
    BY <1>1, <1>6, ClassesAssumption DEF ParentCall
  <2>2. ParentCall(n) = M[a][n].in BY <1>1, <1>2, <2>1, ClassOfIs, RunnerTarget
  <2>3. M[a][n] = AboveIn(M, extends, a, n) BY <1>1, <1>4, OwnMeaning DEF Good
  <2>4. QED BY <2>2, <2>3
<1>7. CASE up # NoClass /\ up # a
  <2>1. UpOf(extends, a) = up BY <1>3, <1>7 DEF UpOf
  <2>2. PICK k \in 1..(current - 1) : class[k].name = up BY <1>1, <1>2, <1>7, <2>1 DEF Tree
  <2>3. k \in DOMAIN class
    <3>1. Len(class) \in Nat /\ DOMAIN class = 1..Len(class) BY <1>1 DEF Lined
    <3>2. QED BY <1>1, <2>2, <3>1
  <2>4. ParentCall(n) = StaticTarget(ClassOf(class, up), n) BY <1>7 DEF ParentCall
  <2>5. ClassOf(class, up) = class[k] BY <1>2, <2>2, <2>3, ClassOfIs
  <2>6. ParentCall(n) = M[up][n].in BY <2>2, <2>3, <2>4, <2>5, RunnerTarget
  <2>7. QED BY <1>7, <2>1, <2>6 DEF AboveIn
<1>8. QED BY <1>5, <1>6, <1>7

LEMMA AboveType ==
    ASSUME NEW M, NEW cls, NEW ext, NEW dec, NEW tab, Lined(cls, dec),
           Tree(cls, ext), IsMeaning(M, ext, dec, tab), NEW i \in 1..Len(cls), NEW n \in Names
    PROVE  AboveIn(M, ext, cls[i].name, n) \in MeaningType
<1> DEFINE u == UpOf(ext, cls[i].name)
<1>1. CASE u = NoClass BY <1>1, NothingType DEF AboveIn
<1>2. CASE u # NoClass
  <2>1. PICK k \in 1..(i - 1) : cls[k].name = u BY <1>2 DEF Tree, Lined
  <2>2. k \in 1..Len(cls) BY <2>1 DEF Lined
  <2>3. M[u][n] \in MeaningType BY <2>1, <2>2, SoundInClass DEF SoundIn
  <2>4. QED BY <1>2, <2>3 DEF AboveIn
<1>3. QED BY <1>1, <1>2

LEMMA AfterGood ==
    ASSUME NEW M, NEW M2, NEW heap, NEW dat, NEW cls, NEW cur, NEW emi, NEW cal, NEW tab, NEW dec,
           NEW ext, After(M, M2, heap, dat, cls, cur, emi, cal, tab, dec, ext)
    PROVE  Good(M2, heap, dat, cls, cur, emi, cal, tab, dec, ext)
  BY DEF Good, After

\* The declaration of anything but a constructor or a destructor leaves the calls.
LEMMA CallsKept ==
    ASSUME NEW M, NEW M2, NEW cal, NEW dec, NEW ext, NEW a, NEW n, NEW d, CallsUp(M, cal, dec, ext),
           n \notin Runners,
           \A c \in DOMAIN ext, x \in Names : AboveIn(M2, ext, c, x) = AboveIn(M, ext, c, x)
    PROVE  CallsUp(M2, cal, Accept(dec, a, n, d), ext)
<1> DEFINE dec2 == Accept(dec, a, n, d)
<1>1. \A k \in DOMAIN dec : k \in DOMAIN dec2 BY DEF Accept, Extend
<1>2. ASSUME NEW c, NEW x \in Runners, <<c, x>> \in DOMAIN dec2 PROVE <<c, x>> \in DOMAIN dec
  <2>1. <<c, x>> # <<a, n>> OBVIOUS
  <2>2. QED BY <1>2, <2>1 DEF Accept, Extend
<1> HIDE DEF dec2
<1>3. Runners \subseteq Names BY DEF Runners, Names, SpecialMethods
<1>4. CallsUp(M2, cal, dec2, ext) BY <1>1, <1>2, <1>3 DEF CallsUp
<1>5. QED BY <1>4 DEF dec2

LEMMA CallsMore ==
    ASSUME NEW M, NEW M2, NEW cal, NEW dec, NEW ext, NEW a, NEW n \in Runners, NEW d,
           CallsUp(M, cal, dec, ext),
           \A c \in DOMAIN ext, x \in Names : AboveIn(M2, ext, c, x) = AboveIn(M, ext, c, x)
    PROVE  CallsUp(M2, Accept(cal, a, n, AboveIn(M, ext, a, n).in), Accept(dec, a, n, d), ext)
<1> DEFINE key  == <<a, n>>
           v    == AboveIn(M, ext, a, n).in
           dec2 == Extend(dec, key, d)
           cal2 == Extend(cal, key, v)
<1> HIDE DEF key, v
<1>1. DOMAIN dec2 = DOMAIN dec \cup {key} /\ DOMAIN cal2 = DOMAIN cal \cup {key} /\ cal2[key] = v
      /\ \A k \in DOMAIN cal : k # key => cal2[k] = cal[k]
  BY DEF Extend
<1>2. Accept(cal, a, n, AboveIn(M, ext, a, n).in) = cal2 /\ Accept(dec, a, n, d) = dec2
  BY DEF Accept, key, v
<1> HIDE DEF dec2, cal2
<1>3. ASSUME NEW c \in DOMAIN ext, NEW x \in Runners, <<c, x>> \in DOMAIN dec2
      PROVE  <<c, x>> \in DOMAIN cal2 /\ cal2[<<c, x>>] = AboveIn(M2, ext, c, x).in
  <2>1. x \in Names BY DEF Runners, Names, SpecialMethods
  <2>2. AboveIn(M2, ext, c, x) = AboveIn(M, ext, c, x) BY <2>1
  <2>3. CASE <<c, x>> = key
    <3>1. c = a /\ x = n BY <2>3 DEF key
    <3>2. QED BY <1>1, <2>2, <2>3, <3>1 DEF v
  <2>4. CASE <<c, x>> # key
    <3>1. <<c, x>> \in DOMAIN dec BY <1>1, <1>3, <2>4
    <3>2. <<c, x>> \in DOMAIN cal /\ cal[<<c, x>>] = AboveIn(M, ext, c, x).in BY <3>1 DEF CallsUp
    <3>3. QED BY <1>1, <2>2, <2>4, <3>2
  <2>5. QED BY <2>3, <2>4
<1>4. \A k \in DOMAIN cal2 : k \in DOMAIN dec2 BY <1>1 DEF CallsUp
<1>5. CallsUp(M2, cal2, dec2, ext) BY <1>3, <1>4 DEF CallsUp
<1>6. QED BY <1>2, <1>5

\* Define: the declaration is accepted, or nothing changes.
LEMMA DefineStep ==
    ASSUME NEW M, Good(M, meth, data, class, current, emitted, calls, vTable, decl, extends),
           current # 0, NEW method, Given(method, class[current].name), NEW d, Fits(method, d),
           Define(method, d), NEW n, n = method.name, NEW a, a = class[current].name
    PROVE  \/ /\ meth' = meth /\ class' = class /\ decl' = decl
           \/ /\ decl' = Accept(decl, a, n, d) /\ (M[a][n].in # a \/ n = "toPrimitive")
              /\ \E M2 : After(M, M2, meth', data, class', current, emitted, calls, vTable,
                               decl', extends)
<1> DEFINE c == class[current]
           r == AddNew(meth, c, method)
<1>1. /\ current \in 1..Len(class) /\ current \in DOMAIN class /\ Ready(M, meth, data, c)
  BY GoodReady
<1>2. Outcome(M, meth, c, method, r) BY <1>1, AddNewOutcome
<1>3. /\ class' = Put(class, current, r.class)
      /\ r.ok => meth' = r.heap /\ decl' = Accept(decl, a, n, d)
      /\ ~r.ok => meth' = meth /\ decl' = decl
  BY DEF Define, Put, Accept
<1> HIDE DEF r
<1>4. CASE ~r.ok
  <2>1. r.class = c BY <1>2, <1>4 DEF Outcome
  <2>2. class \in Seq(ClassType(meth, data)) BY DEF Good, Typed
  <2>3. class' = class
    <3>1. [class EXCEPT ![current] = class[current]] = class BY <2>2
    <3>2. QED BY <1>3, <2>1, <3>1 DEF Put
  <2>4. QED BY <1>3, <1>4, <2>3
<1>5. CASE r.ok
  <2>1. Comes(M, meth, c, method, r.heap, r.class) BY <1>2, <1>5 DEF Outcome
  <2>2. \E M2 : After(M, M2, r.heap, data, Put(class, current, r.class), current, emitted, calls,
                      vTable, Accept(decl, class[current].name, method.name, d), extends)
    BY <2>1, AcceptMethod
  <2>3. M[a][n].in # a \/ n = "toPrimitive" BY <2>1 DEF Comes
  <2>4. QED BY <1>3, <1>5, <2>2, <2>3
<1>6. r.ok \in BOOLEAN BY <1>2 DEF Outcome
<1>7. QED BY <1>4, <1>5, <1>6

\* What the definition of a method leaves as it is.
Counted == bound' = bound /\ count' \in 0..bound.members /\ errors' \in BOOLEAN

LEMMA DeclaringCounts ==
    ASSUME IInv, Declaring, bound' = bound, errors' \in {errors, TRUE}
    PROVE  Counted /\ current # 0
<1>1. bound.members \in Nat BY ClassesAssumption DEF IInv
<1>2. count \in 0..bound.members /\ count < bound.members /\ count' = count + 1
  BY DEF IInv, Declaring
<1>3. count' \in 0..bound.members BY <1>1, <1>2
<1>4. errors' \in BOOLEAN BY DEF IInv
<1>5. QED BY <1>3, <1>4 DEF Declaring, Counted

LEMMA CountedInv ==
    ASSUME IInv, Counted,
           \E M : /\ Good(M, meth', data', class', current', emitted', calls', vTable', decl', extends')
                  /\ CallsUp(M, calls', decl', extends')
    PROVE  IInv'
  BY DEF IInv, Counted

LEMMA DefineMethodInv ==
    ASSUME IInv, NEW name \in MemberNames \cup {"toPrimitive"}, NEW scope \in Scopes,
           NEW virtual \in BOOLEAN, DefineMethod(name, scope, virtual)
    PROVE  IInv'
<1>1. PICK M : /\ Good(M, meth, data, class, current, emitted, calls, vTable, decl, extends)
               /\ CallsUp(M, calls, decl, extends)
  BY DEF IInv
<1> DEFINE a      == class[current].name
           method == NewMethod(name, a, scope, virtual, virtual, NoClass)
           d      == [kind |-> "method", scope |-> scope, virtual |-> virtual]
<1>2. errors' \in {errors, TRUE} BY DEF DefineMethod, Define, Fail
<1>3. Counted /\ current # 0 BY <1>2, DeclaringCounts DEF DefineMethod
<1>4. a \in ClassNames BY <1>1, <1>3, GoodReady
<1>5. UNCHANGED <<data, current, emitted, vTable, calls, extends>> BY DEF DefineMethod
<1>6. CASE meth' = meth /\ class' = class /\ decl' = decl
  BY <1>1, <1>3, <1>5, <1>6, CountedInv
<1>7. CASE ~(name = "toPrimitive" /\ scope # "public")
  <2>1. Define(method, d) BY <1>7 DEF DefineMethod
  <2>2. name \in Names /\ name \notin SystemMethods /\ name \notin Runners
        /\ (name \in SpecialMethods => name = "toPrimitive")
    BY ClassesAssumption DEF Names, SpecialMethods, SystemMethods, Runners
  <2>3. Given(method, a)
    <3>1. method.name = name /\ method.owner = a /\ method.inherited = FALSE
          /\ method.last = NoClass /\ method.scope = scope /\ method.virtual = virtual
          /\ method.overridable = virtual
      BY DEF NewMethod
    <3>2. method \in MethodType BY <1>4, <2>2 DEF NewMethod, MethodType, ScopeType
    <3> HIDE DEF method
    <3>3. QED BY <1>7, <2>2, <3>1, <3>2 DEF Given
  <2>4. Fits(method, d) BY <2>2 DEF Fits, NewMethod, DeclarationType
  <2>5. method.name = name BY DEF NewMethod
  <2> HIDE DEF method, d
  <2>6. \/ /\ meth' = meth /\ class' = class /\ decl' = decl
        \/ /\ decl' = Accept(decl, a, name, d)
           /\ \E M2 : After(M, M2, meth', data, class', current, emitted, calls, vTable, decl', extends)
    BY <1>1, <1>3, <2>1, <2>3, <2>4, <2>5, DefineStep
  <2>7. ASSUME decl' = Accept(decl, a, name, d),
               NEW M2, After(M, M2, meth', data, class', current, emitted, calls, vTable, decl', extends)
        PROVE  IInv'
    <3>1. Good(M2, meth', data, class', current, emitted, calls, vTable, decl', extends)
      BY <2>7, AfterGood
    <3>2. CallsUp(M2, calls, decl', extends) BY <1>1, <2>2, <2>7, CallsKept DEF After
    <3>3. QED BY <1>3, <1>5, <3>1, <3>2, CountedInv
  <2>8. QED BY <1>6, <2>6, <2>7
<1>8. CASE name = "toPrimitive" /\ scope # "public" BY <1>6, <1>8 DEF DefineMethod
<1>9. QED BY <1>7, <1>8

LEMMA DefineSpecialInv ==
    ASSUME IInv, NEW name \in Runners, DefineSpecial(name, name = "__destructor")
    PROVE  IInv'
<1>1. PICK M : /\ Good(M, meth, data, class, current, emitted, calls, vTable, decl, extends)
               /\ CallsUp(M, calls, decl, extends)
  BY DEF IInv
<1> DEFINE a       == class[current].name
           virtual == name = "__destructor"
           method  == NewMethod(name, a, "public", virtual, TRUE, NoClass)
           d       == [kind |-> "method", scope |-> "public", virtual |-> virtual]
<1>2. errors' \in {errors, TRUE} BY DEF DefineSpecial, Define, Fail
<1>3. Counted /\ current # 0 BY <1>2, DeclaringCounts DEF DefineSpecial
<1>4. a \in ClassNames /\ a \in DOMAIN extends /\ Lined(class, decl) /\ current \in 1..Len(class)
  BY <1>1, <1>3, GoodReady
<1>5. UNCHANGED <<data, current, emitted, vTable, extends>> BY DEF DefineSpecial
<1>6. calls' = IF <<a, name>> \in DOMAIN decl' \ DOMAIN decl
               THEN Accept(calls, a, name, ParentCall(name)) ELSE calls
  BY DEF DefineSpecial, Accept
<1>7. Define(method, d) BY DEF DefineSpecial
<1>8. name \in Names /\ name \notin SystemMethods /\ name \in SpecialMethods /\ name # "toPrimitive"
  BY DEF Names, SpecialMethods, SystemMethods, Runners
<1>9. virtual \in BOOLEAN OBVIOUS
<1>10. Given(method, a)
  <2>1. method.name = name /\ method.owner = a /\ method.inherited = FALSE
        /\ method.last = NoClass /\ method.scope = "public" /\ method.overridable = TRUE
    BY DEF NewMethod
  <2>2. method \in MethodType BY <1>4, <1>8, <1>9 DEF NewMethod, MethodType, ScopeType, Scopes
  <2> HIDE DEF method
  <2>3. QED BY <1>8, <2>1, <2>2 DEF Given, Scopes
<1>11. Fits(method, d)
  <2>1. method.name = name /\ method.scope = "public" /\ method.virtual = virtual BY DEF NewMethod
  <2>2. d \in DeclarationType BY <1>9 DEF DeclarationType, Scopes
  <2> HIDE DEF method
  <2>3. QED BY <1>8, <2>1, <2>2 DEF Fits
<1>12. method.name = name BY DEF NewMethod
<1> HIDE DEF method, d, virtual
<1>13. \/ /\ meth' = meth /\ class' = class /\ decl' = decl
       \/ /\ decl' = Accept(decl, a, name, d) /\ M[a][name].in # a
          /\ \E M2 : After(M, M2, meth', data, class', current, emitted, calls, vTable, decl', extends)
  BY <1>1, <1>3, <1>7, <1>8, <1>10, <1>11, <1>12, DefineStep
<1>14. CASE meth' = meth /\ class' = class /\ decl' = decl
  <2>1. calls' = calls BY <1>6, <1>14
  <2>2. QED BY <1>1, <1>3, <1>5, <1>14, <2>1, CountedInv
<1>15. ASSUME decl' = Accept(decl, a, name, d), M[a][name].in # a,
              NEW M2, After(M, M2, meth', data, class', current, emitted, calls, vTable, decl', extends)
       PROVE  IInv'
  <2>1. <<a, name>> \in DOMAIN decl' BY <1>15 DEF Accept, Extend
  <2>2. ~DeclaresIn(decl, vTable, a, name)
    BY <1>1, <1>4, <1>8, <1>15, OwnMeaning DEF Good
  <2>3. <<a, name>> \notin DOMAIN decl BY <2>2 DEF DeclaresIn
  <2>4. ParentCall(name) = AboveIn(M, extends, a, name).in BY <1>1, <1>3, <1>15, ParentCallIs
  <2>5. calls' = Accept(calls, a, name, AboveIn(M, extends, a, name).in)
    BY <1>6, <2>1, <2>3, <2>4
  <2>6. CallsUp(M2, calls', decl', extends) BY <1>1, <1>15, <2>5, CallsMore DEF After
  <2>7. Good(M2, meth', data, class', current, emitted, calls, vTable, decl', extends)
    BY <1>15, AfterGood
  <2>8. AboveIn(M, extends, a, name).in \in ClassId
    BY <1>1, <1>4, <1>8, AboveType DEF Good, MeaningType
  <2>9. \A k \in DOMAIN calls' : calls'[k] \in ClassId
    <3>1. \A k \in DOMAIN calls : calls[k] \in ClassId BY <1>1 DEF Good, Typed
    <3>2. QED BY <2>5, <2>8, <3>1 DEF Accept, Extend
  <2>10. Good(M2, meth', data, class', current, emitted, calls', vTable, decl', extends)
    BY <2>7, <2>9 DEF Good, Typed
  <2>11. QED BY <1>3, <1>5, <2>6, <2>10, CountedInv
<1>16. QED BY <1>13, <1>14, <1>15

--------------------------------------------------------------------------------
(* A data member. *)

Member(n, scope) == [name |-> n, scope |-> scope]

Joins(c, j) == [c EXCEPT !.members = @ \cup {j}]

LEMMA ReadyAfterMember ==
    ASSUME NEW M, NEW M2, NEW heap, NEW dat, NEW c, Ready(M, heap, dat, c),
           NEW n \in MemberNames, NEW scope \in Scopes, M[c.name][n].kind = "none",
           Redeclares(M, M2, c.name, n), M2[c.name][n] \in MeaningType,
           M2[c.name][n].in = c.name, M2[c.name][n].kind = "data", M2[c.name][n].scope = scope
    PROVE  Ready(M2, heap, Append(dat, Member(n, scope)), Joins(c, Len(dat) + 1))
<1> DEFINE a    == c.name
           i    == Len(dat) + 1
           m    == Member(n, scope)
           dat2 == Append(dat, m)
           c2   == Joins(c, i)
<1>1. /\ heap \in Seq(MethodType) /\ dat \in Seq(MemberType) /\ c \in ClassType(heap, dat)
      /\ SoundIn(M, a) /\ Objects(M, heap)
      /\ HoldsMethods(M, heap, c) /\ HoldsMembers(M, dat, c) /\ Open(M, heap, dat, c)
  BY DEF Ready
<1>2. n \in Names /\ n \notin SpecialMethods /\ a # NoClass /\ m \in MemberType
      /\ m.name = n /\ m.scope = scope
  BY ReadyHeap, ClassesAssumption DEF Names, Member, MemberType, ScopeType
<1>3. /\ dat2 \in Seq(MemberType) /\ DOMAIN dat2 = DOMAIN dat \cup {i} /\ i \notin DOMAIN dat
      /\ (\A j \in DOMAIN dat : dat2[j] = dat[j]) /\ dat2[i] = m
      /\ c.methods \subseteq DOMAIN heap /\ c.members \subseteq DOMAIN dat
  BY <1>1, <1>2, Appended, ReadyHeap
<1> HIDE DEF dat2, i, m
<1>4. c2.name = a /\ c2.methods = c.methods /\ c2.members = c.members \cup {i}
      /\ c2 \in ClassType(heap, dat2)
  BY <1>1, <1>3 DEF Joins, ClassType
<1> HIDE DEF c2
<1>5. /\ DOMAIN M2 = DOMAIN M
      /\ \A b \in DOMAIN M, x \in Names : b # a \/ x # n => M2[b][x] = M[b][x]
  BY DEF Redeclares
<1>6. a \in DOMAIN M /\ \A x \in Names : x # n => M2[a][x] = M[a][x] BY <1>1, <1>5 DEF SoundIn
<1>7. M[a][n].in = NoClass BY <1>1, <1>2 DEF SoundIn
<1>8. SoundIn(M2, a)
  <2>1. ASSUME NEW x \in Names
        PROVE  /\ M2[a][x] \in MeaningType
               /\ M2[a][x].in = NoClass => M2[a][x] = Nothing
               /\ M2[a][x].kind = "none" => M2[a][x].in = NoClass
               /\ x \in SpecialMethods => M2[a][x].scope = "public" /\ M2[a][x].kind # "data"
               /\ x = "toPrimitive" =>
                     M2[a][x].in = a /\ M2[a][x].kind = "method" /\ M2[a][x].virtual
    <3>1. CASE x = n BY <1>2, <3>1 DEF SpecialMethods
    <3>2. CASE x # n BY <1>1, <1>6, <3>2 DEF SoundIn
    <3>3. QED BY <3>1, <3>2
  <2>2. ASSUME NEW x \in Names, M2[a][x].in # NoClass
        PROVE  M2[a][x].in \in DOMAIN M2 /\ M2[M2[a][x].in][x] = M2[a][x]
    <3>1. CASE x = n BY <1>5, <1>6, <3>1
    <3>2. CASE x # n
      <4>1. M2[a][x] = M[a][x] BY <1>6, <3>2
      <4>2. M[a][x].in \in DOMAIN M /\ M[M[a][x].in][x] = M[a][x] BY <1>1, <2>2, <4>1 DEF SoundIn
      <4>3. M2[M[a][x].in][x] = M[M[a][x].in][x] BY <1>5, <3>2, <4>2
      <4>4. QED BY <1>5, <4>1, <4>2, <4>3
    <3>3. QED BY <3>1, <3>2
  <2>3. QED BY <1>1, <1>5, <1>6, <2>1, <2>2 DEF SoundIn
<1>9. Objects(M2, heap)
  <2>1. ASSUME NEW j \in DOMAIN heap PROVE ObjectOf(M2, heap[j])
    <3> DEFINE o == Origin(heap[j])
               x == heap[j].name
    <3>1. ObjectOf(M, heap[j]) /\ x \in Names BY <1>1, ReadyHeap DEF Objects
    <3>2. o \in DOMAIN M /\ M[o][x].in = o BY <3>1 DEF ObjectOf
    <3>3. M2[o][x] = M[o][x] BY <1>2, <1>5, <1>7, <3>1, <3>2
    <3>4. QED BY <1>5, <3>1, <3>3 DEF ObjectOf
  <2>2. QED BY <2>1 DEF Objects
<1>10. \A j \in c.methods : heap[j].name \in Names /\ M2[a][heap[j].name] = M[a][heap[j].name]
  <2>1. \A j \in c.methods : heap[j].name \in Names BY <1>3, ReadyHeap
  <2>2. \A j \in c.methods : heap[j].name # n BY <1>1 DEF HoldsMethods
  <2>3. QED BY <1>6, <2>1, <2>2
<1>11. HoldsMethods(M2, heap, c2)
  <2>1. \A x \in Names : M2[a][x].kind = "method" => M[a][x].kind = "method" BY <1>6
  <2>2. QED BY <1>1, <1>4, <1>10, <2>1 DEF HoldsMethods
<1>12. \A j \in c.members : /\ dat2[j] = dat[j] /\ dat[j].name \in Names
                            /\ M2[a][dat[j].name] = M[a][dat[j].name]
  <2>1. \A j \in c.members : dat[j].name \in Names BY <1>3, ReadyHeap DEF Names
  <2>2. \A j \in c.members : dat[j].name # n BY <1>1 DEF HoldsMembers
  <2>3. QED BY <1>3, <1>6, <2>1, <2>2
<1>13. M2[a][n].in = a /\ M2[a][n].kind = "data" /\ M2[a][n].scope = scope OBVIOUS
<1>14. HoldsMembers(M2, dat2, c2)
  <2>1. ASSUME NEW j \in c2.members
        PROVE  LET k == M2[a][dat2[j].name]
               IN  /\ k.kind = "data"
                   /\ dat2[j].scope = k.scope
                         \/ (k.scope = "private" /\ dat2[j].scope = "inaccessible")
                   /\ k.in # a => dat2[j].scope # "private"
    <3>1. CASE j = i BY <1>2, <1>3, <1>13, <3>1
    <3>2. CASE j \in c.members BY <1>1, <1>12, <3>2 DEF HoldsMembers
    <3>3. QED BY <1>4, <3>1, <3>2
  <2>2. ASSUME NEW x \in Names, M2[a][x].kind = "data" PROVE \E j \in c2.members : dat2[j].name = x
    <3>1. CASE x = n BY <1>2, <1>3, <1>4, <3>1
    <3>2. CASE x # n
      <4>1. PICK j \in c.members : dat[j].name = x BY <1>1, <1>6, <2>2, <3>2 DEF HoldsMembers
      <4>2. QED BY <1>4, <1>12, <4>1
    <3>3. QED BY <3>1, <3>2
  <2>3. QED BY <1>4, <2>1, <2>2 DEF HoldsMembers
<1>15. Open(M2, heap, dat2, c2)
  <2>1. ASSUME NEW j \in c2.members, M2[a][dat2[j].name].in = a
        PROVE  dat2[j].scope = M2[a][dat2[j].name].scope
    <3>1. CASE j = i BY <1>2, <1>3, <1>13, <3>1
    <3>2. CASE j \in c.members BY <1>1, <1>12, <2>1, <3>2 DEF Open
    <3>3. QED BY <1>4, <3>1, <3>2
  <2>2. QED BY <1>1, <1>4, <2>1 DEF Open
<1>16. Ready(M2, heap, dat2, c2) BY <1>1, <1>3, <1>4, <1>8, <1>9, <1>11, <1>14, <1>15 DEF Ready
<1>17. QED BY <1>16 DEF dat2, c2, i, m

LEMMA DeclareDatamemberInv ==
    ASSUME IInv, NEW n \in MemberNames, NEW scope \in Scopes, DeclareDatamember(n, scope)
    PROVE  IInv'
<1>1. PICK M : /\ Good(M, meth, data, class, current, emitted, calls, vTable, decl, extends)
               /\ CallsUp(M, calls, decl, extends)
  BY DEF IInv
<1> DEFINE c    == class[current]
           a    == c.name
           d    == [kind |-> "data", scope |-> scope, virtual |-> FALSE]
           dec2 == Accept(decl, a, n, d)
           M2   == Redeclare(M, a, n, Declared(a, d, M[a][n]))
           c2   == Joins(c, Len(data) + 1)
<1>2. errors' \in {errors, TRUE} BY DEF DeclareDatamember, Fail
<1>3. Counted /\ current # 0 BY <1>2, DeclaringCounts DEF DeclareDatamember
<1>4. /\ Lined(class, decl) /\ current \in 1..Len(class) /\ current \in DOMAIN class
      /\ Ready(M, meth, data, c) /\ SoundIn(M, a) /\ a \in ClassNames /\ a \in DOMAIN extends
      /\ Shaped(M, extends)
  BY <1>1, <1>3, GoodReady
<1>5. UNCHANGED <<meth, current, emitted, vTable, calls, extends>> BY DEF DeclareDatamember
<1>6. CASE ~AddsDatamember(n)
  <2>1. data' = data /\ class' = class /\ decl' = decl BY <1>6 DEF DeclareDatamember
  <2>2. QED BY <1>1, <1>3, <1>5, <2>1, CountedInv
<1>7. CASE AddsDatamember(n)
  <2>1. /\ data' = Append(data, Member(n, scope)) /\ class' = Put(class, current, c2)
        /\ decl' = dec2
    BY <1>4, <1>7 DEF DeclareDatamember, Member, Put, Joins, Accept
  <2>2. n \in Names /\ n \notin SpecialMethods /\ n \notin Runners /\ n \notin SystemMethods
    BY ClassesAssumption DEF Names, SpecialMethods, Runners
  <2>3. M[a][n].kind = "none"
    <3>1. Named(data, c.members, n) = {} /\ Named(meth, c.methods, n) = {}
      BY <1>7 DEF AddsDatamember
    <3>2. HoldsMethods(M, meth, c) /\ HoldsMembers(M, data, c) BY <1>4 DEF Ready
    <3>3. M[a][n].kind # "method" /\ M[a][n].kind # "data"
      BY <2>2, <3>1, <3>2 DEF HoldsMethods, HoldsMembers, Named
    <3>4. QED BY <1>4, <2>2, <3>3 DEF SoundIn, MeaningType
  <2>4. M[a][n].in = NoClass /\ M[a][n].in # a BY <1>4, <2>2, <2>3, ClassesAssumption DEF SoundIn
  <2>5. d \in DeclarationType /\ d.kind = "data" /\ d.scope = scope BY DEF DeclarationType
  <2> HIDE DEF d
  <2>6. Shaped(M2, extends) /\ Redeclares(M, M2, a, n) /\ M2[a][n] = Declared(a, d, M[a][n])
    BY <1>4, <2>2, RedeclareIs
  <2> HIDE DEF M2
  <2>7. DeclarationIn(dec2, a, n) = d BY <2>2, DeclaresMore
  <2>8. M2[a][n] \in MeaningType /\ M2[a][n].in = a /\ M2[a][n].kind = "data" /\ M2[a][n].scope = scope
    <3>1. M[a][n] \in MeaningType BY <1>4, <2>2 DEF SoundIn
    <3>2. M2[a][n] \in MeaningType BY <1>4, <2>5, <2>6, <3>1, DeclaredType
    <3>3. QED BY <2>5, <2>6, <3>2 DEF Declared
  <2>9. Ready(M2, meth, data', c2) BY <1>4, <2>1, <2>3, <2>6, <2>8, ReadyAfterMember
  <2>10. c2.name = a /\ c2.parents = c.parents
    <3>1. c \in ClassType(meth, data) BY <1>4 DEF Ready
    <3>2. QED BY <3>1 DEF Joins, ClassType
  <2>11. Evolves(meth, meth) BY <1>4, ReadyHeap DEF Evolves
  <2>12. EvolvesData(data, data')
    <3>1. data \in Seq(MemberType) BY <1>4 DEF Ready
    <3>2. Member(n, scope) \in MemberType BY DEF Member, MemberType, ScopeType
    <3>3. QED BY <2>1, <3>1, <3>2, AppendEvolvesData
  <2> HIDE DEF c2, dec2
  <2>13. After(M, M2, meth, data', Put(class, current, c2), current, emitted, calls, vTable,
               decl', extends)
    <3>1. dec2 = Accept(decl, a, n, d) BY DEF dec2
    <3>2. M[a][n].in # a /\ M2[a][n] = Declared(a, DeclarationIn(dec2, a, n), M[a][n])
      BY <2>4, <2>6, <2>7
    <3>3. QED BY <1>1, <1>3, <2>1, <2>2, <2>5, <2>6, <2>9, <2>10, <2>11, <2>12, <3>1, <3>2,
                 DeclaredAfter DEF Good
  <2>14. Good(M2, meth, data', class', current, emitted, calls, vTable, decl', extends)
    BY <2>1, <2>13, AfterGood
  <2>15. CallsUp(M2, calls, decl', extends)
    <3>1. decl' = Accept(decl, a, n, d) BY <2>1 DEF dec2
    <3>2. QED BY <1>1, <2>2, <2>13, <3>1, CallsKept DEF After
  <2>16. QED BY <1>3, <1>5, <2>14, <2>15, CountedInv
<1>8. QED BY <1>6, <1>7

--------------------------------------------------------------------------------
(* The end of a class. *)

Generated(n, a) == NewMethod(n, a, "public", n # "__new", TRUE, NoClass)

\* What exitClassDefinition declares.
Makes(n) == [kind |-> "method", scope |-> "public", virtual |-> n # "__new"]

Generates(M, a, n) == Redeclare(M, a, n, Declared(a, Makes(n), M[a][n]))

\* A class that is Ready, and the shape of M.
Steady(M, heap, c, ext) ==
    Ready(M, heap, data, c) /\ Shaped(M, ext) /\ c.name \in DOMAIN ext

LEMMA GeneratedStep ==
    ASSUME NEW M, NEW heap, NEW c, NEW ext, Steady(M, heap, c, ext),
           NEW n \in SystemMethods, M[c.name][n].in # c.name
    PROVE  LET r  == AddNew(heap, c, Generated(n, c.name))
               M2 == Generates(M, c.name, n)
           IN  /\ Steady(M2, r.heap, r.class, ext) /\ Evolves(heap, r.heap)
               /\ r.class.name = c.name /\ r.class.parents = c.parents
               /\ Redeclares(M, M2, c.name, n)
               /\ M2[c.name][n] = Declared(c.name, Makes(n), M[c.name][n])
<1> DEFINE a      == c.name
           method == Generated(n, a)
           r      == AddNew(heap, c, method)
           M2     == Generates(M, a, n)
<1>1. /\ Ready(M, heap, data, c) /\ SoundIn(M, a) /\ a \in ClassNames /\ a \in DOMAIN ext
      /\ Shaped(M, ext) /\ c \in ClassType(heap, data)
  BY ReadyHeap DEF Steady, Ready
<1>2. n \in Names /\ n \in SpecialMethods /\ n # "toPrimitive"
  BY DEF Names, SpecialMethods, SystemMethods
<1>3. /\ method.name = n /\ method.owner = a /\ method.inherited = FALSE /\ method.last = NoClass
      /\ method.scope = "public" /\ method.overridable = TRUE /\ method.virtual = (n # "__new")
  BY DEF Generated, NewMethod
<1>4. method \in MethodType
  BY <1>1, <1>2 DEF Generated, NewMethod, MethodType, ScopeType, Scopes
<1> HIDE DEF method
<1>5. Given(method, a) BY <1>2, <1>3, <1>4 DEF Given, Scopes
<1>6. Outcome(M, heap, c, method, r) BY <1>1, <1>5, AddNewOutcome
<1> HIDE DEF r
<1>7. r.ok BY <1>3, <1>6 DEF Outcome
<1>8. Comes(M, heap, c, method, r.heap, r.class) BY <1>6, <1>7 DEF Outcome
<1>9. Shaped(M2, ext) /\ Redeclares(M, M2, a, n) /\ M2[a][n] = Declared(a, Makes(n), M[a][n])
  BY <1>1, <1>2, RedeclareIs DEF Generates
<1> HIDE DEF M2
<1>10. Makes(n) \in DeclarationType /\ Makes(n).kind = "method" /\ Makes(n).scope = "public"
       /\ Makes(n).virtual = (n # "__new")
  BY DEF Makes, DeclarationType, Scopes
<1>11. Says(M, M2, a, method) BY <1>1, <1>2, <1>3, <1>5, <1>9, <1>10, DeclaredSays
<1>12. Ready(M2, r.heap, data, r.class) /\ Evolves(heap, r.heap) /\ r.class.name = a
  BY <1>1, <1>5, <1>8, <1>11, ReadyAfterMethod
<1>13. r.class.parents = c.parents BY <1>1, <1>8 DEF Comes, ClassType
<1>14. Steady(M2, r.heap, r.class, ext) BY <1>1, <1>9, <1>12 DEF Steady
<1>15. QED BY <1>9, <1>12, <1>13, <1>14 DEF method, r, M2

LEMMA EvolvesTrans ==
    ASSUME NEW f, NEW g, NEW h, Evolves(f, g), Evolves(g, h)
    PROVE  Evolves(f, h)
  BY DEF Evolves

\* The class with its generated methods, and what they make of M.
AllGenerated(M, a) == Generates(Generates(Generates(M, a, "__copy"), a, "__new"), a, "__delete")

LEMMA AddGeneratedIs ==
    ASSUME NEW M, NEW heap, NEW c, NEW ext, Steady(M, heap, c, ext),
           \A n \in SystemMethods : M[c.name][n].in # c.name
    PROVE  LET r == AddGenerated(heap, c)
               N == AllGenerated(M, c.name)
           IN  /\ Steady(N, r.heap, r.class, ext) /\ Evolves(heap, r.heap)
               /\ r.class.name = c.name /\ r.class.parents = c.parents
               /\ DOMAIN N = DOMAIN M
               /\ \A b \in DOMAIN M, x \in Names : b # c.name => N[b][x] = M[b][x]
               /\ \A x \in Names : N[c.name][x] =
                     IF x \in SystemMethods THEN Declared(c.name, Makes(x), M[c.name][x])
                     ELSE M[c.name][x]
<1> DEFINE a  == c.name
           r1 == AddNew(heap, c, Generated("__copy", a))
           r2 == AddNew(r1.heap, r1.class, Generated("__new", a))
           r3 == AddNew(r2.heap, r2.class, Generated("__delete", a))
           M1 == Generates(M, a, "__copy")
           M2 == Generates(M1, a, "__new")
           M3 == Generates(M2, a, "__delete")
<1>1. AddGenerated(heap, c) = r3
  <2>1. CopyMethod(a) = Generated("__copy", a) /\ NewNewMethod(a) = Generated("__new", a)
        /\ DeleteMethod(a) = Generated("__delete", a)
    BY DEF CopyMethod, NewNewMethod, DeleteMethod, Generated, NewMethod
  <2>2. QED BY <2>1 DEF AddGenerated
<1>2. M3 = AllGenerated(M, a) BY DEF AllGenerated
<1>3. a \in DOMAIN M /\ "__copy" \in SystemMethods /\ "__new" \in SystemMethods
      /\ "__delete" \in SystemMethods /\ SystemMethods \subseteq Names
  BY DEF Steady, Ready, SoundIn, SystemMethods, Names, SpecialMethods
<1>4. /\ Steady(M1, r1.heap, r1.class, ext) /\ Evolves(heap, r1.heap)
      /\ r1.class.name = a /\ r1.class.parents = c.parents
      /\ Redeclares(M, M1, a, "__copy")
      /\ M1[a]["__copy"] = Declared(a, Makes("__copy"), M[a]["__copy"])
  BY <1>3, GeneratedStep
<1> HIDE DEF r1, M1
<1>5. M1[a]["__new"] = M[a]["__new"] /\ M1[a]["__delete"] = M[a]["__delete"]
  BY <1>3, <1>4 DEF Redeclares
<1>6. /\ Steady(M2, r2.heap, r2.class, ext) /\ Evolves(r1.heap, r2.heap)
      /\ r2.class.name = a /\ r2.class.parents = c.parents
      /\ Redeclares(M1, M2, a, "__new")
      /\ M2[a]["__new"] = Declared(a, Makes("__new"), M1[a]["__new"])
  <2>1. M1[r1.class.name]["__new"].in # r1.class.name BY <1>3, <1>4, <1>5
  <2>2. QED BY <1>3, <1>4, <2>1, GeneratedStep
<1> HIDE DEF r2, M2
<1>7. M2[a]["__delete"] = M1[a]["__delete"] BY <1>3, <1>4, <1>6 DEF Redeclares
<1>8. /\ Steady(M3, r3.heap, r3.class, ext) /\ Evolves(r2.heap, r3.heap)
      /\ r3.class.name = a /\ r3.class.parents = c.parents
      /\ Redeclares(M2, M3, a, "__delete")
      /\ M3[a]["__delete"] = Declared(a, Makes("__delete"), M2[a]["__delete"])
  <2>1. M2[r2.class.name]["__delete"].in # r2.class.name BY <1>3, <1>5, <1>6, <1>7
  <2>2. QED BY <1>3, <1>6, <2>1, GeneratedStep
<1> HIDE DEF r3, M3
<1>9. Evolves(heap, r3.heap) BY <1>4, <1>6, <1>8, EvolvesTrans
<1>10. DOMAIN M3 = DOMAIN M /\ \A b \in DOMAIN M, x \in Names : b # a => M3[b][x] = M[b][x]
  BY <1>4, <1>6, <1>8 DEF Redeclares
<1>11. ASSUME NEW x \in Names
       PROVE  M3[a][x] = IF x \in SystemMethods THEN Declared(a, Makes(x), M[a][x]) ELSE M[a][x]
  <2>1. DOMAIN M1 = DOMAIN M /\ DOMAIN M2 = DOMAIN M BY <1>4, <1>6 DEF Redeclares
  <2>2. /\ x # "__copy" => M1[a][x] = M[a][x]
        /\ x # "__new" => M2[a][x] = M1[a][x]
        /\ x # "__delete" => M3[a][x] = M2[a][x]
    BY <1>3, <1>4, <1>6, <1>8, <2>1 DEF Redeclares
  <2>3. CASE x = "__copy" BY <1>3, <1>4, <2>2, <2>3
  <2>4. CASE x = "__new" BY <1>3, <1>6, <2>2, <2>4
  <2>5. CASE x = "__delete" BY <1>3, <1>8, <2>2, <2>5
  <2>6. CASE x \notin SystemMethods BY <1>3, <2>2, <2>6
  <2>7. QED BY <2>3, <2>4, <2>5, <2>6 DEF SystemMethods
<1>12. QED BY <1>1, <1>2, <1>8, <1>9, <1>10, <1>11

\* A class writes the methods that are its own, and the vTable names those that it has.
LEMMA WritesOwn ==
    ASSUME NEW M, NEW heap, NEW dat, NEW c, Ready(M, heap, dat, c), NEW j \in c.methods
    PROVE  /\ heap[j].name \in Names /\ M[c.name][heap[j].name].kind = "method"
           /\ M[c.name][heap[j].name].in = Origin(heap[j])
           /\ Writes(heap[j], c) <=> Origin(heap[j]) = c.name
           /\ heap[j].virtual = M[c.name][heap[j].name].virtual
           /\ heap[j].virtual => heap[j].last = Origin(heap[j])
<1> DEFINE n == heap[j].name
           o == Origin(heap[j])
           m == M[c.name][n]
<1>1. j \in DOMAIN heap /\ n \in Names BY ReadyHeap
<1>2. ObjectOf(M, heap[j]) BY <1>1 DEF Ready, Objects
<1>3. m.kind = "method" /\ m.in = o BY DEF Ready, HoldsMethods
<1>4. SoundIn(M, c.name) BY DEF Ready
<1>5. M[o][n] = m BY <1>1, <1>3, <1>4 DEF SoundIn, Nothing
<1>6. heap[j].virtual = m.virtual BY <1>2, <1>5 DEF ObjectOf
<1>7. heap[j].virtual => heap[j].last = o BY <1>2 DEF ObjectOf
<1>8. o = c.name <=> ~heap[j].inherited BY OverridesInherited
<1>9. Writes(heap[j], c) <=> o = c.name BY <1>7, <1>8 DEF Writes
<1>10. QED BY <1>1, <1>3, <1>6, <1>7, <1>9

LEMMA TableOfIs ==
    ASSUME NEW M, NEW heap, NEW dat, NEW c, Ready(M, heap, dat, c)
    PROVE  TableOf(heap, c) = TableIn(M, c.name)
<1> DEFINE a == c.name
           V == {j \in c.methods : heap[j].virtual}
           D == {m \in Names : M[a][m].kind = "method" /\ M[a][m].virtual}
           T == {heap[j].name : j \in V}
<1>1. HoldsMethods(M, heap, c) BY DEF Ready
<1>2. ASSUME NEW j \in V
      PROVE  heap[j].name \in D /\ heap[j].last = M[a][heap[j].name].in
  BY WritesOwn
<1>3. ASSUME NEW n \in D PROVE \E j \in V : heap[j].name = n
  <2>1. PICK j \in c.methods : heap[j].name = n BY <1>1 DEF HoldsMethods
  <2>2. heap[j].virtual BY <2>1, WritesOwn
  <2>3. QED BY <2>1, <2>2
<1>4. T = D BY <1>2, <1>3
<1>5. ASSUME NEW n \in D
      PROVE  <<heap[CHOOSE j \in V : heap[j].name = n].last, n>> = <<M[a][n].in, n>>
  <2>1. PICK j \in V : heap[j].name = n BY <1>3
  <2>2. (CHOOSE k \in V : heap[k].name = n) \in V
        /\ heap[CHOOSE k \in V : heap[k].name = n].name = n
    BY <2>1
  <2>3. QED BY <1>2, <2>2
<1>6. TableOf(heap, c) = [n \in T |-> <<heap[CHOOSE j \in V : heap[j].name = n].last, n>>]
  BY DEF TableOf
<1>7. TableIn(M, a) = [n \in D |-> <<M[a][n].in, n>>] BY DEF TableIn
<1> HIDE DEF V, D, T
<1>8. QED BY <1>4, <1>5, <1>6, <1>7

\* The functions that add_class writes for a class.
Own(heap, c) ==
    {[of |-> c.name, name |-> heap[j].name, from |-> j] : j \in {i \in c.methods : Writes(heap[i], c)}}

LEMMA OwnWritten ==
    ASSUME NEW M, NEW heap, NEW dat, NEW c, Ready(M, heap, dat, c)
    PROVE  /\ Own(heap, c) \subseteq [of : ClassNames, name : Names, from : DOMAIN heap]
           /\ \A e \in Own(heap, c) : e.of = c.name
           /\ \A e, f \in Own(heap, c) : e.name = f.name => e = f
           /\ \A n \in Names : M[c.name][n].kind = "method" /\ M[c.name][n].in = c.name =>
                 \E e \in Own(heap, c) : e.of = c.name /\ e.name = n
<1> DEFINE made(j) == [of |-> c.name, name |-> heap[j].name, from |-> j]
           W == {i \in c.methods : Writes(heap[i], c)}
<1>1. HoldsMethods(M, heap, c) BY DEF Ready
<1>2. c.methods \subseteq DOMAIN heap /\ c.name \in ClassNames BY ReadyHeap
<1>3. \A j \in c.methods : heap[j].name \in Names BY WritesOwn
<1>4. Own(heap, c) = {made(j) : j \in W} BY DEF Own
<1>5. \A e \in Own(heap, c) : \E j \in c.methods : e = made(j) BY <1>4
<1>6. \A e \in Own(heap, c) : e.of = c.name BY <1>5
<1>7. ASSUME NEW e \in Own(heap, c), NEW f \in Own(heap, c), e.name = f.name PROVE e = f
  <2>1. PICK j \in c.methods : e = made(j) BY <1>5
  <2>2. PICK k \in c.methods : f = made(k) BY <1>5
  <2>3. heap[j].name = heap[k].name BY <1>7, <2>1, <2>2
  <2>4. j = k BY <1>1, <2>3 DEF HoldsMethods
  <2>5. QED BY <2>1, <2>2, <2>4
<1>8. ASSUME NEW n \in Names, M[c.name][n].kind = "method", M[c.name][n].in = c.name
      PROVE  \E e \in Own(heap, c) : e.of = c.name /\ e.name = n
  <2>1. PICK j \in c.methods : heap[j].name = n BY <1>1, <1>8 DEF HoldsMethods
  <2>2. Writes(heap[j], c) BY <1>8, <2>1, WritesOwn
  <2>3. made(j) \in Own(heap, c) BY <1>4, <2>2
  <2>4. QED BY <2>1, <2>3
<1>9. Own(heap, c) \subseteq [of : ClassNames, name : Names, from : DOMAIN heap]
  BY <1>2, <1>3, <1>5
<1>10. QED BY <1>6, <1>7, <1>8, <1>9

LEMMA WrittenMore ==
    ASSUME NEW M, NEW heap, NEW dat, NEW c, Ready(M, heap, dat, c), NEW emi, NEW tab,
           Written(M, emi, tab), Tables(M, tab), NEW a, a = c.name, a \notin DOMAIN tab
    PROVE  LET tab2 == Extend(tab, a, TableOf(heap, c))
           IN  Written(M, emi \cup Own(heap, c), tab2) /\ Tables(M, tab2)
<1> DEFINE t    == TableOf(heap, c)
           own  == Own(heap, c)
           tab2 == Extend(tab, a, t)
<1>1. DOMAIN tab2 = DOMAIN tab \cup {a} /\ tab2[a] = t /\ \A k \in DOMAIN tab : tab2[k] = tab[k]
  BY DEF Extend
<1>2. t = TableIn(M, a) BY TableOfIs
<1>3. /\ \A e \in own : e.of = a
      /\ \A e, f \in own : e.name = f.name => e = f
      /\ \A n \in Names : M[a][n].kind = "method" /\ M[a][n].in = a =>
            \E e \in own : e.of = a /\ e.name = n
  BY OwnWritten
<1> HIDE DEF t, own, tab2
<1>4. Tables(M, tab2) BY <1>1, <1>2 DEF Tables
<1>5. \A e \in emi : e.of \in DOMAIN tab /\ e.of # a BY DEF Written
<1>6. \A e \in emi \cup own : e.of \in DOMAIN tab2 BY <1>1, <1>3, <1>5
<1>7. \A e, f \in emi \cup own : e.of = f.of /\ e.name = f.name => e = f
  <2>1. \A e, f \in emi : e.of = f.of /\ e.name = f.name => e = f BY DEF Written
  <2>2. QED BY <1>3, <1>5, <2>1
<1>8. ASSUME NEW k \in DOMAIN tab2, NEW n \in Names, M[k][n].kind = "method", M[k][n].in = k
      PROVE  \E e \in emi \cup own : e.of = k /\ e.name = n
  <2>1. CASE k = a BY <1>3, <1>8, <2>1
  <2>2. CASE k \in DOMAIN tab BY <1>8, <2>2 DEF Written
  <2>3. QED BY <1>1, <2>1, <2>2
<1>9. Written(M, emi \cup own, tab2) BY <1>6, <1>7, <1>8 DEF Written
<1>10. QED BY <1>4, <1>9 DEF tab2, t, own

Exits(M, N, a) ==
    /\ DOMAIN N = DOMAIN M /\ OnlyIn(M, N, a)
    /\ \A n \in SystemMethods : M[a][n].in # a
    /\ \A n \in Names : N[a][n] = IF n \in SystemMethods THEN Declared(a, Makes(n), M[a][n])
                                  ELSE M[a][n]

\* What exitClassDefinition makes of the meanings.
LEMMA MeaningExit ==
    ASSUME NEW M, NEW N, NEW cls, NEW ext, NEW dec, NEW tab, NEW t,
           Lined(cls, dec), Tree(cls, ext), IsMeaning(M, ext, dec, tab), Shaped(N, ext),
           NEW a, Len(cls) # 0, a = cls[Len(cls)].name, Exits(M, N, a)
    PROVE  IsMeaning(N, ext, dec, Extend(tab, a, t))
<1> DEFINE tab2 == Extend(tab, a, t)
<1>1. DOMAIN tab2 = DOMAIN tab \cup {a} BY DEF Extend
<1> HIDE DEF tab2
<1>2. Len(cls) \in 1..Len(cls) /\ Len(cls) \in DOMAIN cls BY DEF Lined
<1>3. DOMAIN M = DOMAIN ext BY MeaningShaped
<1>4. \A b \in DOMAIN ext, n \in Names : b # a => N[b][n] = M[b][n] BY <1>3 DEF Exits, OnlyIn
<1>5. \A b \in DOMAIN ext, n \in Names :
         b # a => /\ DeclaresIn(dec, tab2, b, n) <=> DeclaresIn(dec, tab, b, n)
                  /\ DeclaresIn(dec, tab, b, n) => DeclarationIn(dec, b, n) = DeclarationIn(dec, b, n)
  BY <1>1 DEF DeclaresIn
<1>6. ASSUME NEW n \in Names PROVE N[a][n] = MeaningIn(M, ext, dec, tab2, a, n)
  <2>1. CASE n \in SystemMethods
    <3>1. DeclaresIn(dec, tab2, a, n) BY <1>1, <2>1 DEF DeclaresIn
    <3>2. DeclarationIn(dec, a, n) = Makes(n)
      <4>1. n \in SpecialMethods /\ n # "__constructor" BY <2>1 DEF SpecialMethods, SystemMethods
      <4>2. QED BY <4>1 DEF DeclarationIn, Makes
    <3>3. M[a][n] = AboveIn(M, ext, a, n) BY <1>2, <2>1, OwnMeaning DEF Exits
    <3>4. N[a][n] = Declared(a, Makes(n), M[a][n]) BY <2>1 DEF Exits
    <3>5. QED BY <3>1, <3>2, <3>3, <3>4 DEF MeaningIn
  <2>2. CASE n \notin SystemMethods
    <3>1. DeclaresIn(dec, tab2, a, n) <=> DeclaresIn(dec, tab, a, n) BY <2>2 DEF DeclaresIn
    <3>2. M[a][n] = MeaningIn(M, ext, dec, tab, a, n) BY <1>2, MeaningAt
    <3>3. QED BY <2>2, <3>1, <3>2 DEF MeaningIn, Exits
  <2>3. QED BY <2>1, <2>2
<1>7. IsMeaning(N, ext, dec, tab2) BY <1>2, <1>4, <1>5, <1>6, MeaningChange
<1>8. QED BY <1>7 DEF tab2

LEMMA CallsSame ==
    ASSUME NEW M, NEW M2, NEW cal, NEW dec, NEW ext, CallsUp(M, cal, dec, ext), SameAbove(M, M2, ext)
    PROVE  CallsUp(M2, cal, dec, ext)
<1>1. Runners \subseteq Names BY DEF Runners, Names, SpecialMethods
<1>2. QED BY <1>1 DEF CallsUp, SameAbove

LEMMA ExitClassInv ==
    ASSUME IInv, ExitClass
    PROVE  IInv'
<1>1. PICK M : /\ Good(M, meth, data, class, current, emitted, calls, vTable, decl, extends)
               /\ CallsUp(M, calls, decl, extends)
  BY DEF IInv
<1> DEFINE c == class[current]
           a == c.name
           r == AddGenerated(meth, c)
           N == AllGenerated(M, a)
           t == TableOf(r.heap, r.class)
<1>2. current # 0 BY DEF ExitClass
<1>3. /\ Lined(class, decl) /\ current = Len(class) /\ current \in 1..Len(class)
      /\ current \in DOMAIN class /\ Ready(M, meth, data, c) /\ SoundIn(M, a)
      /\ a \in ClassNames /\ a \in DOMAIN extends /\ a \notin DOMAIN vTable
      /\ Shaped(M, extends) /\ DOMAIN M = DOMAIN extends
  BY <1>1, <1>2, GoodReady
<1>4. /\ Typed(meth, data, class, emitted, calls, decl)
      /\ Tree(class, extends) /\ Progress(class, current, vTable, decl, extends)
      /\ IsMeaning(M, extends, decl, vTable) /\ Objects(M, meth)
      /\ Held(M, meth, data, class, current, extends)
      /\ Written(M, emitted, vTable) /\ Tables(M, vTable)
  BY <1>1 DEF Good
<1>5. ASSUME NEW n \in SystemMethods PROVE M[a][n].in # a
  <2>1. n \in Names /\ n # "toPrimitive" BY DEF Names, SpecialMethods, SystemMethods
  <2>2. <<a, n>> \notin DOMAIN decl
    <3> SUFFICES ASSUME <<a, n>> \in DOMAIN decl PROVE FALSE OBVIOUS
    <3>1. PICK b \in ClassNames, x \in Names \ SystemMethods : <<a, n>> = <<b, x>>
      BY <1>4 DEF Progress
    <3>2. QED BY <3>1
  <2>3. ~DeclaresIn(decl, vTable, a, n) BY <1>3, <2>1, <2>2 DEF DeclaresIn
  <2>4. QED BY <1>3, <1>4, <2>1, <2>3, OwnMeaning
<1>6. Steady(M, meth, c, extends) BY <1>3 DEF Steady
<1>7. /\ Steady(N, r.heap, r.class, extends) /\ Evolves(meth, r.heap)
      /\ r.class.name = a /\ r.class.parents = c.parents
      /\ DOMAIN N = DOMAIN M
      /\ \A b \in DOMAIN M, x \in Names : b # a => N[b][x] = M[b][x]
      /\ \A x \in Names : N[a][x] =
            IF x \in SystemMethods THEN Declared(a, Makes(x), M[a][x]) ELSE M[a][x]
  BY <1>5, <1>6, AddGeneratedIs
<1>8. /\ meth' = r.heap /\ class' = Put(class, current, r.class)
      /\ emitted' = emitted \cup Own(r.heap, r.class) /\ vTable' = Extend(vTable, a, t)
      /\ current' = 0 /\ UNCHANGED <<bound, data, count, calls, errors, decl, extends>>
  <2>1. /\ meth' = r.heap /\ class' = Put(class, current, r.class)
        /\ emitted' = emitted \cup {[of |-> a, name |-> r.heap[j].name, from |-> j] :
                                      j \in {i \in r.class.methods : Writes(r.heap[i], c)}}
        /\ vTable' = Extend(vTable, a, t)
        /\ current' = 0 /\ UNCHANGED <<bound, data, count, calls, errors, decl, extends>>
    BY DEF ExitClass, Put
  <2> HIDE DEF r
  <2>2. \A i : Writes(r.heap[i], c) <=> Writes(r.heap[i], r.class) BY <1>7 DEF Writes
  <2>3. Own(r.heap, r.class) = {[of |-> a, name |-> r.heap[j].name, from |-> j] :
                                  j \in {i \in r.class.methods : Writes(r.heap[i], c)}}
    BY <1>7, <2>2 DEF Own
  <2>4. QED BY <2>1, <2>3
<1> HIDE DEF r, N, t
<1>9. Ready(N, r.heap, data, r.class) /\ Shaped(N, extends) BY <1>7 DEF Steady
<1>10. OnlyIn(M, N, a) /\ Len(class) # 0 /\ a = class[Len(class)].name BY <1>3, <1>7 DEF OnlyIn
<1>11. IsMeaning(N, extends, decl, vTable')
  <2>1. Exits(M, N, a) BY <1>5, <1>7, <1>10 DEF Exits
  <2>2. IsMeaning(N, extends, decl, Extend(vTable, a, t))
    BY <1>3, <1>4, <1>9, <1>10, <2>1, MeaningExit
  <2>3. QED BY <1>8, <2>2
<1>12. EvolvesData(data, data)
  <2>1. \A j \in DOMAIN data : data[j].name \in Names BY <1>3, ReadyHeap DEF Names
  <2>2. QED BY <2>1 DEF EvolvesData
<1>13. 0 \in {0, current} OBVIOUS
<1>14. /\ Held(N, r.heap, data, class', 0, extends) /\ Tree(class', extends)
       /\ class' \in Seq(ClassType(r.heap, data)) /\ Len(class') = Len(class)
       /\ DOMAIN class' = DOMAIN class /\ \A i \in DOMAIN class : class'[i].name = class[i].name
  BY <1>2, <1>4, <1>7, <1>8, <1>9, <1>12, <1>13, CurrentStep
<1>15. DOMAIN vTable' = DOMAIN vTable \cup {a} BY <1>8 DEF Extend
<1>16. Progress(class', 0, vTable', decl, extends)
  <2>1. DOMAIN vTable' \subseteq DOMAIN extends BY <1>3, <1>4, <1>15 DEF Progress
  <2>2. \A k \in DOMAIN decl : \E b \in ClassNames, n \in Names \ SystemMethods :
           k = <<b, n>> /\ b \in DOMAIN vTable'
    BY <1>4, <1>15 DEF Progress
  <2>3. QED BY <2>1, <2>2 DEF Progress
<1>17. Written(N, emitted', vTable') /\ Tables(N, vTable')
  <2>1. \A k \in DOMAIN vTable, n \in Names : N[k][n] = M[k][n]
    BY <1>3, <1>4, <1>7 DEF Progress
  <2>2. Written(N, emitted, vTable) /\ Tables(N, vTable) BY <1>4, <2>1, WrittenOn
  <2>3. Written(N, emitted \cup Own(r.heap, r.class), Extend(vTable, a, TableOf(r.heap, r.class)))
        /\ Tables(N, Extend(vTable, a, TableOf(r.heap, r.class)))
    BY <1>3, <1>7, <1>9, <2>2, WrittenMore
  <2>4. QED BY <1>8, <2>3 DEF t
<1>18. Typed(r.heap, data, class', emitted', calls, decl)
  <2>1. r.heap \in Seq(MethodType) BY <1>9 DEF Ready
  <2>2. DOMAIN meth \subseteq DOMAIN r.heap BY <1>7 DEF Evolves
  <2>3. emitted \subseteq [of : ClassNames, name : Names, from : DOMAIN r.heap]
    BY <1>4, <2>2 DEF Typed
  <2>4. Own(r.heap, r.class) \subseteq [of : ClassNames, name : Names, from : DOMAIN r.heap]
    BY <1>9, OwnWritten
  <2>5. emitted' \subseteq [of : ClassNames, name : Names, from : DOMAIN r.heap]
    BY <1>8, <2>3, <2>4
  <2>6. QED BY <1>4, <1>14, <2>1, <2>5 DEF Typed
<1>19. Objects(N, r.heap) BY <1>9 DEF Ready
<1>20. Good(N, meth', data', class', current', emitted', calls', vTable', decl', extends')
  BY <1>8, <1>11, <1>14, <1>16, <1>17, <1>18, <1>19 DEF Good
<1>21. CallsUp(N, calls', decl', extends')
  <2>1. SameAbove(M, N, extends) BY <1>3, <1>4, <1>10, AboveSame
  <2>2. CallsUp(N, calls, decl, extends) BY <1>1, <2>1, CallsSame
  <2>3. QED BY <1>8, <2>2
<1>22. Counted BY <1>8 DEF IInv, Counted
<1>23. QED BY <1>20, <1>21, <1>22, CountedInv

--------------------------------------------------------------------------------
(* What a class inherits. *)

Inherits(heap, up) == {j \in up.methods : heap[j].name # "toPrimitive"}

Marked(m) == [Hide(m) EXCEPT !.inherited = TRUE]

\* The state of inherit when it has met the first k objects.
HeapAt(heap, up, k) ==
    [j \in DOMAIN heap |-> IF j \in Inherits(heap, up) /\ j <= k THEN Marked(heap[j]) ELSE heap[j]]

ClassAt(heap, c, up, k) ==
    [c EXCEPT !.methods = c.methods \cup {j \in Inherits(heap, up) : j <= k}]

Taken(heap, c, up, k) ==
    [ok |-> TRUE, heap |-> HeapAt(heap, up, k), class |-> ClassAt(heap, c, up, k)]

InheritStep(heap, c, up, F, k) ==
    IF k = 0 THEN [ok |-> TRUE, heap |-> heap, class |-> c]
    ELSE IF k \in up.methods /\ heap[k].name # "toPrimitive"
         THEN InheritMethod(F[k - 1].heap, F[k - 1].class, k)
         ELSE F[k - 1]

\* A new class c, and the class that it names as its parent.
Heir(heap, c, up) ==
    /\ heap \in Seq(MethodType)
    /\ c \in [name : ClassNames, methods : SUBSET DOMAIN heap, members : {{}}, custom : {FALSE},
              parents : Seq(ClassNames)]
    /\ \A j \in c.methods : heap[j].name = "toPrimitive"
    /\ up.methods \subseteq DOMAIN heap
    /\ \A j, k \in up.methods : heap[j].name = heap[k].name => j = k

LEMMA MarkedType ==
    ASSUME NEW m \in MethodType
    PROVE  /\ Marked(m) \in MethodType /\ Marked(m).name = m.name
           /\ Marked(m).inherited = TRUE /\ Marked(m).owner = m.owner /\ Marked(m).last = m.last
           /\ Marked(m).virtual = m.virtual /\ Marked(m).overridable = m.overridable
           /\ Marked(m).scope = IF m.scope = "private" THEN "inaccessible" ELSE m.scope
           /\ Origin(Marked(m)) = Origin(m)
  BY DEF Marked, Hide, MethodType, ScopeType, Scopes, Origin

LEMMA TakenStep ==
    ASSUME NEW heap, NEW c, NEW up, Heir(heap, c, up), NEW k \in 1..Len(heap)
    PROVE  Taken(heap, c, up, k) =
              IF k \in up.methods /\ heap[k].name # "toPrimitive"
              THEN InheritMethod(HeapAt(heap, up, k - 1), ClassAt(heap, c, up, k - 1), k)
              ELSE Taken(heap, c, up, k - 1)
<1> DEFINE P == Inherits(heap, up)
           H == HeapAt(heap, up, k - 1)
           C == ClassAt(heap, c, up, k - 1)
           K == HeapAt(heap, up, k)
<1>1. /\ Len(heap) \in Nat /\ DOMAIN heap = 1..Len(heap) /\ k \in DOMAIN heap
      /\ \A j \in DOMAIN heap : heap[j] \in MethodType
  BY LenProperties, ElementOfSeq DEF Heir
<1>2. \A j \in DOMAIN heap : j <= k <=> j <= k - 1 \/ j = k BY <1>1
<1>3. P \subseteq DOMAIN heap BY DEF Heir, Inherits
<1>4. CASE k \notin P
  <2>1. \A j \in DOMAIN heap : j \in P /\ j <= k <=> j \in P /\ j <= k - 1 BY <1>2, <1>4
  <2>2. H = K BY <2>1 DEF HeapAt
  <2>3. {j \in P : j <= k} = {j \in P : j <= k - 1} BY <1>3, <2>1
  <2>4. C = ClassAt(heap, c, up, k) BY <2>3 DEF ClassAt
  <2>5. QED BY <1>4, <2>2, <2>4 DEF Taken, Inherits
<1>5. CASE k \in P
  <2> DEFINE G == [H EXCEPT ![k] = [Hide(@) EXCEPT !.inherited = TRUE]]
  <2>1. DOMAIN H = DOMAIN heap /\ DOMAIN K = DOMAIN heap BY DEF HeapAt
  <2>2. ~(k <= k - 1) /\ k <= k BY <1>1
  <2>3. H[k] = heap[k] /\ K[k] = Marked(heap[k]) BY <1>1, <1>5, <2>2 DEF HeapAt
  <2>4. \A j \in DOMAIN heap : j # k => K[j] = H[j] BY <1>2 DEF HeapAt
  <2>5. G = K
    <3>1. DOMAIN G = DOMAIN heap /\ G[k] = Marked(heap[k])
          /\ \A j \in DOMAIN heap : j # k => G[j] = H[j]
      BY <1>1, <2>1, <2>3 DEF Marked
    <3>2. \A j \in DOMAIN heap : G[j] = K[j] BY <2>3, <2>4, <3>1
    <3>3. G = [j \in DOMAIN heap |-> G[j]] BY <2>1
    <3>4. K = [j \in DOMAIN heap |-> K[j]] BY DEF HeapAt
    <3>5. QED BY <3>2, <3>3, <3>4
  <2>6. InheritMethod(H, C, k) = AddMethod(K, C, k) BY <2>5 DEF InheritMethod
  <2>7. \A j \in DOMAIN heap : K[j].name = heap[j].name
    <3>1. \A j \in DOMAIN heap : K[j] = Marked(heap[j]) \/ K[j] = heap[j] BY DEF HeapAt
    <3>2. QED BY <1>1, <3>1, MarkedType
  <2>8. /\ C.methods = c.methods \cup {j \in P : j <= k - 1} /\ C.members = {}
        /\ C.custom = FALSE /\ C.name = c.name /\ C.methods \subseteq DOMAIN heap
    BY <1>3 DEF ClassAt, Heir
  <2>9. heap[k].name # "toPrimitive" /\ k \in up.methods BY <1>5 DEF Inherits
  <2>10. K[k].inherited = TRUE BY <1>1, <2>3, MarkedType
  <2> HIDE DEF G, H, K, C
  <2>11. ~Custom(K[k], C) BY <1>1, <2>7, <2>9 DEF Custom
  <2>12. Asked(K, C, k) = C.methods BY <2>11 DEF Asked
  <2>13. Named(K, C.methods, K[k].name) = {}
    <3>1. ASSUME NEW j \in c.methods PROVE K[j].name # K[k].name
      <4>1. j \in DOMAIN heap /\ heap[j].name = "toPrimitive" BY DEF Heir
      <4>2. QED BY <1>1, <2>7, <2>9, <4>1
    <3>2. ASSUME NEW j \in P, j <= k - 1 PROVE K[j].name # K[k].name
      <4>1. j # k BY <2>2, <3>2
      <4>2. heap[j].name # heap[k].name BY <2>9, <4>1 DEF Heir, Inherits
      <4>3. QED BY <1>1, <1>3, <2>7, <4>2
    <3>3. QED BY <2>8, <3>1, <3>2 DEF Named
  <2>14. Over(K, C, k) = {} BY <2>12, <2>13 DEF Over
  <2>15. Coming(K, C, k) = K[k] BY <2>11, <2>14 DEF Coming
  <2>16. Accepted(K, C, k) = TRUE BY <2>8, <2>12, <2>13, <2>14 DEF Accepted, Named
  <2>17. Place(Coming(K, C, k), C) = K[k] BY <2>10, <2>15 DEF Place
  <2>18. [K EXCEPT ![k] = K[k]] = K
    <3>1. K = [j \in DOMAIN heap |-> K[j]] BY DEF HeapAt, K
    <3>2. QED BY <1>1, <3>1
  <2>19. [C EXCEPT !.methods = (C.methods \ {}) \cup {k}, !.custom = @ \/ FALSE]
         = ClassAt(heap, c, up, k)
    <3>1. {j \in P : j <= k} = {j \in P : j <= k - 1} \cup {k} BY <1>2, <1>3, <1>5
    <3>2. QED BY <2>8, <3>1 DEF ClassAt, C, Heir
  <2>20. AddMethod(K, C, k) = [ok |-> TRUE, heap |-> K, class |-> ClassAt(heap, c, up, k)]
    <3>1. AddMethod(K, C, k) =
            [ok    |-> Accepted(K, C, k),
             heap  |-> [K EXCEPT ![k] = Place(Coming(K, C, k), C)],
             class |-> [C EXCEPT !.methods = (Asked(K, C, k) \ Over(K, C, k))
                                                   \cup (IF Accepted(K, C, k) THEN {k} ELSE {}),
                                 !.custom  = @ \/ Custom(K[k], C)]]
      BY AddMethodIs
    <3>2. Custom(K[k], C) = FALSE BY <2>11 DEF Custom
    <3>3. AddMethod(K, C, k) =
            [ok    |-> TRUE, heap  |-> K,
             class |-> [C EXCEPT !.methods = (C.methods \ {}) \cup {k}, !.custom  = @ \/ FALSE]]
      BY <2>12, <2>14, <2>16, <2>17, <2>18, <3>1, <3>2
    <3>4. QED BY <2>19, <3>3
  <2>21. QED BY <2>6, <2>9, <2>20 DEF Taken, H, K, C
<1>6. QED BY <1>4, <1>5

LEMMA InheritMethodsIs ==
    ASSUME NEW heap, NEW c, NEW up, Heir(heap, c, up)
    PROVE  InheritMethods(heap, c, up) = Taken(heap, c, up, Len(heap))
<1> DEFINE L == Len(heap)
           g == [k \in 0..L |-> Taken(heap, c, up, k)]
           f == CHOOSE F : F = [k \in 0..L |-> InheritStep(heap, c, up, F, k)]
<1>1. L \in Nat /\ DOMAIN heap = 1..L BY LenProperties DEF Heir
<1>2. Taken(heap, c, up, 0) = [ok |-> TRUE, heap |-> heap, class |-> c]
  <2>1. \A j \in DOMAIN heap : ~(j <= 0) BY <1>1
  <2>2. heap = [j \in DOMAIN heap |-> heap[j]] BY <1>1 DEF Heir
  <2>3. HeapAt(heap, up, 0) = heap BY <2>1, <2>2 DEF HeapAt
  <2>4. {j \in Inherits(heap, up) : j <= 0} = {} BY <2>1 DEF Heir, Inherits
  <2>5. ClassAt(heap, c, up, 0) = c BY <2>4 DEF ClassAt, Heir
  <2>6. QED BY <2>3, <2>5 DEF Taken
<1>3. ASSUME NEW F, NEW k \in 1..L, F[k - 1] = Taken(heap, c, up, k - 1)
      PROVE  InheritStep(heap, c, up, F, k) = Taken(heap, c, up, k)
  <2>1. k # 0 BY <1>1
  <2>2. F[k - 1].heap = HeapAt(heap, up, k - 1) /\ F[k - 1].class = ClassAt(heap, c, up, k - 1)
    BY <1>3 DEF Taken
  <2>3. Taken(heap, c, up, k) =
           IF k \in up.methods /\ heap[k].name # "toPrimitive"
           THEN InheritMethod(HeapAt(heap, up, k - 1), ClassAt(heap, c, up, k - 1), k)
           ELSE Taken(heap, c, up, k - 1)
    BY TakenStep
  <2>4. QED BY <1>3, <2>1, <2>2, <2>3 DEF InheritStep
<1>4. g = [k \in 0..L |-> InheritStep(heap, c, up, g, k)]
  <2>1. ASSUME NEW k \in 0..L PROVE g[k] = InheritStep(heap, c, up, g, k)
    <3>1. CASE k = 0 BY <1>1, <1>2, <3>1 DEF InheritStep
    <3>2. CASE k # 0
      <4>1. k \in 1..L /\ k - 1 \in 0..L BY <1>1, <3>2
      <4>2. g[k - 1] = Taken(heap, c, up, k - 1) BY <4>1
      <4> HIDE DEF g
      <4>3. InheritStep(heap, c, up, g, k) = Taken(heap, c, up, k) BY <1>3, <4>1, <4>2
      <4>4. QED BY <4>3 DEF g
    <3>3. QED BY <3>1, <3>2
  <2>2. QED BY <2>1
<1>5. f = [k \in 0..L |-> InheritStep(heap, c, up, f, k)]
  <2> HIDE DEF g
  <2>1. \E F : F = [k \in 0..L |-> InheritStep(heap, c, up, F, k)] BY <1>4
  <2>2. QED BY <2>1
<1>6. InheritMethods(heap, c, up) = f[L] BY DEF InheritMethods, InheritStep
<1> HIDE DEF f, g
<1>7. f[0] = Taken(heap, c, up, 0)
  <2>1. 0 \in 0..L BY <1>1
  <2>2. f[0] = InheritStep(heap, c, up, f, 0) BY <1>5, <2>1
  <2>3. QED BY <1>2, <2>2 DEF InheritStep
<1> DEFINE S == {k \in 1..L : f[k] = Taken(heap, c, up, k)}
<1>8. ASSUME NEW k \in 1..L, \A j \in 1..(k - 1) : j \in S PROVE k \in S
  <2>1. k \in 0..L /\ (k - 1 = 0 \/ k - 1 \in 1..(k - 1)) BY <1>1
  <2>2. f[k - 1] = Taken(heap, c, up, k - 1) BY <1>7, <1>8, <2>1
  <2>3. f[k] = InheritStep(heap, c, up, f, k) BY <1>5, <2>1
  <2>4. QED BY <1>3, <2>2, <2>3
<1>9. \A k \in 1..L : k \in S
  <2> HIDE DEF S
  <2>1. QED BY <1>1, <1>8, Upwards
<1>10. f[L] = Taken(heap, c, up, L)
  <2>1. L = 0 \/ L \in 1..L BY <1>1
  <2>2. QED BY <1>7, <1>9, <2>1
<1>11. QED BY <1>6, <1>10

--------------------------------------------------------------------------------
(* The beginning of a class. *)

DefaultDeclaration == [kind |-> "method", scope |-> "public", virtual |-> TRUE]

\* The meanings when name comes to the classes.
Joined(M, ext2, name) ==
    Extend(M, name,
           [n \in Names |->
               IF n = "toPrimitive" THEN Declared(name, DefaultDeclaration, AboveIn(M, ext2, name, n))
               ELSE AboveIn(M, ext2, name, n)])

\* What name means then, as an heir of p.
Enters(M, N, ext, ext2, name, p) ==
    /\ DOMAIN N = DOMAIN ext \cup {name} /\ DOMAIN ext2 = DOMAIN ext \cup {name}
    /\ \A b \in DOMAIN ext :
          /\ ext2[b] = ext[b] /\ UpOf(ext2, b) = UpOf(ext, b)
          /\ \A n \in Names : N[b][n] = M[b][n] /\ AboveIn(N, ext2, b, n) = AboveIn(M, ext, b, n)
    /\ ext2[name] = p /\ UpOf(ext2, name) = IF p = name THEN NoClass ELSE p
    /\ \A n \in Names \ {"toPrimitive"} :
          N[name][n] = IF p \in {NoClass, name} THEN Nothing ELSE M[p][n]
    /\ LET m == N[name]["toPrimitive"]
       IN  m.in = name /\ m.kind = "method" /\ m.scope = "public" /\ m.virtual = TRUE

LEMMA JoinedIs ==
    ASSUME NEW M, NEW cls, NEW ext, NEW dec, NEW tab, Lined(cls, dec), Tree(cls, ext),
           Progress(cls, 0, tab, dec, ext), IsMeaning(M, ext, dec, tab),
           NEW name \in ClassNames, name \notin DOMAIN ext, NEW p,
           p = NoClass \/ p = name \/ p \in DOMAIN ext
    PROVE  LET ext2 == Extend(ext, name, p)
               N    == Joined(M, ext2, name)
           IN  Enters(M, N, ext, ext2, name, p) /\ IsMeaning(N, ext2, dec, tab)
<1> DEFINE ext2  == Extend(ext, name, p)
           N     == Joined(M, ext2, name)
           up    == AboveIn(M, ext2, name, "toPrimitive")
           above == [n \in Names |-> AboveIn(M, ext2, name, n)]
<1>1. /\ DOMAIN ext2 = DOMAIN ext \cup {name} /\ ext2[name] = p
      /\ \A b \in DOMAIN ext : ext2[b] = ext[b]
  BY DEF Extend
<1>2. DOMAIN M = DOMAIN ext /\ name # NoClass BY MeaningShaped, ClassesAssumption
<1>3. /\ DOMAIN N = DOMAIN ext \cup {name}
      /\ \A b \in DOMAIN ext : N[b] = M[b]
      /\ N[name] = [n \in Names |->
                      IF n = "toPrimitive"
                      THEN Declared(name, DefaultDeclaration, AboveIn(M, ext2, name, n))
                      ELSE AboveIn(M, ext2, name, n)]
  BY <1>2 DEF Joined, Extend
<1> HIDE DEF ext2, N
<1>4. \A b \in DOMAIN ext : UpOf(ext2, b) = UpOf(ext, b) BY <1>1 DEF UpOf
<1>5. UpOf(ext2, name) = IF p = name THEN NoClass ELSE p BY <1>1 DEF UpOf
<1>6. ASSUME NEW b \in DOMAIN ext PROVE UpOf(ext, b) = NoClass \/ UpOf(ext, b) \in DOMAIN ext
  <2>1. PICK i \in 1..Len(cls) : cls[i].name = b BY DEF Tree, Lined
  <2>2. \A k \in 1..(i - 1) : k \in DOMAIN cls BY DEF Lined
  <2>3. QED BY <2>1, <2>2 DEF Tree, Lined
<1>7. \A b \in DOMAIN ext, n \in Names : AboveIn(N, ext2, b, n) = AboveIn(M, ext, b, n)
  BY <1>3, <1>4, <1>6 DEF AboveIn
<1>8. \A n \in Names : AboveIn(N, ext2, name, n) = AboveIn(M, ext2, name, n)
  BY <1>1, <1>3, <1>5 DEF AboveIn
<1>9. \A n \in Names : AboveIn(M, ext2, name, n) = IF p \in {NoClass, name} THEN Nothing ELSE M[p][n]
  BY <1>2, <1>5 DEF AboveIn
<1>10. "toPrimitive" \in Names BY DEF Names, SpecialMethods
<1>11. up = Nothing \/ up.virtual = TRUE
  <2>1. CASE p \in {NoClass, name} BY <1>9, <1>10, <2>1
  <2>2. CASE p \notin {NoClass, name}
    <3>1. PICK i \in 1..Len(cls) : cls[i].name = p BY <2>2 DEF Tree, Lined
    <3>2. SoundIn(M, p) BY <3>1, SoundInClass
    <3>3. M[p]["toPrimitive"].virtual = TRUE BY <1>10, <3>2 DEF SoundIn, MeaningType
    <3>4. QED BY <1>9, <1>10, <2>2, <3>3
  <2>3. QED BY <2>1, <2>2
<1>12. N[name]["toPrimitive"] = Declared(name, DefaultDeclaration, up) BY <1>3, <1>10
<1> HIDE DEF up
<1>13. LET m == N[name]["toPrimitive"]
       IN  m.in = name /\ m.kind = "method" /\ m.scope = "public" /\ m.virtual = TRUE
  BY <1>11, <1>12 DEF Declared, DefaultDeclaration, Nothing
<1>14. \A n \in Names \ {"toPrimitive"} :
          N[name][n] = IF p \in {NoClass, name} THEN Nothing ELSE M[p][n]
  BY <1>3, <1>9
<1>15. Enters(M, N, ext, ext2, name, p)
  BY <1>1, <1>3, <1>4, <1>5, <1>7, <1>13, <1>14 DEF Enters
<1>16. ASSUME NEW n \in Names PROVE N[name][n] = MeaningIn(N, ext2, dec, tab, name, n)
  <2>1. <<name, n>> \notin DOMAIN dec
    <3> SUFFICES ASSUME <<name, n>> \in DOMAIN dec PROVE FALSE OBVIOUS
    <3>1. PICK b \in ClassNames, x \in Names : <<name, n>> = <<b, x>> /\ b \in DOMAIN tab
      BY DEF Progress
    <3>2. name \in DOMAIN tab BY <3>1
    <3>3. QED BY <3>2 DEF Progress
  <2>2. name \notin DOMAIN tab BY DEF Progress
  <2>3. DeclaresIn(dec, tab, name, n) <=> n = "toPrimitive" BY <2>1, <2>2 DEF DeclaresIn
  <2>4. CASE n = "toPrimitive"
    <3>1. DeclarationIn(dec, name, n) = DefaultDeclaration
      BY <2>4 DEF DeclarationIn, DefaultDeclaration, SpecialMethods
    <3>2. N[name][n] = Declared(name, DefaultDeclaration, AboveIn(M, ext2, name, n)) BY <1>3, <2>4
    <3>3. QED BY <1>8, <2>3, <2>4, <3>1, <3>2 DEF MeaningIn
  <2>5. CASE n # "toPrimitive" BY <1>3, <1>8, <2>3, <2>5 DEF MeaningIn
  <2>6. QED BY <2>4, <2>5
<1>17. ASSUME NEW b \in DOMAIN ext, NEW n \in Names
       PROVE  N[b][n] = MeaningIn(N, ext2, dec, tab, b, n)
  <2>1. M[b][n] = MeaningIn(M, ext, dec, tab, b, n) BY DEF IsMeaning
  <2>2. MeaningIn(N, ext2, dec, tab, b, n) = MeaningIn(M, ext, dec, tab, b, n)
    BY <1>7 DEF MeaningIn
  <2>3. QED BY <1>3, <2>1, <2>2
<1>18. ASSUME NEW b \in DOMAIN ext2
       PROVE  N[b] = [n \in Names |-> MeaningIn(N, ext2, dec, tab, b, n)]
  <2>1. \A n \in Names : N[b][n] = MeaningIn(N, ext2, dec, tab, b, n) BY <1>1, <1>16, <1>17
  <2>2. N[b] = [n \in Names |-> N[b][n]]
    <3>1. CASE b = name BY <1>3, <3>1
    <3>2. CASE b \in DOMAIN ext
      <4>1. M[b] = [n \in Names |-> M[b][n]] BY <3>2, MeaningShaped DEF Shaped
      <4>2. QED BY <1>3, <3>2, <4>1
    <3>3. QED BY <1>1, <3>1, <3>2
  <2>3. QED BY <2>1, <2>2
<1>19. N = [b \in DOMAIN ext2 |-> N[b]] BY <1>1, <1>2 DEF N, Joined, Extend
<1>20. IsMeaning(N, ext2, dec, tab) BY <1>18, <1>19 DEF IsMeaning
<1>21. QED BY <1>15, <1>20 DEF N, ext2

\* What a new class takes from the one that it names as its parent: the methods P, the members Q.
Gives(heap, cls, name, p, P, Q) ==
    \/ p \in {NoClass, name} /\ P = {} /\ Q = {}
    \/ \E k \in DOMAIN cls :
          cls[k].name = p /\ P = Inherits(heap, cls[k]) /\ Q = cls[k].members

Arrives(heap, dat, name, p, P, Q, heap2, dat2, c2) ==
    /\ heap2 \in Seq(MethodType) /\ dat2 \in Seq(MemberType)
    /\ DOMAIN heap2 = DOMAIN heap \cup {Len(heap) + 1} /\ DOMAIN dat2 = DOMAIN dat
    /\ heap2[Len(heap) + 1] = DefaultToPrimitive(name)
    /\ \A j \in DOMAIN heap : heap2[j] = IF j \in P THEN Marked(heap[j]) ELSE heap[j]
    /\ \A j \in DOMAIN dat : dat2[j] = IF j \in Q THEN Hide(dat[j]) ELSE dat[j]
    /\ c2 \in ClassType(heap2, dat2) /\ c2.name = name /\ GetParent(c2) = p
    /\ c2.methods = P \cup {Len(heap) + 1} /\ c2.members = Q

LEMMA GoodTyped ==
    ASSUME NEW M, NEW heap, NEW dat, NEW cls, NEW cur, NEW emi, NEW cal, NEW tab, NEW dec, NEW ext,
           Good(M, heap, dat, cls, cur, emi, cal, tab, dec, ext)
    PROVE  /\ Lined(cls, dec) /\ Len(cls) \in Nat /\ DOMAIN cls = 1..Len(cls)
           /\ \A j \in DOMAIN heap : heap[j] \in MethodType /\ heap[j].name \in Names
           /\ \A j \in DOMAIN dat : dat[j] \in MemberType /\ dat[j].name \in MemberNames
                                    /\ dat[j].name \in Names
           /\ Len(heap) \in Nat /\ DOMAIN heap = 1..Len(heap) /\ Len(heap) + 1 \notin DOMAIN heap
           /\ \A i \in DOMAIN cls :
                 /\ cls[i] \in ClassType(heap, dat) /\ SoundIn(M, cls[i].name)
                 /\ cls[i].name \in DOMAIN ext /\ cls[i].name \in ClassNames
           /\ DOMAIN M = DOMAIN ext
<1>1. /\ heap \in Seq(MethodType) /\ dat \in Seq(MemberType) /\ cls \in Seq(ClassType(heap, dat))
  BY DEF Good, Typed
<1>2. Lined(cls, dec) BY TypedLined DEF Good
<1>3. Len(cls) \in Nat /\ DOMAIN cls = 1..Len(cls) BY <1>2 DEF Lined
<1>4. \A i \in DOMAIN cls : cls[i] \in ClassType(heap, dat) BY <1>1, <1>3, ElementOfSeq
<1>5. \A j \in DOMAIN heap : heap[j] \in MethodType BY <1>1, LenProperties, ElementOfSeq
<1>6. \A j \in DOMAIN dat : dat[j] \in MemberType BY <1>1, LenProperties, ElementOfSeq
<1>7. Len(heap) \in Nat /\ DOMAIN heap = 1..Len(heap) BY <1>1, LenProperties
<1>8. Len(heap) + 1 \notin 1..Len(heap) BY <1>7
<1>9. \A i \in DOMAIN cls : SoundIn(M, cls[i].name) BY <1>2, <1>3, SoundInClass DEF Good
<1>10. DOMAIN M = DOMAIN ext BY MeaningShaped DEF Good
<1>11. \A i \in DOMAIN cls : cls[i].name \in DOMAIN ext /\ cls[i].name \in ClassNames
  BY <1>9, <1>10 DEF SoundIn
<1>12. \A j \in DOMAIN heap : heap[j].name \in Names BY <1>5 DEF MethodType
<1>13. \A j \in DOMAIN dat : dat[j].name \in MemberNames BY <1>6 DEF MemberType
<1>14. MemberNames \subseteq Names BY DEF Names
<1>15. \A j \in DOMAIN dat : dat[j].name \in Names BY <1>13, <1>14
<1>16. QED BY <1>2, <1>3, <1>4, <1>5, <1>6, <1>7, <1>8, <1>9, <1>10, <1>11, <1>12, <1>13, <1>15

\* The others see that their methods are inherited, and their private members hidden.
LEMMA ArrivalSeen ==
    ASSUME NEW M, NEW heap, NEW dat, NEW cls, NEW emi, NEW cal, NEW tab, NEW dec, NEW ext,
           Good(M, heap, dat, cls, 0, emi, cal, tab, dec, ext),
           NEW name, NEW p, NEW P, NEW Q, NEW heap2, NEW dat2, NEW c2,
           Arrives(heap, dat, name, p, P, Q, heap2, dat2, c2)
    PROVE  /\ Evolves(heap, heap2) /\ EvolvesData(dat, dat2)
           /\ \A j \in DOMAIN dat : j \in Q => dat2[j].scope # "private"
           /\ \A j \in DOMAIN heap : j \in P => heap2[j].inherited
<1>1. /\ \A j \in DOMAIN heap : heap[j] \in MethodType /\ heap[j].name \in Names
      /\ \A j \in DOMAIN dat : dat[j] \in MemberType /\ dat[j].name \in Names
  BY GoodTyped
<1>2. \A j \in DOMAIN heap :
         /\ j \in DOMAIN heap2 /\ heap2[j].name = heap[j].name
         /\ Origin(heap2[j]) = Origin(heap[j]) /\ (heap[j].inherited => heap2[j].inherited)
         /\ (j \in P => heap2[j].inherited)
  BY <1>1, MarkedType DEF Arrives
<1>3. Evolves(heap, heap2) BY <1>1, <1>2 DEF Evolves
<1>4. \A m \in MemberType :
         /\ Hide(m).name = m.name
         /\ Hide(m).scope = IF m.scope = "private" THEN "inaccessible" ELSE m.scope
  BY DEF Hide, MemberType
<1>5. ASSUME NEW j \in DOMAIN dat
      PROVE  /\ j \in DOMAIN dat2 /\ dat2[j].name = dat[j].name
             /\ \/ dat2[j].scope = dat[j].scope
                \/ dat[j].scope = "private" /\ dat2[j].scope = "inaccessible"
             /\ j \in Q => dat2[j].scope # "private"
  <2>1. j \in DOMAIN dat2 /\ dat2[j] = IF j \in Q THEN Hide(dat[j]) ELSE dat[j] BY DEF Arrives
  <2>2. QED BY <1>1, <1>4, <2>1
<1>6. EvolvesData(dat, dat2) BY <1>1, <1>5 DEF EvolvesData
<1>7. QED BY <1>2, <1>3, <1>5, <1>6

LEMMA ArrivalObjects ==
    ASSUME NEW M, NEW heap, NEW dat, NEW cls, NEW emi, NEW cal, NEW tab, NEW dec, NEW ext,
           Good(M, heap, dat, cls, 0, emi, cal, tab, dec, ext),
           NEW name, NEW p, NEW P, NEW Q, NEW heap2, NEW dat2, NEW c2,
           Arrives(heap, dat, name, p, P, Q, heap2, dat2, c2),
           name \in ClassNames, NEW N, NEW ext2, Enters(M, N, ext, ext2, name, p)
    PROVE  Objects(N, heap2)
<1> DEFINE i == Len(heap) + 1
<1>1. /\ \A j \in DOMAIN heap : heap[j] \in MethodType /\ heap[j].name \in Names
      /\ DOMAIN M = DOMAIN ext
  BY GoodTyped
<1>2. DOMAIN N = DOMAIN ext \cup {name} /\ \A b \in DOMAIN ext, n \in Names : N[b][n] = M[b][n]
  BY DEF Enters
<1>3. ASSUME NEW j \in DOMAIN heap PROVE ObjectOf(N, heap2[j])
  <2> DEFINE o == Origin(heap[j])
             x == heap[j].name
  <2>1. ObjectOf(M, heap[j]) /\ x \in Names BY <1>1 DEF Good, Objects
  <2>2. o \in DOMAIN ext /\ N[o][x] = M[o][x] BY <1>1, <1>2, <2>1 DEF ObjectOf
  <2>3. M[o][x].scope \in Scopes
    <3>1. PICK k \in DOMAIN cls : cls[k].name = o BY <2>2 DEF Good, Tree
    <3>2. SoundIn(M, o) BY <3>1, GoodTyped
    <3>3. QED BY <2>1, <3>2 DEF SoundIn, MeaningType
  <2>4. ObjectOf(N, heap[j]) BY <1>2, <2>1, <2>2 DEF ObjectOf
  <2>5. ObjectOf(N, Marked(heap[j]))
    <3>1. heap[j] \in MethodType BY <1>1
    <3>2. /\ Marked(heap[j]).name = x /\ Origin(Marked(heap[j])) = o
          /\ Marked(heap[j]).inherited = TRUE /\ Marked(heap[j]).owner = heap[j].owner
          /\ Marked(heap[j]).last = heap[j].last
          /\ Marked(heap[j]).virtual = heap[j].virtual
          /\ Marked(heap[j]).overridable = heap[j].overridable
          /\ Marked(heap[j]).scope = IF heap[j].scope = "private" THEN "inaccessible" ELSE heap[j].scope
      BY <3>1, MarkedType
    <3>3. heap[j].inherited \in BOOLEAN BY <3>1 DEF MethodType
    <3>4. Marked(heap[j]).scope = IF N[o][x].scope = "private" THEN "inaccessible" ELSE N[o][x].scope
      BY <2>2, <2>3, <2>4, <3>2, <3>3 DEF ObjectOf, Scopes
    <3>5. QED BY <2>4, <3>2, <3>4 DEF ObjectOf
  <2>6. heap2[j] = Marked(heap[j]) \/ heap2[j] = heap[j] BY DEF Arrives
  <2>7. QED BY <2>4, <2>5, <2>6
<1>4. ObjectOf(N, heap2[i])
  <2>1. heap2[i] = NewMethod("toPrimitive", NoClass, "public", TRUE, TRUE, name)
    BY DEF Arrives, DefaultToPrimitive
  <2>2. Origin(heap2[i]) = name BY <2>1 DEF Origin, NewMethod
  <2>3. LET d == N[name]["toPrimitive"]
        IN  d.in = name /\ d.kind = "method" /\ d.scope = "public" /\ d.virtual = TRUE
    BY DEF Enters
  <2>4. /\ heap2[i].name = "toPrimitive" /\ heap2[i].virtual = TRUE /\ heap2[i].overridable = TRUE
        /\ heap2[i].scope = "public" /\ heap2[i].inherited = FALSE /\ heap2[i].last = name
    BY <2>1 DEF NewMethod
  <2>5. name \in DOMAIN N BY <1>2
  <2> HIDE DEF i
  <2>6. QED BY <2>2, <2>3, <2>4, <2>5 DEF ObjectOf
<1>5. DOMAIN heap2 = DOMAIN heap \cup {i} BY DEF Arrives
<1>6. QED BY <1>3, <1>4, <1>5 DEF Objects

LEMMA ArrivalHolds ==
    ASSUME NEW M, NEW heap, NEW dat, NEW cls, NEW emi, NEW cal, NEW tab, NEW dec, NEW ext,
           Good(M, heap, dat, cls, 0, emi, cal, tab, dec, ext),
           NEW name, NEW p, NEW P, NEW Q, Gives(heap, cls, name, p, P, Q),
           NEW heap2, NEW dat2, NEW c2,
           Arrives(heap, dat, name, p, P, Q, heap2, dat2, c2),
           name \in ClassNames, name \notin DOMAIN ext,
           NEW N, NEW ext2, Enters(M, N, ext, ext2, name, p)
    PROVE  HoldsMethods(N, heap2, c2) /\ HoldsMembers(N, dat2, c2) /\ Open(N, heap2, dat2, c2)
<1> DEFINE i == Len(heap) + 1
           meaning(n) == IF p \in {NoClass, name} THEN Nothing ELSE M[p][n]
<1>1. /\ \A j \in DOMAIN heap : heap[j] \in MethodType /\ heap[j].name \in Names
      /\ \A j \in DOMAIN dat : dat[j] \in MemberType /\ dat[j].name \in MemberNames
                               /\ dat[j].name \in Names
      /\ DOMAIN M = DOMAIN ext /\ i \notin DOMAIN heap /\ name # NoClass
  BY GoodTyped, ClassesAssumption
<1>2. /\ Evolves(heap, heap2) /\ EvolvesData(dat, dat2)
      /\ \A j \in DOMAIN dat : j \in Q => dat2[j].scope # "private"
      /\ \A j \in DOMAIN heap : j \in P => heap2[j].inherited
  BY ArrivalSeen
<1>3. \A n \in Names \ {"toPrimitive"} : N[name][n] = meaning(n) BY DEF Enters
<1>4. N[name]["toPrimitive"].in = name /\ N[name]["toPrimitive"].kind = "method" BY DEF Enters
<1>5. heap2[i].name = "toPrimitive" /\ Origin(heap2[i]) = name /\ heap2[i].inherited = FALSE
  BY DEF Arrives, DefaultToPrimitive, NewMethod, Origin
<1>6. c2.name = name /\ c2.methods = P \cup {i} /\ c2.members = Q BY DEF Arrives
<1> DEFINE Inherited ==
          /\ P \subseteq DOMAIN heap /\ Q \subseteq DOMAIN dat
          /\ \A j \in P : /\ heap[j].name # "toPrimitive" /\ meaning(heap[j].name).kind = "method"
                          /\ meaning(heap[j].name).in = Origin(heap[j])
                          /\ meaning(heap[j].name).in # name
          /\ \A j, k \in P : heap[j].name = heap[k].name => j = k
          /\ \A n \in Names \ {"toPrimitive"} :
                meaning(n).kind = "method" => \E j \in P : heap[j].name = n
          /\ \A j \in Q : LET m == meaning(dat[j].name)
                          IN  /\ m.kind = "data" /\ m.in # name
                              /\ \/ dat[j].scope = m.scope
                                 \/ m.scope = "private" /\ dat[j].scope = "inaccessible"
          /\ \A n \in Names : meaning(n).kind = "data" => \E j \in Q : dat[j].name = n
<1>7. Inherited
  <2>1. CASE p \in {NoClass, name} /\ P = {} /\ Q = {} BY <2>1 DEF Nothing
  <2>2. ASSUME NEW k \in DOMAIN cls, cls[k].name = p, P = Inherits(heap, cls[k]), Q = cls[k].members
        PROVE  Inherited
    <3>1. /\ cls[k] \in ClassType(heap, dat) /\ SoundIn(M, p) /\ p \in DOMAIN ext /\ p \in ClassNames
      BY <2>2, GoodTyped
    <3>2. p # NoClass /\ p # name BY <3>1, ClassesAssumption
    <3>3. \A n : meaning(n) = M[p][n] BY <3>2
    <3>4. \A n \in Names : M[p][n].in # name
      <4>1. \A n \in Names : M[p][n].in # NoClass => M[p][n].in \in DOMAIN M BY <3>1 DEF SoundIn
      <4>2. QED BY <1>1, <4>1
    <3>5. HoldsMethods(M, heap, cls[k]) /\ HoldsMembers(M, dat, cls[k]) BY DEF Good, Held
    <3>6. cls[k].methods \subseteq DOMAIN heap /\ cls[k].members \subseteq DOMAIN dat
      BY <3>1 DEF ClassType
    <3> HIDE DEF meaning
    <3>7. \A j \in P : /\ j \in DOMAIN heap /\ heap[j].name # "toPrimitive"
                       /\ M[p][heap[j].name].kind = "method"
                       /\ M[p][heap[j].name].in = Origin(heap[j])
      BY <2>2, <3>5, <3>6 DEF HoldsMethods, Inherits
    <3>8. \A j, h \in P : heap[j].name = heap[h].name => j = h
      BY <2>2, <3>5 DEF HoldsMethods, Inherits
    <3>9. \A n \in Names \ {"toPrimitive"} : M[p][n].kind = "method" => \E j \in P : heap[j].name = n
      BY <2>2, <3>5 DEF HoldsMethods, Inherits
    <3>10. \A j \in Q : LET m == M[p][dat[j].name]
                        IN  /\ j \in DOMAIN dat /\ m.kind = "data"
                            /\ \/ dat[j].scope = m.scope
                               \/ m.scope = "private" /\ dat[j].scope = "inaccessible"
      BY <2>2, <3>5, <3>6 DEF HoldsMembers
    <3>11. \A n \in Names : M[p][n].kind = "data" => \E j \in Q : dat[j].name = n
      BY <2>2, <3>5 DEF HoldsMembers
    <3>12. QED BY <1>1, <3>3, <3>4, <3>7, <3>8, <3>9, <3>10, <3>11
  <2>3. QED BY <2>1, <2>2 DEF Gives
<1> HIDE DEF meaning, i
<1>8. \A j \in P : /\ heap2[j].name = heap[j].name /\ Origin(heap2[j]) = Origin(heap[j])
                   /\ heap[j].name \in Names /\ heap2[j].inherited /\ j # i
                   /\ N[name][heap[j].name] = meaning(heap[j].name)
  BY <1>1, <1>2, <1>3, <1>7 DEF Evolves
<1>9. HoldsMethods(N, heap2, c2)
  <2>1. ASSUME NEW j \in c2.methods
        PROVE  /\ N[name][heap2[j].name].kind = "method"
               /\ N[name][heap2[j].name].in = Origin(heap2[j])
               /\ Origin(heap2[j]) # name => heap2[j].inherited
    <3>1. CASE j = i BY <1>4, <1>5, <3>1
    <3>2. CASE j \in P BY <1>7, <1>8, <3>2
    <3>3. QED BY <1>6, <3>1, <3>2
  <2>2. ASSUME NEW j \in c2.methods, NEW k \in c2.methods, heap2[j].name = heap2[k].name
        PROVE  j = k
    <3>1. CASE j \in P /\ k \in P BY <1>7, <1>8, <2>2, <3>1
    <3>2. CASE j = i \/ k = i BY <1>5, <1>6, <1>7, <1>8, <2>2, <3>2
    <3>3. QED BY <1>6, <3>1, <3>2
  <2>3. ASSUME NEW n \in Names, N[name][n].kind = "method" PROVE \E j \in c2.methods : heap2[j].name = n
    <3>1. CASE n = "toPrimitive" BY <1>5, <1>6, <3>1
    <3>2. CASE n # "toPrimitive"
      <4>1. PICK j \in P : heap[j].name = n BY <1>3, <1>7, <2>3, <3>2
      <4>2. QED BY <1>6, <1>8, <4>1
    <3>3. QED BY <3>1, <3>2
  <2>4. QED BY <1>6, <2>1, <2>2, <2>3 DEF HoldsMethods
<1>10. \A j \in Q : /\ dat2[j].name = dat[j].name /\ dat[j].name \in Names
                    /\ \/ dat2[j].scope = dat[j].scope
                       \/ dat[j].scope = "private" /\ dat2[j].scope = "inaccessible"
                    /\ dat2[j].scope # "private"
                    /\ N[name][dat[j].name] = meaning(dat[j].name)
  <2>1. \A j \in Q : j \in DOMAIN dat BY <1>7
  <2>2. "toPrimitive" \notin MemberNames BY ClassesAssumption DEF SpecialMethods
  <2>3. \A j \in Q : N[name][dat[j].name] = meaning(dat[j].name) BY <1>1, <1>3, <2>1, <2>2
  <2>4. QED BY <1>1, <1>2, <2>1, <2>3 DEF EvolvesData
<1>11. HoldsMembers(N, dat2, c2)
  <2>1. ASSUME NEW j \in Q
        PROVE  LET m == N[name][dat2[j].name]
               IN  /\ m.kind = "data" /\ m.in # name
                   /\ \/ dat2[j].scope = m.scope
                      \/ m.scope = "private" /\ dat2[j].scope = "inaccessible"
                   /\ dat2[j].scope # "private"
    BY <1>7, <1>10
  <2>2. ASSUME NEW n \in Names, N[name][n].kind = "data" PROVE \E j \in Q : dat2[j].name = n
    <3>1. n # "toPrimitive" BY <1>4, <2>2
    <3>2. PICK j \in Q : dat[j].name = n BY <1>3, <1>7, <2>2, <3>1
    <3>3. QED BY <1>10, <3>2
  <2>3. QED BY <1>6, <2>1, <2>2 DEF HoldsMembers
<1>12. Open(N, heap2, dat2, c2)
  <2>1. \A j \in c2.methods : Origin(heap2[j]) = name => ~heap2[j].inherited
    BY <1>5, <1>6, <1>7, <1>8
  <2>2. \A j \in c2.members : N[name][dat2[j].name].in # name BY <1>6, <1>7, <1>10
  <2>3. QED BY <1>6, <2>1, <2>2 DEF Open
<1>13. QED BY <1>9, <1>11, <1>12

\* c2 is the last of cls2.
Longer(cls, c2, cls2, heap2, dat2, ext2) ==
    /\ Tree(cls2, ext2) /\ cls2 \in Seq(ClassType(heap2, dat2))
    /\ Len(cls2) = Len(cls) + 1 /\ DOMAIN cls2 = DOMAIN cls \cup {Len(cls) + 1}
    /\ Len(cls) + 1 \notin DOMAIN cls
    /\ cls2[Len(cls) + 1] = c2 /\ \A i \in DOMAIN cls : cls2[i] = cls[i]

LEMMA ArrivalTree ==
    ASSUME NEW cls, NEW ext, NEW dec, NEW heap, NEW dat, NEW heap2, NEW dat2, NEW c2,
           cls \in Seq(ClassType(heap, dat)), c2 \in ClassType(heap2, dat2),
           DOMAIN heap \subseteq DOMAIN heap2, DOMAIN dat \subseteq DOMAIN dat2,
           Lined(cls, dec), Tree(cls, ext), NEW name, name \notin DOMAIN ext, NEW p,
           p = NoClass \/ p = name \/ p \in DOMAIN ext, c2.name = name, GetParent(c2) = p,
           NEW M, NEW N, NEW ext2, Enters(M, N, ext, ext2, name, p)
    PROVE  Longer(cls, c2, Append(cls, c2), heap2, dat2, ext2)
<1> DEFINE T    == ClassType(heap2, dat2)
           cls2 == Append(cls, c2)
           L    == Len(cls) + 1
<1>1. cls \in Seq(T)
  <2>1. ClassType(heap, dat) \subseteq T BY DEF ClassType
  <2>2. cls \in [1..Len(cls) -> ClassType(heap, dat)] /\ Len(cls) \in Nat BY LenProperties
  <2> HIDE DEF T
  <2>3. cls \in [1..Len(cls) -> T] BY <2>1, <2>2
  <2>4. QED BY <2>2, <2>3, SeqDef
<1> HIDE DEF T
<1>2. c2 \in T BY DEF T
<1>3. /\ cls2 \in Seq(T) /\ Len(cls) \in Nat /\ Len(cls2) = L /\ DOMAIN cls = 1..Len(cls)
      /\ DOMAIN cls2 = DOMAIN cls \cup {L} /\ L \notin DOMAIN cls
      /\ (\A i \in DOMAIN cls : cls2[i] = cls[i]) /\ cls2[L] = c2
  BY <1>1, <1>2, Appended
<1> HIDE DEF cls2
<1>4. /\ \A i \in DOMAIN cls : cls[i].name \in DOMAIN ext
      /\ DOMAIN ext = {cls[i].name : i \in DOMAIN cls}
      /\ \A i, k \in DOMAIN cls : cls[i].name = cls[k].name => i = k
  BY DEF Tree
<1>5. \A i, k \in DOMAIN cls2 : cls2[i].name = cls2[k].name => i = k BY <1>3, <1>4
<1>6. DOMAIN ext2 = {cls2[i].name : i \in DOMAIN cls2}
  <2>1. DOMAIN ext2 = DOMAIN ext \cup {name} BY DEF Enters
  <2>2. \A x : x \in DOMAIN ext2 => \E i \in DOMAIN cls2 : cls2[i].name = x BY <1>3, <1>4, <2>1
  <2>3. \A i \in DOMAIN cls2 : cls2[i].name \in DOMAIN ext2 BY <1>3, <1>4, <2>1
  <2>4. QED BY <2>2, <2>3
<1>7. ASSUME NEW i \in DOMAIN cls2
      PROVE  /\ GetParent(cls2[i]) = ext2[cls2[i].name]
             /\ \/ UpOf(ext2, cls2[i].name) = NoClass
                \/ \E k \in 1..(i - 1) : cls2[k].name = UpOf(ext2, cls2[i].name)
  <2>1. CASE i \in DOMAIN cls
    <3>1. ext2[cls[i].name] = ext[cls[i].name] /\ UpOf(ext2, cls[i].name) = UpOf(ext, cls[i].name)
      BY <1>4, <2>1 DEF Enters
    <3>2. \A k \in 1..(i - 1) : k \in DOMAIN cls BY <1>3, <2>1
    <3>3. /\ GetParent(cls[i]) = ext[cls[i].name]
          /\ \/ UpOf(ext, cls[i].name) = NoClass
             \/ \E k \in 1..(i - 1) : cls[k].name = UpOf(ext, cls[i].name)
      BY <2>1 DEF Tree
    <3>4. QED BY <1>3, <2>1, <3>1, <3>2, <3>3
  <2>2. CASE i = L
    <3>1. cls2[i] = c2 BY <1>3, <2>2
    <3>2. ext2[name] = p /\ UpOf(ext2, name) = IF p = name THEN NoClass ELSE p BY DEF Enters
    <3>3. CASE p = NoClass \/ p = name BY <3>1, <3>2, <3>3
    <3>4. CASE p \in DOMAIN ext
      <4>1. PICK k \in DOMAIN cls : cls[k].name = p BY <1>4, <3>4
      <4>2. k \in 1..(i - 1) BY <1>3, <2>2, <4>1
      <4>3. QED BY <1>3, <3>1, <3>2, <4>1, <4>2
    <3>5. QED BY <3>3, <3>4
  <2>3. QED BY <1>3, <2>1, <2>2
<1>8. Tree(cls2, ext2) BY <1>5, <1>6, <1>7 DEF Tree
<1>9. QED BY <1>3, <1>8 DEF cls2, T, Longer

\* The state when a class has come, whether it is the one that is being defined or not.
LEMMA ArrivalGood ==
    ASSUME NEW M, NEW heap, NEW dat, NEW cls, NEW emi, NEW cal, NEW tab, NEW dec, NEW ext,
           Good(M, heap, dat, cls, 0, emi, cal, tab, dec, ext), CallsUp(M, cal, dec, ext),
           NEW name \in ClassNames, name \notin DOMAIN ext,
           NEW p, NEW P, NEW Q, Gives(heap, cls, name, p, P, Q),
           NEW heap2, NEW dat2, NEW c2, Arrives(heap, dat, name, p, P, Q, heap2, dat2, c2),
           NEW cur2 \in {0, Len(cls) + 1}
    PROVE  LET ext2 == Extend(ext, name, p)
               N    == Joined(M, ext2, name)
           IN  /\ Good(N, heap2, dat2, Append(cls, c2), cur2, emi, cal, tab, dec, ext2)
               /\ CallsUp(N, cal, dec, ext2)
<1> DEFINE ext2 == Extend(ext, name, p)
           N    == Joined(M, ext2, name)
           cls2 == Append(cls, c2)
           L    == Len(cls) + 1
<1>1. /\ Lined(cls, dec) /\ Len(cls) \in Nat /\ DOMAIN cls = 1..Len(cls)
      /\ \A i \in DOMAIN cls :
            /\ cls[i] \in ClassType(heap, dat) /\ SoundIn(M, cls[i].name)
            /\ cls[i].name \in DOMAIN ext /\ cls[i].name \in ClassNames
      /\ DOMAIN M = DOMAIN ext
  BY GoodTyped
<1>2. /\ Typed(heap, dat, cls, emi, cal, dec)
      /\ Tree(cls, ext) /\ Progress(cls, 0, tab, dec, ext)
      /\ IsMeaning(M, ext, dec, tab) /\ Objects(M, heap)
      /\ Held(M, heap, dat, cls, 0, ext)
      /\ Written(M, emi, tab) /\ Tables(M, tab)
  BY DEF Good
<1>3. p = NoClass \/ p = name \/ p \in DOMAIN ext BY <1>1 DEF Gives
<1>4. Enters(M, N, ext, ext2, name, p) /\ IsMeaning(N, ext2, dec, tab)
  BY <1>1, <1>2, <1>3, JoinedIs
<1> HIDE DEF N, ext2
<1>5. /\ Evolves(heap, heap2) /\ EvolvesData(dat, dat2)
      /\ \A j \in DOMAIN dat : j \in Q => dat2[j].scope # "private"
      /\ \A j \in DOMAIN heap : j \in P => heap2[j].inherited
  BY ArrivalSeen
<1>6. Objects(N, heap2) BY <1>4, ArrivalObjects
<1>7. HoldsMethods(N, heap2, c2) /\ HoldsMembers(N, dat2, c2) /\ Open(N, heap2, dat2, c2)
  BY <1>4, ArrivalHolds
<1>8. /\ heap2 \in Seq(MethodType) /\ dat2 \in Seq(MemberType)
      /\ DOMAIN heap \subseteq DOMAIN heap2 /\ DOMAIN dat \subseteq DOMAIN dat2
      /\ c2 \in ClassType(heap2, dat2) /\ c2.name = name /\ GetParent(c2) = p
  BY DEF Arrives
<1>9. cls \in Seq(ClassType(heap, dat)) BY <1>2 DEF Typed
<1>10. /\ Tree(cls2, ext2) /\ cls2 \in Seq(ClassType(heap2, dat2))
       /\ Len(cls2) = L /\ DOMAIN cls2 = DOMAIN cls \cup {L} /\ L \notin DOMAIN cls
       /\ cls2[L] = c2 /\ \A i \in DOMAIN cls : cls2[i] = cls[i]
  <2>1. Longer(cls, c2, cls2, heap2, dat2, ext2)
    BY <1>1, <1>2, <1>3, <1>4, <1>8, <1>9, ArrivalTree
  <2>2. QED BY <2>1 DEF Longer
<1> HIDE DEF cls2
<1>11. /\ DOMAIN ext2 = DOMAIN ext \cup {name}
       /\ \A b \in DOMAIN ext :
             /\ UpOf(ext2, b) = UpOf(ext, b)
             /\ \A n \in Names : N[b][n] = M[b][n] /\ AboveIn(N, ext2, b, n) = AboveIn(M, ext, b, n)
       /\ UpOf(ext2, name) = IF p = name THEN NoClass ELSE p
  BY <1>4 DEF Enters
<1>12. Typed(heap2, dat2, cls2, emi, cal, dec)
  <2>1. emi \subseteq [of : ClassNames, name : Names, from : DOMAIN heap2] BY <1>2, <1>8 DEF Typed
  <2>2. QED BY <1>2, <1>8, <1>10, <2>1 DEF Typed
<1>13. Progress(cls2, cur2, tab, dec, ext2)
  <2>1. cur2 \in {0, Len(cls2)} BY <1>10
  <2>2. DOMAIN tab \subseteq DOMAIN ext BY <1>2 DEF Progress
  <2>3. cur2 # 0 => cls2[cur2].name \notin DOMAIN tab BY <1>8, <1>10, <2>2
  <2>4. \A k \in DOMAIN dec : \E b \in ClassNames, n \in Names \ SystemMethods :
           k = <<b, n>> /\ b \in DOMAIN tab
    BY <1>2 DEF Progress
  <2>5. QED BY <1>11, <2>1, <2>2, <2>3, <2>4 DEF Progress
<1>14. ASSUME NEW i \in DOMAIN cls
       PROVE  HoldsMethods(N, heap2, cls2[i]) /\ HoldsMembers(N, dat2, cls2[i])
  <2>1. HoldsMethods(M, heap, cls[i]) /\ HoldsMembers(M, dat, cls[i]) BY <1>2 DEF Held
  <2>2. \A n \in Names : N[cls[i].name][n] = M[cls[i].name][n] BY <1>1, <1>11
  <2>3. cls[i] \in ClassType(heap, dat) BY <1>1
  <2>4. HoldsMethods(N, heap2, cls[i]) /\ HoldsMembers(N, dat2, cls[i])
    BY <1>5, <2>1, <2>2, <2>3, HoldsOn
  <2>5. QED BY <1>10, <2>4
<1>15. ASSUME NEW i \in DOMAIN cls2, NEW k \in DOMAIN cls2, cls2[k].name = UpOf(ext2, cls2[i].name)
       PROVE  Hidden(heap2, dat2, cls2[k])
  <2>1. CASE i \in DOMAIN cls
    <3>1. cls2[k].name = UpOf(ext, cls[i].name) BY <1>1, <1>10, <1>11, <1>15, <2>1
    <3>2. UpOf(ext, cls[i].name) = NoClass \/ UpOf(ext, cls[i].name) \in DOMAIN ext
      <4>1. \A h \in 1..(i - 1) : h \in DOMAIN cls BY <1>1, <2>1
      <4>2. QED BY <1>1, <1>2, <2>1, <4>1 DEF Tree
    <3>3. cls2[k].name # name
      <4>1. name # NoClass BY ClassesAssumption
      <4>2. QED BY <3>1, <3>2, <4>1
    <3>4. k \in DOMAIN cls BY <1>8, <1>10, <3>3
    <3>5. Hidden(heap, dat, cls[k]) BY <1>2, <1>10, <2>1, <3>1, <3>4 DEF Held
    <3>6. cls[k] \in ClassType(heap, dat) BY <1>1, <3>4
    <3>7. Hidden(heap2, dat2, cls[k]) BY <1>5, <3>5, <3>6, HiddenOn
    <3>8. QED BY <1>10, <3>4, <3>7
  <2>2. CASE i = L
    <3>1. cls2[k].name = UpOf(ext2, name) BY <1>8, <1>10, <1>15, <2>2
    <3>2. cls2[k].name # NoClass
      <4>1. cls2[k].name \in ClassNames BY <1>1, <1>8, <1>10
      <4>2. QED BY <4>1, ClassesAssumption
    <3>3. cls2[k].name = p /\ p # name /\ p # NoClass BY <1>11, <3>1, <3>2
    <3>4. k \in DOMAIN cls /\ cls2[k] = cls[k] BY <1>8, <1>10, <3>3
    <3>5. P = Inherits(heap, cls[k]) /\ Q = cls[k].members
      <4>1. PICK h \in DOMAIN cls : cls[h].name = p /\ P = Inherits(heap, cls[h]) /\ Q = cls[h].members
        BY <3>3 DEF Gives
      <4>2. h = k BY <1>2, <3>3, <3>4, <4>1 DEF Tree
      <4>3. QED BY <4>1, <4>2
    <3>6. cls[k].methods \subseteq DOMAIN heap /\ cls[k].members \subseteq DOMAIN dat
      BY <1>1, <3>4 DEF ClassType
    <3>7. \A j \in cls[k].methods : heap2[j].name = heap[j].name BY <1>5, <3>6 DEF Evolves
    <3>8. \A j \in cls[k].methods : heap2[j].name # "toPrimitive" => heap2[j].inherited
      BY <1>5, <3>5, <3>6, <3>7 DEF Inherits
    <3>9. \A j \in cls[k].members : dat2[j].scope # "private" BY <1>5, <3>5, <3>6
    <3>10. QED BY <3>4, <3>8, <3>9 DEF Hidden
  <2>3. QED BY <1>10, <2>1, <2>2
<1>16. Held(N, heap2, dat2, cls2, cur2, ext2)
  <2>1. \A i \in DOMAIN cls2 : HoldsMethods(N, heap2, cls2[i]) /\ HoldsMembers(N, dat2, cls2[i])
    BY <1>7, <1>10, <1>14
  <2>2. cur2 # 0 => Open(N, heap2, dat2, cls2[cur2]) BY <1>7, <1>10
  <2>3. QED BY <1>15, <2>1, <2>2 DEF Held
<1>17. Written(N, emi, tab) /\ Tables(N, tab)
  <2>1. \A b \in DOMAIN tab, n \in Names : N[b][n] = M[b][n] BY <1>2, <1>11 DEF Progress
  <2>2. QED BY <1>2, <2>1, WrittenOn
<1>18. CallsUp(N, cal, dec, ext2)
  <2>1. Runners \subseteq Names BY DEF Runners, Names, SpecialMethods
  <2>2. ASSUME NEW b \in DOMAIN ext2, NEW n \in Runners, <<b, n>> \in DOMAIN dec
        PROVE  <<b, n>> \in DOMAIN cal /\ cal[<<b, n>>] = AboveIn(N, ext2, b, n).in
    <3>1. PICK k \in ClassNames, x \in Names : <<b, n>> = <<k, x>> /\ k \in DOMAIN tab
      BY <1>2, <2>2 DEF Progress
    <3>2. b \in DOMAIN ext BY <1>2, <3>1 DEF Progress
    <3>3. n \in Names BY <2>1
    <3>4. AboveIn(N, ext2, b, n) = AboveIn(M, ext, b, n) BY <1>11, <3>2, <3>3
    <3>5. <<b, n>> \in DOMAIN cal /\ cal[<<b, n>>] = AboveIn(M, ext, b, n).in
      BY <2>2, <3>2 DEF CallsUp
    <3>6. QED BY <3>4, <3>5
  <2>3. QED BY <2>2 DEF CallsUp
<1>19. Good(N, heap2, dat2, cls2, cur2, emi, cal, tab, dec, ext2)
  BY <1>4, <1>6, <1>10, <1>12, <1>13, <1>16, <1>17 DEF Good
<1>20. QED BY <1>18, <1>19 DEF N, ext2, cls2

LEMMA KnownIs ==
    ASSUME NEW ext, Tree(class, ext), NEW name
    PROVE  Known(name) <=> name \in DOMAIN ext
  BY DEF Known, Tree

\* The heap with the toPrimitive of a new class c.
Newcomer(heap, c, name) ==
    /\ heap \in Seq(MethodType) /\ Len(meth) \in Nat /\ Len(heap) = Len(meth) + 1
    /\ DOMAIN heap = DOMAIN meth \cup {Len(meth) + 1} /\ Len(meth) + 1 \notin DOMAIN meth
    /\ (\A j \in DOMAIN meth : heap[j] = meth[j])
    /\ heap[Len(meth) + 1] = DefaultToPrimitive(name)
    /\ heap[Len(meth) + 1].name = "toPrimitive"
    /\ c.name = name /\ c.methods = {Len(meth) + 1} /\ c.members = {} /\ c.custom = FALSE
    /\ c.parents = <<>>
    /\ c \in [name : ClassNames, methods : SUBSET DOMAIN heap, members : {{}}, custom : {FALSE},
              parents : Seq(ClassNames)]

LEMMA NewcomerIs ==
    ASSUME meth \in Seq(MethodType), NEW name \in ClassNames
    PROVE  Newcomer(Append(meth, DefaultToPrimitive(name)), NewClass(name), name)
<1> DEFINE heap == Append(meth, DefaultToPrimitive(name))
<1>1. DefaultToPrimitive(name) \in MethodType
  BY DEF DefaultToPrimitive, NewMethod, MethodType, Names, SpecialMethods, ScopeType, Scopes
<1>2. DefaultToPrimitive(name).name = "toPrimitive" BY DEF DefaultToPrimitive, NewMethod
<1>3. /\ heap \in Seq(MethodType) /\ Len(meth) \in Nat /\ Len(heap) = Len(meth) + 1
      /\ DOMAIN heap = DOMAIN meth \cup {Len(meth) + 1} /\ Len(meth) + 1 \notin DOMAIN meth
      /\ (\A j \in DOMAIN meth : heap[j] = meth[j])
      /\ heap[Len(meth) + 1] = DefaultToPrimitive(name)
  <2> DEFINE d == DefaultToPrimitive(name)
  <2> HIDE DEF d
  <2>1. d \in MethodType BY <1>1 DEF d
  <2>2. /\ Append(meth, d) \in Seq(MethodType) /\ Len(meth) \in Nat
        /\ Len(Append(meth, d)) = Len(meth) + 1
        /\ DOMAIN Append(meth, d) = DOMAIN meth \cup {Len(meth) + 1}
        /\ Len(meth) + 1 \notin DOMAIN meth
        /\ (\A j \in DOMAIN meth : Append(meth, d)[j] = meth[j])
        /\ Append(meth, d)[Len(meth) + 1] = d
    BY <2>1, Appended
  <2>3. QED BY <2>2 DEF d
<1> HIDE DEF heap
<1>4. <<>> \in Seq(ClassNames) OBVIOUS
<1>5. Len(meth) + 1 \in DOMAIN heap BY <1>3
<1>6. Newcomer(heap, NewClass(name), name) BY <1>2, <1>3, <1>4, <1>5 DEF Newcomer, NewClass
<1>7. QED BY <1>6 DEF heap

\* A class without a parent, or with one that is not known.
LEMMA ArrivesAlone ==
    ASSUME meth \in Seq(MethodType), data \in Seq(MemberType), NEW name \in ClassNames
    PROVE  Arrives(meth, data, name, NoClass, {}, {}, Append(meth, DefaultToPrimitive(name)), data,
                   NewClass(name))
<1> DEFINE heap == Append(meth, DefaultToPrimitive(name))
           c    == NewClass(name)
<1>0. Newcomer(heap, c, name) BY NewcomerIs
<1> HIDE DEF heap, c
<1>1. /\ heap \in Seq(MethodType)
      /\ DOMAIN heap = DOMAIN meth \cup {Len(meth) + 1}
      /\ (\A j \in DOMAIN meth : heap[j] = meth[j])
      /\ heap[Len(meth) + 1] = DefaultToPrimitive(name)
      /\ c.name = name /\ c.methods = {Len(meth) + 1} /\ c.members = {} /\ c.custom = FALSE
      /\ c.parents = <<>>
      /\ c \in [name : ClassNames, methods : SUBSET DOMAIN heap, members : {{}},
                custom : {FALSE}, parents : Seq(ClassNames)]
  BY <1>0 DEF Newcomer
<1>2. c \in ClassType(heap, data) BY <1>1 DEF ClassType
<1>3. GetParent(c) = NoClass BY <1>1 DEF GetParent
<1>4. Arrives(meth, data, name, NoClass, {}, {}, heap, data, c) BY <1>1, <1>2, <1>3 DEF Arrives
<1>5. QED BY <1>4 DEF heap, c

LEMMA EnterClassKnownInv ==
    ASSUME IInv, NEW name, EnterClassKnown(name)
    PROVE  IInv'
<1>1. /\ UNCHANGED <<bound, meth, data, class, current, count, emitted, vTable, calls, decl, extends>>
      /\ errors' = TRUE
  BY DEF EnterClassKnown, Fail
<1>2. Counted BY <1>1 DEF Counted, IInv
<1>3. \E M : /\ Good(M, meth', data', class', current', emitted', calls', vTable', decl', extends')
             /\ CallsUp(M, calls', decl', extends')
  BY <1>1 DEF IInv
<1>4. QED BY <1>2, <1>3, CountedInv

\* enterClassDefinition, when the class has come with the parent p.
LEMMA EnteredInv ==
    ASSUME IInv, NEW name \in ClassNames, current = 0, ~Known(name),
           NEW p, NEW P, NEW Q, Gives(meth, class, name, p, P, Q),
           NEW heap2, NEW dat2, NEW c2, Arrives(meth, data, name, p, P, Q, heap2, dat2, c2),
           meth' = heap2, data' = dat2, class' = Append(class, c2),
           current' \in {0, Len(class) + 1}, extends' = Extend(extends, name, p),
           UNCHANGED <<bound, emitted, vTable, calls, decl>>,
           count' \in {0, count}, errors' \in {errors, TRUE}
    PROVE  IInv'
<1>1. PICK M : /\ Good(M, meth, data, class, current, emitted, calls, vTable, decl, extends)
               /\ CallsUp(M, calls, decl, extends)
  BY DEF IInv
<1>2. Good(M, meth, data, class, 0, emitted, calls, vTable, decl, extends) BY <1>1
<1>3. name \notin DOMAIN extends BY <1>1, KnownIs DEF Good
<1> DEFINE N == Joined(M, Extend(extends, name, p), name)
<1>4. /\ Good(N, heap2, dat2, Append(class, c2), current', emitted, calls, vTable, decl,
              Extend(extends, name, p))
      /\ CallsUp(N, calls, decl, Extend(extends, name, p))
  BY <1>1, <1>2, <1>3, ArrivalGood
<1> HIDE DEF N
<1>5. \E X : /\ Good(X, meth', data', class', current', emitted', calls', vTable', decl', extends')
             /\ CallsUp(X, calls', decl', extends')
  BY <1>4
<1>6. Counted
  <2>1. bound.members \in Nat BY ClassesAssumption DEF IInv
  <2>2. count' \in 0..bound.members BY <2>1 DEF IInv
  <2>3. QED BY <2>2 DEF Counted, IInv
<1>7. QED BY <1>5, <1>6, CountedInv

LEMMA EnterAloneInv ==
    ASSUME IInv, NEW name \in ClassNames,
           EnterClass(name) \/ \E parent \in ClassNames : EnterClassOrphan(name, parent)
    PROVE  IInv'
<1>1. meth \in Seq(MethodType) /\ data \in Seq(MemberType) BY DEF IInv, Good, Typed
<1> DEFINE heap2 == Append(meth, DefaultToPrimitive(name))
           c2    == NewClass(name)
<1>2. Arrives(meth, data, name, NoClass, {}, {}, heap2, data, c2) BY <1>1, ArrivesAlone
<1>3. Gives(meth, class, name, NoClass, {}, {}) BY DEF Gives
<1>4. /\ current = 0 /\ ~Known(name)
      /\ meth' = heap2 /\ data' = data /\ class' = Append(class, c2)
      /\ current' \in {0, Len(class) + 1} /\ extends' = Extend(extends, name, NoClass)
      /\ UNCHANGED <<bound, emitted, vTable, calls, decl>>
      /\ count' \in {0, count} /\ errors' \in {errors, TRUE}
  BY DEF EnterClass, EnterClassOrphan, Fail
<1> HIDE DEF heap2, c2
<1>5. QED BY <1>2, <1>3, <1>4, EnteredInv

\* The class that the new one names as its parent, up, and what it gives.
Parent(name, p, up, P) ==
    \/ p = name /\ up = NewClass(name) /\ P = {}
    \/ p # name /\ \E k \in DOMAIN class : up = class[k] /\ up.name = p /\ P = Inherits(meth, up)

LEMMA ParentIs ==
    ASSUME NEW ext, Tree(class, ext), class \in Seq(ClassType(meth, data)),
           NEW name, ~Known(name), NEW p, Known(p) \/ p = name
    PROVE  \E P : Parent(name, p, ClassOf(Append(class, NewClass(name)), p), P)
<1> DEFINE classes == Append(class, NewClass(name))
           L       == Len(class) + 1
           up      == ClassOf(classes, p)
<1>1. NewClass(name).name = name BY DEF NewClass
<1>2. /\ Len(class) \in Nat /\ DOMAIN class = 1..Len(class) /\ DOMAIN classes = 1..L
      /\ classes[L] = NewClass(name) /\ \A i \in DOMAIN class : classes[i] = class[i]
  <2> DEFINE d == NewClass(name)
  <2> HIDE DEF d
  <2>1. Len(class) \in Nat /\ DOMAIN class = 1..Len(class) BY LenProperties
  <2>2. class \in Seq({class[i] : i \in DOMAIN class} \cup {d})
    <3>1. class \in [1..Len(class) -> {class[i] : i \in DOMAIN class} \cup {d}] BY <2>1
    <3>2. QED BY <2>1, <3>1, SeqDef
  <2>3. Len(Append(class, d)) = L /\ Append(class, d)[L] = d
        /\ (\A i \in 1..Len(class) : Append(class, d)[i] = class[i])
        /\ DOMAIN Append(class, d) = 1..L
    <3>1. d \in {class[i] : i \in DOMAIN class} \cup {d} OBVIOUS
    <3>2. DOMAIN Append(class, d) = DOMAIN class \cup {L}
          /\ (\A i \in DOMAIN class : Append(class, d)[i] = class[i])
          /\ Append(class, d)[L] = d /\ Len(Append(class, d)) = L
      BY <2>2, <3>1, Appended
    <3>3. 1..L = (1..Len(class)) \cup {L} BY <2>1
    <3>4. QED BY <2>1, <3>2, <3>3
  <2>4. QED BY <2>1, <2>3 DEF d
<1>3. \A i \in DOMAIN class : class[i].name # name BY DEF Known
<1>4. up = classes[CHOOSE i \in DOMAIN classes : classes[i].name = p] BY DEF ClassOf
<1> HIDE DEF classes, up
<1>5. CASE p = name
  <2>1. L \in DOMAIN classes /\ classes[L].name = p BY <1>1, <1>2, <1>5
  <2>2. ASSUME NEW i \in DOMAIN classes, classes[i].name = p PROVE i = L
    <3>1. i \notin DOMAIN class BY <1>2, <1>3, <1>5, <2>2
    <3>2. QED BY <1>2, <3>1
  <2>3. (CHOOSE i \in DOMAIN classes : classes[i].name = p) = L BY <2>1, <2>2
  <2>4. up = NewClass(name) BY <1>2, <1>4, <2>3
  <2>5. Parent(name, p, up, {}) BY <1>5, <2>4 DEF Parent
  <2>6. QED BY <2>5 DEF up, classes
<1>6. CASE p # name
  <2>1. PICK k \in DOMAIN class : class[k].name = p BY <1>6 DEF Known
  <2>2. k \in DOMAIN classes /\ classes[k].name = p BY <1>2, <2>1
  <2>3. ASSUME NEW i \in DOMAIN classes, classes[i].name = p PROVE i = k
    <3>1. i # L BY <1>1, <1>2, <1>6, <2>3
    <3>2. i \in DOMAIN class BY <1>2, <3>1
    <3>3. QED BY <1>2, <2>1, <2>3, <3>2 DEF Tree
  <2>4. (CHOOSE i \in DOMAIN classes : classes[i].name = p) = k BY <2>2, <2>3
  <2>5. up = class[k] BY <1>2, <1>4, <2>1, <2>4
  <2>6. Parent(name, p, up, Inherits(meth, up)) BY <1>6, <2>1, <2>5 DEF Parent
  <2>7. QED BY <2>6 DEF up, classes
<1>7. QED BY <1>5, <1>6

Inheritance(name, p, up, P, heap, c) ==
    /\ Heir(heap, c, up) /\ Inherits(heap, up) = P /\ P \subseteq DOMAIN meth
    /\ up.members \subseteq DOMAIN data /\ up.name = p /\ up.parents \in Seq(ClassNames)
    /\ p \in ClassNames /\ Gives(meth, class, name, p, P, up.members)

LEMMA ParentHeir ==
    ASSUME NEW M, Good(M, meth, data, class, 0, emitted, calls, vTable, decl, extends),
           NEW name \in ClassNames, NEW p, NEW up, NEW P, Parent(name, p, up, P),
           NEW heap, NEW c, Newcomer(heap, c, name), c = NewClass(name)
    PROVE  Inheritance(name, p, up, P, heap, c)
<1>1. /\ heap \in Seq(MethodType) /\ Len(meth) \in Nat
      /\ DOMAIN heap = DOMAIN meth \cup {Len(meth) + 1} /\ Len(meth) + 1 \notin DOMAIN meth
      /\ (\A j \in DOMAIN meth : heap[j] = meth[j])
      /\ heap[Len(meth) + 1].name = "toPrimitive"
      /\ c.name = name /\ c.methods = {Len(meth) + 1} /\ c.members = {} /\ c.parents = <<>>
      /\ c \in [name : ClassNames, methods : SUBSET DOMAIN heap, members : {{}}, custom : {FALSE},
                parents : Seq(ClassNames)]
  BY DEF Newcomer
<1>2. \A j \in c.methods : heap[j].name = "toPrimitive" BY <1>1
<1>3. CASE p = name /\ up = c /\ P = {}
  <2>1. Inherits(heap, up) = {} BY <1>2, <1>3 DEF Inherits
  <2>2. up.methods \subseteq DOMAIN heap BY <1>1, <1>3
  <2>3. \A j, k \in up.methods : heap[j].name = heap[k].name => j = k BY <1>1, <1>3
  <2>4. Heir(heap, c, up) BY <1>1, <1>2, <2>2, <2>3 DEF Heir
  <2>5. Gives(meth, class, name, p, P, up.members) BY <1>1, <1>3 DEF Gives
  <2>6. QED BY <1>1, <1>3, <2>1, <2>4, <2>5 DEF Inheritance
<1>4. ASSUME p # name, NEW k \in DOMAIN class, up = class[k], up.name = p, P = Inherits(meth, up)
      PROVE  Inheritance(name, p, up, P, heap, c)
  <2>1. /\ up \in ClassType(meth, data) /\ p \in ClassNames BY <1>4, GoodTyped
  <2>2. /\ up.methods \subseteq DOMAIN meth /\ up.members \subseteq DOMAIN data
        /\ up.parents \in Seq(ClassNames)
    BY <2>1 DEF ClassType
  <2>3. \A j \in up.methods : heap[j] = meth[j] /\ j \in DOMAIN heap BY <1>1, <2>2
  <2>4. HoldsMethods(M, meth, up) BY <1>4 DEF Good, Held
  <2>5. \A j, h \in up.methods : heap[j].name = heap[h].name => j = h
    BY <2>3, <2>4 DEF HoldsMethods
  <2>6. Inherits(heap, up) = P BY <1>4, <2>3 DEF Inherits
  <2>7. Heir(heap, c, up) BY <1>1, <1>2, <2>3, <2>5 DEF Heir
  <2>8. P \subseteq DOMAIN meth BY <1>4, <2>2 DEF Inherits
  <2>9. Gives(meth, class, name, p, P, up.members) BY <1>4 DEF Gives
  <2>10. QED BY <1>4, <2>1, <2>2, <2>6, <2>7, <2>8, <2>9 DEF Inheritance
<1>5. QED BY <1>3, <1>4 DEF Parent

LEMMA ArrivesHeir ==
    ASSUME NEW M, Good(M, meth, data, class, 0, emitted, calls, vTable, decl, extends),
           NEW name \in ClassNames, NEW p, NEW up, NEW P, Parent(name, p, up, P),
           NEW heap, NEW c, Newcomer(heap, c, name), c = NewClass(name),
           NEW r, r = Taken(heap, c, up, Len(heap))
    PROVE  Arrives(meth, data, name, p, P, up.members, r.heap, HideMembers(up),
                   InheritMembers(r.class, up))
<1> DEFINE L    == Len(meth) + 1
           K    == HeapAt(heap, up, Len(heap))
           dat2 == HideMembers(up)
           C    == ClassAt(heap, c, up, Len(heap))
           c2   == InheritMembers(C, up)
<1>1. /\ Heir(heap, c, up) /\ Inherits(heap, up) = P /\ P \subseteq DOMAIN meth
      /\ up.members \subseteq DOMAIN data /\ up.name = p /\ up.parents \in Seq(ClassNames)
      /\ p \in ClassNames
  BY ParentHeir DEF Inheritance
<1>2. r.heap = K /\ r.class = C BY DEF Taken
<1>3. /\ heap \in Seq(MethodType) /\ Len(heap) = L /\ Len(meth) \in Nat
      /\ DOMAIN heap = DOMAIN meth \cup {L} /\ L \notin DOMAIN meth
      /\ (\A j \in DOMAIN meth : heap[j] = meth[j])
      /\ heap[L] = DefaultToPrimitive(name)
      /\ c.name = name /\ c.methods = {L} /\ c.members = {} /\ c.custom = FALSE /\ c.parents = <<>>
      /\ c \in [name : ClassNames, methods : SUBSET DOMAIN heap, members : {{}}, custom : {FALSE},
                parents : Seq(ClassNames)]
  BY DEF Newcomer
<1>4. DOMAIN heap = 1..L /\ \A j \in DOMAIN heap : heap[j] \in MethodType /\ j <= L
  <2>1. DOMAIN heap = 1..L /\ \A j \in DOMAIN heap : heap[j] \in MethodType
    BY <1>3, LenProperties, ElementOfSeq
  <2>2. \A j \in 1..L : j <= L BY <1>3
  <2>3. QED BY <2>1, <2>2
<1>5. /\ DOMAIN K = DOMAIN heap
      /\ \A j \in DOMAIN heap : K[j] = IF j \in P THEN Marked(heap[j]) ELSE heap[j]
  BY <1>1, <1>3, <1>4 DEF HeapAt
<1>6. K \in Seq(MethodType)
  <2>1. \A j \in DOMAIN heap : K[j] \in MethodType BY <1>4, <1>5, MarkedType
  <2>2. K = [j \in 1..L |-> K[j]] BY <1>4 DEF HeapAt
  <2> HIDE DEF K
  <2>3. K \in [1..L -> MethodType] BY <1>4, <2>1, <2>2
  <2>4. L \in Nat BY <1>3
  <2> HIDE DEF L
  <2>5. QED BY <2>3, <2>4, SeqDef
<1>7. K[L] = DefaultToPrimitive(name) BY <1>1, <1>3, <1>4, <1>5
<1>8. \A j \in DOMAIN meth : K[j] = IF j \in P THEN Marked(meth[j]) ELSE meth[j]
  BY <1>3, <1>5
<1>9. /\ \A j \in DOMAIN data : data[j] \in MemberType
      /\ data \in Seq(MemberType) /\ Len(data) \in Nat /\ DOMAIN data = 1..Len(data)
  BY GoodTyped, LenProperties DEF Good, Typed
<1>10. /\ DOMAIN dat2 = DOMAIN data
       /\ \A j \in DOMAIN data : dat2[j] = IF j \in up.members THEN Hide(data[j]) ELSE data[j]
       /\ dat2 = [j \in 1..Len(data) |-> dat2[j]]
  BY <1>9 DEF HideMembers
<1>11. dat2 \in Seq(MemberType)
  <2>1. \A m \in MemberType : Hide(m) \in MemberType BY DEF Hide, MemberType, ScopeType
  <2> HIDE DEF dat2
  <2>2. \A j \in DOMAIN data : dat2[j] \in MemberType BY <1>9, <1>10, <2>1
  <2>3. dat2 \in [1..Len(data) -> MemberType] BY <1>9, <1>10, <2>2
  <2>4. QED BY <1>9, <2>3, SeqDef
<1>12. {j \in P : j <= L} = P BY <1>1, <1>3, <1>4
<1>13. C = [c EXCEPT !.methods = {L} \cup P]
  <2>1. {j \in Inherits(heap, up) : j <= Len(heap)} = P BY <1>1, <1>3, <1>12
  <2>2. c.methods \cup {j \in Inherits(heap, up) : j <= Len(heap)} = {L} \cup P BY <1>3, <2>1
  <2>3. C = [c EXCEPT !.methods = c.methods \cup {j \in Inherits(heap, up) : j <= Len(heap)}]
    BY DEF ClassAt
  <2>4. QED BY <2>2, <2>3
<1> DEFINE line == <<>> \o up.parents \o <<p>>
<1>14. c2 \in [name : {name}, methods : {{L} \cup P}, members : {{} \cup up.members}, custom : {FALSE},
               parents : {line}]
  <2> HIDE DEF C
  <2>1. C \in [name : {name}, methods : {{L} \cup P}, members : {{}}, custom : {FALSE}, parents : {<<>>}]
    BY <1>3, <1>13
  <2>2. C.members = {} /\ C.parents = <<>> BY <2>1
  <2> DEFINE x == C.members \cup up.members
             s == C.parents \o up.parents \o <<up.name>>
  <2>3. x = {} \cup up.members /\ s = line BY <1>1, <2>2
  <2>4. c2 = [C EXCEPT !.members = x, !.parents = s] BY DEF InheritMembers
  <2> HIDE DEF x, s, c2, line
  <2>5. [C EXCEPT !.members = x, !.parents = s] \in
           [name : {name}, methods : {{L} \cup P}, members : {x}, custom : {FALSE}, parents : {s}]
    BY <2>1
  <2>6. QED BY <2>3, <2>4, <2>5
<1> HIDE DEF c2, K, dat2, C, line
<1>15. c2.parents \in Seq(ClassNames) /\ GetParent(c2) = p
  <2> DEFINE s == <<>> \o up.parents
  <2>1. <<>> \in Seq(ClassNames) OBVIOUS
  <2>2. s \in Seq(ClassNames) BY <1>1, <2>1, ConcatProperties
  <2> HIDE DEF s
  <2>3. <<p>> \in Seq(ClassNames) /\ Len(<<p>>) = 1 /\ <<p>>[1] = p BY <1>1
  <2>4. /\ s \o <<p>> \in Seq(ClassNames) /\ Len(s \o <<p>>) = Len(s) + 1
        /\ (s \o <<p>>)[Len(s) + 1] = p /\ Len(s) \in Nat
    <3>1. Len(s) \in Nat BY <2>2, LenProperties
    <3>2. s \o <<p>> = Append(s, p) BY <1>1, <2>2
    <3>3. QED BY <1>1, <2>2, <3>1, <3>2, AppendProperties
  <2>5. c2.parents = s \o <<p>> BY <1>14 DEF s, line
  <2>6. c2.parents # <<>> BY <2>4, <2>5
  <2>7. QED BY <2>4, <2>5, <2>6 DEF GetParent
<1>16. c2 \in ClassType(K, dat2)
  <2>1. {L} \cup P \subseteq DOMAIN K BY <1>1, <1>3, <1>5
  <2>2. up.members \subseteq DOMAIN dat2 BY <1>1, <1>10
  <2>3. QED BY <1>14, <1>15, <2>1, <2>2 DEF ClassType
<1>17. c2.name = name /\ c2.methods = P \cup {Len(meth) + 1} /\ c2.members = up.members BY <1>14
<1>18. DOMAIN K = DOMAIN meth \cup {Len(meth) + 1} BY <1>3, <1>5
<1>19. Arrives(meth, data, name, p, P, up.members, K, dat2, c2)
  BY <1>6, <1>7, <1>8, <1>10, <1>11, <1>15, <1>16, <1>17, <1>18 DEF Arrives
<1>20. QED BY <1>2, <1>19 DEF c2, dat2

LEMMA EnterDerivedInv ==
    ASSUME IInv, NEW name \in ClassNames, NEW p \in ClassNames, EnterDerivedClass(name, p)
    PROVE  IInv'
<1> DEFINE heap == Append(meth, DefaultToPrimitive(name))
           c    == NewClass(name)
           up   == ClassOf(Append(class, NewClass(name)), p)
           r    == InheritMethods(heap, c, up)
<1>1. PICK M : Good(M, meth, data, class, current, emitted, calls, vTable, decl, extends)
  BY DEF IInv
<1>2. /\ current = 0 /\ ~Known(name) /\ (Known(p) \/ p = name)
      /\ meth' = r.heap /\ data' = HideMembers(up)
      /\ class' = Append(class, InheritMembers(r.class, up))
      /\ current' = Len(class) + 1 /\ count' = 0 /\ extends' = Extend(extends, name, p)
      /\ UNCHANGED <<bound, emitted, vTable, calls, errors, decl>>
  BY DEF EnterDerivedClass
<1>3. Good(M, meth, data, class, 0, emitted, calls, vTable, decl, extends) BY <1>1, <1>2
<1>4. meth \in Seq(MethodType) /\ class \in Seq(ClassType(meth, data)) /\ Tree(class, extends)
  BY <1>1 DEF Good, Typed
<1>5. \E P : Parent(name, p, up, P) BY <1>2, <1>4, ParentIs
<1>6. PICK P : Parent(name, p, up, P) BY <1>5
<1>7. Newcomer(heap, c, name) BY <1>4, NewcomerIs
<1>8. c = NewClass(name) OBVIOUS
<1> HIDE DEF heap, c, up
<1>9. Inheritance(name, p, up, P, heap, c) BY <1>3, <1>6, <1>7, <1>8, ParentHeir
<1>10. r = Taken(heap, c, up, Len(heap)) BY <1>9, InheritMethodsIs DEF Inheritance
<1> HIDE DEF r
<1>11. Arrives(meth, data, name, p, P, up.members, r.heap, HideMembers(up), InheritMembers(r.class, up))
  BY <1>3, <1>6, <1>7, <1>8, <1>10, ArrivesHeir
<1>12. Gives(meth, class, name, p, P, up.members) BY <1>9 DEF Inheritance
<1>13. current' \in {0, Len(class) + 1} /\ count' \in {0, count} /\ errors' \in {errors, TRUE}
  BY <1>2
<1>14. QED BY <1>2, <1>11, <1>12, <1>13, EnteredInv

--------------------------------------------------------------------------------
(* The specification. *)

LEMMA InitInv == Init => IInv
<1> SUFFICES ASSUME Init PROVE IInv OBVIOUS
<1> DEFINE M == [c \in {} |-> c]
<1>1. /\ bound \in Bounds /\ meth = <<>> /\ data = <<>> /\ class = <<>>
      /\ current = 0 /\ count = 0 /\ emitted = {} /\ vTable = <<>> /\ calls = <<>>
      /\ errors = FALSE /\ decl = <<>> /\ extends = <<>>
  BY DEF Init
<1>2. DOMAIN <<>> = {} OBVIOUS
<1>3. \A T : <<>> \in Seq(T) OBVIOUS
<1>4. Len(class) = 0 BY <1>1
<1>5. DOMAIN M = {} OBVIOUS
<1>6. bound.members \in Nat BY <1>1, ClassesAssumption
<1>7. Typed(meth, data, class, emitted, calls, decl) BY <1>1, <1>2, <1>3 DEF Typed
<1>8. Tree(class, extends) BY <1>1, <1>2 DEF Tree
<1>9. Progress(class, current, vTable, decl, extends) BY <1>1, <1>2 DEF Progress
<1>10. IsMeaning(M, extends, decl, vTable)
  <2>1. DOMAIN extends = {} BY <1>1, <1>2
  <2>2. QED BY <2>1 DEF IsMeaning
<1> HIDE DEF M
<1>11. Objects(M, meth) BY <1>1, <1>2 DEF Objects
<1>12. Held(M, meth, data, class, current, extends) BY <1>1, <1>2 DEF Held
<1>13. Written(M, emitted, vTable) /\ Tables(M, vTable) BY <1>1, <1>2 DEF Written, Tables
<1>14. CallsUp(M, calls, decl, extends) BY <1>1, <1>2 DEF CallsUp
<1>15. Good(M, meth, data, class, current, emitted, calls, vTable, decl, extends)
  BY <1>7, <1>8, <1>9, <1>10, <1>11, <1>12, <1>13 DEF Good
<1>16. count \in 0..bound.members /\ errors \in BOOLEAN
  <2>1. 0 \in 0..bound.members BY <1>6
  <2>2. count \in 0..bound.members BY <1>1, <2>1
  <2>3. errors \in BOOLEAN BY <1>1
  <2>4. QED BY <2>2, <2>3
<1>17. QED BY <1>1, <1>14, <1>15, <1>16 DEF IInv

LEMMA NextInv ==
    ASSUME IInv, [Next]_vars
    PROVE  IInv'
<1>1. CASE UNCHANGED vars
  <2>1. UNCHANGED <<bound, meth, data, class, current, count, emitted, vTable, calls, errors, decl,
                    extends>>
    BY <1>1 DEF vars
  <2>2. Counted BY <2>1 DEF Counted, IInv
  <2>3. \E M : /\ Good(M, meth', data', class', current', emitted', calls', vTable', decl', extends')
               /\ CallsUp(M, calls', decl', extends')
    BY <2>1 DEF IInv
  <2>4. QED BY <2>2, <2>3, CountedInv
<1>2. ASSUME NEW name \in ClassNames, Enter(name) PROVE IInv'
  <2>1. CASE EnterClassKnown(name) BY <2>1, EnterClassKnownInv
  <2>2. CASE EnterClass(name) BY <2>2, EnterAloneInv
  <2>3. ASSUME NEW parent \in ClassNames, EnterClassOrphan(name, parent) PROVE IInv'
    BY <2>3, EnterAloneInv
  <2>4. ASSUME NEW parent \in ClassNames, EnterDerivedClass(name, parent) PROVE IInv'
    BY <2>4, EnterDerivedInv
  <2>5. QED BY <1>2, <2>1, <2>2, <2>3, <2>4 DEF Enter
<1>3. ASSUME NEW scope \in Scopes, Declare(scope) PROVE IInv'
  <2>1. ASSUME NEW name \in MemberNames \cup {"toPrimitive"}, NEW virtual \in BOOLEAN,
               DefineMethod(name, scope, virtual)
        PROVE  IInv'
    BY <2>1, DefineMethodInv
  <2>2. ASSUME NEW name \in MemberNames, DeclareDatamember(name, scope) PROVE IInv'
    BY <2>2, DeclareDatamemberInv
  <2>3. QED BY <1>3, <2>1, <2>2 DEF Declare
<1>4. CASE DefineConstructor
  <2>1. DefineSpecial("__constructor", "__constructor" = "__destructor") BY <1>4 DEF DefineConstructor
  <2>2. "__constructor" \in Runners BY DEF Runners
  <2>3. QED BY <2>1, <2>2, DefineSpecialInv
<1>5. CASE DefineDestructor
  <2>1. DefineSpecial("__destructor", "__destructor" = "__destructor") BY <1>5 DEF DefineDestructor
  <2>2. "__destructor" \in Runners BY DEF Runners
  <2>3. QED BY <2>1, <2>2, DefineSpecialInv
<1>6. CASE ExitClass BY <1>6, ExitClassInv
<1>7. QED BY <1>1, <1>2, <1>3, <1>4, <1>5, <1>6 DEF Next

\* Whatever a program declares, its classes hold the objects that the meanings of their
\* names come from, and have written what they declare (bpp_class.cpp, and the handlers).
THEOREM Invariant == Spec => []IInv
<1>1. Init => IInv BY InitInv
<1>2. IInv /\ [Next]_vars => IInv' BY NextInv
<1>3. QED BY <1>1, <1>2, PTL DEF Spec

--------------------------------------------------------------------------------
(* The properties. *)

MeaningsOf(F, c) ==
    [n \in Names |->
        LET above == IF Up(c) = NoClass THEN Nothing ELSE F[Up(c)][n]
            own   == Declaration(c, n)
        IN  IF ~Declares(c, n) THEN above
            ELSE [in |-> c, kind |-> own.kind, scope |-> own.scope,
                  virtual |-> IF above.in = NoClass THEN own.virtual ELSE above.virtual,
                  levels |-> <<c>> \o above.levels]]

LEMMA MeaningsOfIs ==
    ASSUME NEW F, NEW c
    PROVE  MeaningsOf(F, c) = [n \in Names |-> MeaningIn(F, extends, decl, vTable, c, n)]
<1>1. Up(c) = UpOf(extends, c) BY DEF Up, UpOf
<1>2. \A n : Declares(c, n) <=> DeclaresIn(decl, vTable, c, n)
  BY DEF Declares, DeclaresIn, Implicit, Finished
<1>3. \A n : Declaration(c, n) = DeclarationIn(decl, c, n) BY DEF Declaration, DeclarationIn
<1>4. ASSUME NEW n \in Names PROVE MeaningsOf(F, c)[n] = MeaningIn(F, extends, decl, vTable, c, n)
  BY <1>1, <1>2, <1>3 DEF MeaningsOf, MeaningIn, AboveIn, Declared
<1>5. MeaningsOf(F, c) = [n \in Names |-> MeaningsOf(F, c)[n]] BY DEF MeaningsOf
<1>6. QED BY <1>4, <1>5

\* M is what the properties call Meanings.
LEMMA MeaningsIs ==
    ASSUME NEW M, Lined(class, decl), Tree(class, extends),
           IsMeaning(M, extends, decl, vTable)
    PROVE  Meanings = M
<1> DEFINE D == DOMAIN extends
<1>1. Meanings = CHOOSE F : F = [c \in D |-> MeaningsOf(F, c)] BY DEF Meanings, MeaningsOf
<1>2. M = [c \in D |-> MeaningsOf(M, c)] BY MeaningsOfIs DEF IsMeaning
<1>3. Meanings = [c \in D |-> MeaningsOf(Meanings, c)]
  <2>1. \E F : F = [c \in D |-> MeaningsOf(F, c)] BY <1>2
  <2>2. QED BY <1>1, <2>1
<1>4. \A c \in D, n \in Names :
         Meanings[c][n] = MeaningIn(Meanings, extends, decl, vTable, c, n)
  <2> TAKE c \in D, n \in Names
  <2>1. Meanings[c] = MeaningsOf(Meanings, c) BY <1>3
  <2>2. QED BY <2>1, MeaningsOfIs
<1>5. IsMeaning(Meanings, extends, decl, vTable)
  <2>1. \A c \in D : MeaningsOf(Meanings, c) =
                        [n \in Names |-> MeaningIn(Meanings, extends, decl, vTable, c, n)]
    BY MeaningsOfIs
  <2>2. QED BY <1>3, <2>1 DEF IsMeaning
<1> DEFINE S == {i \in 1..Len(class) : Meanings[class[i].name] = M[class[i].name]}
<1>6. ASSUME NEW i \in 1..Len(class), \A k \in 1..(i - 1) : k \in S PROVE i \in S
  <2> DEFINE a == class[i].name
  <2>1. i \in DOMAIN class /\ a \in D BY DEF Lined, Tree
  <2>2. ASSUME NEW n \in Names PROVE AboveIn(Meanings, extends, a, n) = AboveIn(M, extends, a, n)
    <3>1. CASE UpOf(extends, a) = NoClass BY <3>1 DEF AboveIn
    <3>2. CASE UpOf(extends, a) # NoClass
      <4>1. PICK k \in 1..(i - 1) : class[k].name = UpOf(extends, a) BY <2>1, <3>2 DEF Tree
      <4>2. Meanings[UpOf(extends, a)] = M[UpOf(extends, a)] BY <1>6, <4>1
      <4>3. QED BY <3>2, <4>2 DEF AboveIn
    <3>3. QED BY <3>1, <3>2
  <2>3. \A n \in Names : MeaningIn(Meanings, extends, decl, vTable, a, n)
                         = MeaningIn(M, extends, decl, vTable, a, n)
    BY <2>2 DEF MeaningIn
  <2>4. Meanings[a] = [n \in Names |-> MeaningIn(Meanings, extends, decl, vTable, a, n)]
    BY <1>5, <2>1 DEF IsMeaning
  <2>5. M[a] = [n \in Names |-> MeaningIn(M, extends, decl, vTable, a, n)] BY <2>1 DEF IsMeaning
  <2>6. QED BY <2>3, <2>4, <2>5
<1>7. \A i \in 1..Len(class) : i \in S
  <2>1. Len(class) \in Nat BY DEF Lined
  <2> HIDE DEF S
  <2>2. QED BY <1>6, <2>1, Upwards
<1>8. \A c \in D : Meanings[c] = M[c]
  <2> TAKE c \in D
  <2>1. PICK i \in 1..Len(class) : class[i].name = c BY DEF Tree, Lined
  <2>2. QED BY <1>7, <2>1
<1>9. M = [c \in D |-> M[c]] /\ Meanings = [c \in D |-> Meanings[c]] BY <1>3 DEF IsMeaning
<1>10. QED BY <1>8, <1>9

\* What the invariant says, of Meanings.
LEMMA InvGood ==
    ASSUME IInv
    PROVE  /\ Good(Meanings, meth, data, class, current, emitted, calls, vTable, decl, extends)
           /\ CallsUp(Meanings, calls, decl, extends) /\ Lined(class, decl)
           /\ Tree(class, extends) /\ Progress(class, current, vTable, decl, extends)
<1>1. PICK M : /\ Good(M, meth, data, class, current, emitted, calls, vTable, decl, extends)
               /\ CallsUp(M, calls, decl, extends)
  BY DEF IInv
<1>2. Lined(class, decl) BY <1>1, GoodTyped
<1>3. Meanings = M BY <1>1, <1>2, MeaningsIs DEF Good
<1>4. QED BY <1>1, <1>2, <1>3 DEF Good

LEMMA TypeInv == IInv => TypeOK
<1> SUFFICES ASSUME IInv PROVE TypeOK OBVIOUS
<1>1. /\ Typed(meth, data, class, emitted, calls, decl) /\ Lined(class, decl)
      /\ Progress(class, current, vTable, decl, extends)
  BY InvGood DEF Good
<1>2. current \in 0..Len(class)
  <2>1. Len(class) \in Nat /\ current \in {0, Len(class)} BY <1>1 DEF Lined, Progress
  <2>2. QED BY <2>1
<1>3. /\ meth \in Seq(MethodType) /\ data \in Seq([name : MemberNames, scope : ScopeType])
      /\ class \in Seq([name : ClassNames, methods : SUBSET DOMAIN meth,
                        members : SUBSET DOMAIN data, custom : BOOLEAN, parents : Seq(ClassNames)])
      /\ emitted \subseteq [of : ClassNames, name : Names, from : DOMAIN meth]
      /\ \A k \in DOMAIN calls : calls[k] \in ClassNames \cup {NoClass}
  BY <1>1 DEF Typed, MemberType, ClassType, ClassId
<1>4. bound \in Bounds /\ count \in 0..bound.members /\ errors \in BOOLEAN BY DEF IInv
<1>5. QED BY <1>2, <1>3, <1>4 DEF TypeOK

\* A finished class is one of the classes.
LEMMA FinishedIs ==
    ASSUME IInv, NEW c \in DOMAIN vTable
    PROVE  \E i \in DOMAIN class : /\ class[i].name = c /\ ClassOf(class, c) = class[i]
                                   /\ c \in DOMAIN extends /\ c \in ClassNames
<1>1. Tree(class, extends) /\ Progress(class, current, vTable, decl, extends) /\ Lined(class, decl)
  BY InvGood
<1>2. c \in DOMAIN extends BY <1>1 DEF Progress
<1>3. PICK i \in DOMAIN class : class[i].name = c BY <1>1, <1>2 DEF Tree
<1>4. ClassOf(class, c) = class[i] BY <1>1, <1>3, ClassOfIs
<1>5. c \in ClassNames BY <1>1, <1>3 DEF Lined
<1>6. QED BY <1>2, <1>3, <1>4, <1>5

LEMMA VirtualInv == IInv => VirtualDispatch
<1> SUFFICES ASSUME IInv, NEW c \in DOMAIN vTable
             PROVE  vTable[c] = [n \in {m \in Names : IsMethod(c, m) /\ Meanings[c][m].virtual} |->
                                    <<Meanings[c][n].in, n>>]
  BY DEF VirtualDispatch
<1>1. vTable[c] = TableIn(Meanings, c) BY InvGood DEF Good, Tables
<1>2. QED BY <1>1 DEF TableIn, IsMethod

LEMMA StaticInv == IInv => StaticDispatch
<1> SUFFICES ASSUME IInv, NEW c \in DOMAIN vTable, NEW n \in Names
             PROVE  StaticTarget(ClassOf(class, c), n) =
                       IF IsMethod(c, n) THEN Meanings[c][n].in ELSE NoClass
  BY DEF StaticDispatch
<1>1. PICK i \in DOMAIN class : class[i].name = c /\ ClassOf(class, c) = class[i] BY FinishedIs
<1>2. Good(Meanings, meth, data, class, current, emitted, calls, vTable, decl, extends) BY InvGood
<1>3. StaticTarget(class[i], n) =
         IF Meanings[class[i].name][n].kind = "method" THEN Meanings[class[i].name][n].in ELSE NoClass
  BY <1>2, StaticTargetIs
<1>4. QED BY <1>1, <1>3 DEF IsMethod

LEMMA WrittenInv == IInv => FunctionsWritten
<1> SUFFICES ASSUME IInv PROVE FunctionsWritten OBVIOUS
<1>1. /\ Good(Meanings, meth, data, class, current, emitted, calls, vTable, decl, extends)
      /\ Lined(class, decl)
      /\ Tree(class, extends) /\ Progress(class, current, vTable, decl, extends)
  BY InvGood
<1>2. Written(Meanings, emitted, vTable) /\ IsMeaning(Meanings, extends, decl, vTable) BY <1>1 DEF Good
<1>3. ASSUME NEW c \in DOMAIN vTable, NEW n \in Names, IsMethod(c, n)
      PROVE  \E e \in emitted : e.of = Meanings[c][n].in /\ e.name = n
  <2> DEFINE b == Meanings[c][n].in
  <2>1. PICK i \in DOMAIN class : class[i].name = c BY FinishedIs
  <2>2. i \in 1..Len(class) BY <1>1 DEF Lined
  <2>3. Sound(Meanings, class, i, n) BY <1>1, <1>2, <2>2, AllSound
  <2>4. b # NoClass BY <1>3, <2>1, <2>3 DEF Sound, IsMethod, Nothing
  <2>5. PICK k \in 1..i : class[k].name = b /\ Meanings[b][n] = Meanings[c][n]
    BY <2>1, <2>3, <2>4 DEF Sound
  <2>6. k \in 1..Len(class) BY <1>1, <2>2 DEF Lined
  <2>7. Meanings[b][n].in = b BY <2>5
  <2>8. DeclaresIn(decl, vTable, b, n) BY <1>1, <1>2, <2>5, <2>6, <2>7, OwnMeaning
  <2>9. b \in DOMAIN vTable
    <3>1. CASE n = "toPrimitive" BY <2>1, <2>3, <3>1 DEF Sound
    <3>2. CASE b \in DOMAIN vTable BY <3>2
    <3>3. CASE <<b, n>> \in DOMAIN decl /\ b \notin DOMAIN vTable
      <4>1. current # 0 /\ b = class[current].name BY <1>1, <3>3 DEF Progress
      <4>2. current = Len(class) /\ class[current].name \notin DOMAIN vTable
        BY <1>1, <4>1 DEF Progress
      <4>3. Len(class) \in DOMAIN class /\ k \in DOMAIN class BY <1>1, <2>6, <4>1, <4>2 DEF Lined
      <4>4. k = Len(class) BY <1>1, <2>5, <4>1, <4>2, <4>3 DEF Tree
      <4>5. i = Len(class) BY <1>1, <2>2, <2>5, <4>4 DEF Lined
      <4>6. QED BY <2>1, <4>2, <4>5
    <3>4. QED BY <2>8, <3>1, <3>2, <3>3 DEF DeclaresIn
  <2>10. Meanings[b][n].kind = "method" BY <1>3, <2>5 DEF IsMethod
  <2> HIDE DEF b
  <2>11. \E e \in emitted : e.of = b /\ e.name = n BY <1>2, <2>7, <2>9, <2>10 DEF Written
  <2>12. QED BY <2>11 DEF b
<1>4. \A e, f \in emitted : e.of = f.of /\ e.name = f.name => e = f BY <1>2 DEF Written
<1>5. QED BY <1>3, <1>4 DEF FunctionsWritten

\* Seen from the class itself.
LEMMA AccessIs ==
    ASSUME NEW heap, NEW ids, NEW n, NEW c, \A j \in ids : heap[j].scope \in ScopeType
    PROVE  Access(heap, ids, n, c, c.name) = "found"
           <=> \E j \in Named(heap, ids, n) : heap[j].scope # "inaccessible"
  BY DEF Access, Named, ScopeType, Scopes

\* It is enough to know of the objects of a name whether they can be seen.
LEMMA ReachIs ==
    ASSUME NEW M, NEW c, NEW n \in MemberNames, NEW shown \in BOOLEAN,
           meth \in Seq(MethodType), data \in Seq(MemberType), c \in ClassType(meth, data),
           SoundIn(M, c.name), HoldsMethods(M, meth, c), HoldsMembers(M, data, c),
           \A j \in c.methods : meth[j].name = n => (meth[j].scope # "inaccessible" <=> shown),
           \A j \in c.members : data[j].name = n => (data[j].scope # "inaccessible" <=> shown)
    PROVE  "found" \in Reach(c, n, c.name) <=> M[c.name][n].kind # "none" /\ shown
<1>1. \A j \in c.methods : meth[j].scope \in ScopeType
  <2>1. c.methods \subseteq DOMAIN meth BY DEF ClassType
  <2>2. \A j \in DOMAIN meth : meth[j] \in MethodType BY LenProperties, ElementOfSeq
  <2>3. QED BY <2>1, <2>2 DEF MethodType
<1>2. \A j \in c.members : data[j].scope \in ScopeType
  <2>1. c.members \subseteq DOMAIN data BY DEF ClassType
  <2>2. \A j \in DOMAIN data : data[j] \in MemberType BY LenProperties, ElementOfSeq
  <2>3. QED BY <2>1, <2>2 DEF MemberType
<1>3. "found" \in Reach(c, n, c.name) <=>
         \/ \E j \in Named(meth, c.methods, n) : meth[j].scope # "inaccessible"
         \/ \E j \in Named(data, c.members, n) : data[j].scope # "inaccessible"
  <2>1. Access(meth, c.methods, n, c, c.name) = "found"
        <=> \E j \in Named(meth, c.methods, n) : meth[j].scope # "inaccessible"
    BY <1>1, AccessIs
  <2>2. Access(data, c.members, n, c, c.name) = "found"
        <=> \E j \in Named(data, c.members, n) : data[j].scope # "inaccessible"
    BY <1>2, AccessIs
  <2>3. QED BY <2>1, <2>2 DEF Reach
<1>4. "found" \in Reach(c, n, c.name) <=>
         shown /\ (Named(meth, c.methods, n) # {} \/ Named(data, c.members, n) # {})
  BY <1>3 DEF Named
<1>5. n \in Names BY DEF Names
<1>6. M[c.name][n].kind \in {"none", "method", "data"} BY <1>5 DEF SoundIn, MeaningType
<1>7. Named(meth, c.methods, n) # {} <=> M[c.name][n].kind = "method"
  BY <1>5 DEF HoldsMethods, Named
<1>8. Named(data, c.members, n) # {} <=> M[c.name][n].kind = "data"
  BY <1>5 DEF HoldsMembers, Named
<1>9. QED BY <1>4, <1>6, <1>7, <1>8

\* What is private in a method's class is inaccessible as soon as one inherits it.
LEMMA ScopeIs ==
    ASSUME NEW M, NEW c, Objects(M, meth), SoundIn(M, c.name), HoldsMethods(M, meth, c),
           meth \in Seq(MethodType), c \in ClassType(meth, data), NEW j \in c.methods
    PROVE  LET m == M[c.name][meth[j].name]
           IN  meth[j].scope = IF meth[j].inherited /\ m.scope = "private" THEN "inaccessible"
                               ELSE m.scope
<1>1. j \in DOMAIN meth BY DEF ClassType
<1>2. ObjectOf(M, meth[j]) BY <1>1 DEF Objects
<1>3. meth[j] \in MethodType BY <1>1, LenProperties, ElementOfSeq
<1>4. meth[j].name \in Names BY <1>3 DEF MethodType
<1>5. M[c.name][meth[j].name].in = Origin(meth[j]) /\ M[c.name][meth[j].name].kind = "method"
  BY DEF HoldsMethods
<1>6. M[Origin(meth[j])][meth[j].name] = M[c.name][meth[j].name]
  BY <1>4, <1>5 DEF SoundIn, Nothing
<1>7. QED BY <1>2, <1>6 DEF ObjectOf

LEMMA ThisReach ==
    ASSUME NEW M, NEW c, Ready(M, meth, data, c), NEW n \in MemberNames
    PROVE  LET m == M[c.name][n]
           IN  "found" \in Reach(c, n, c.name) <=>
                  m.kind # "none" /\ (m.in = c.name \/ m.scope # "private")
<1> DEFINE m == M[c.name][n]
           shown == m.in = c.name \/ m.scope # "private"
<1>1. /\ meth \in Seq(MethodType) /\ data \in Seq(MemberType) /\ c \in ClassType(meth, data)
      /\ SoundIn(M, c.name) /\ Objects(M, meth)
      /\ HoldsMethods(M, meth, c) /\ HoldsMembers(M, data, c) /\ Open(M, meth, data, c)
  BY DEF Ready
<1>2. m.scope \in Scopes
  <2>1. n \in Names BY DEF Names
  <2>2. QED BY <1>1, <2>1 DEF SoundIn, MeaningType
<1>3. ASSUME NEW j \in c.methods, meth[j].name = n
      PROVE  meth[j].scope # "inaccessible" <=> shown
  <2>1. meth[j].scope = IF meth[j].inherited /\ m.scope = "private" THEN "inaccessible" ELSE m.scope
    BY <1>1, <1>3, ScopeIs
  <2>2. m.in = c.name <=> ~meth[j].inherited BY <1>1, <1>3, OverridesInherited DEF HoldsMethods
  <2>3. QED BY <1>2, <2>1, <2>2 DEF Scopes
<1>4. ASSUME NEW j \in c.members, data[j].name = n
      PROVE  data[j].scope # "inaccessible" <=> shown
  <2>1. /\ data[j].scope = m.scope \/ (m.scope = "private" /\ data[j].scope = "inaccessible")
        /\ m.in # c.name => data[j].scope # "private"
    BY <1>1, <1>4 DEF HoldsMembers
  <2>2. m.in = c.name => data[j].scope = m.scope BY <1>1, <1>4 DEF Open
  <2>3. QED BY <1>2, <2>1, <2>2 DEF Scopes
<1>5. shown \in BOOLEAN OBVIOUS
<1> HIDE DEF shown
<1>6. "found" \in Reach(c, n, c.name) <=> M[c.name][n].kind # "none" /\ shown
  BY <1>1, <1>3, <1>4, <1>5, ReachIs
<1>7. QED BY <1>6 DEF shown

LEMMA SuperReach ==
    ASSUME NEW M, NEW c, NEW n \in MemberNames, Hidden(meth, data, c), Objects(M, meth),
           meth \in Seq(MethodType), data \in Seq(MemberType), c \in ClassType(meth, data),
           SoundIn(M, c.name), HoldsMethods(M, meth, c), HoldsMembers(M, data, c)
    PROVE  LET m == M[c.name][n]
           IN  "found" \in Reach(c, n, c.name) <=> m.kind # "none" /\ m.scope # "private"
<1> DEFINE m == M[c.name][n]
           shown == m.scope # "private"
<1>1. n \in Names /\ n # "toPrimitive" BY ClassesAssumption DEF Names, SpecialMethods
<1>2. m.scope \in Scopes BY <1>1 DEF SoundIn, MeaningType
<1>3. ASSUME NEW j \in c.methods, meth[j].name = n
      PROVE  meth[j].scope # "inaccessible" <=> shown
  <2>1. meth[j].scope = IF meth[j].inherited /\ m.scope = "private" THEN "inaccessible" ELSE m.scope
    BY <1>3, ScopeIs
  <2>2. meth[j].inherited BY <1>1, <1>3 DEF Hidden
  <2>3. QED BY <1>2, <2>1, <2>2 DEF Scopes
<1>4. ASSUME NEW j \in c.members, data[j].name = n
      PROVE  data[j].scope # "inaccessible" <=> shown
  <2>1. data[j].scope = m.scope \/ (m.scope = "private" /\ data[j].scope = "inaccessible")
    BY <1>4 DEF HoldsMembers
  <2>2. data[j].scope # "private" BY DEF Hidden
  <2>3. QED BY <1>2, <2>1, <2>2 DEF Scopes
<1>5. shown \in BOOLEAN OBVIOUS
<1> HIDE DEF shown
<1>6. "found" \in Reach(c, n, c.name) <=> M[c.name][n].kind # "none" /\ shown
  BY <1>3, <1>4, <1>5, ReachIs
<1>7. QED BY <1>6 DEF shown

LEMMA AccessInv == IInv => AccessRespected
<1> SUFFICES ASSUME IInv, current # 0 PROVE AccessRespected BY DEF AccessRespected
<1> DEFINE M  == Meanings
           c  == class[current]
           up == Up(c.name)
<1>1. /\ Good(M, meth, data, class, current, emitted, calls, vTable, decl, extends)
      /\ Lined(class, decl) /\ Tree(class, extends)
  BY InvGood
<1>2. Ready(M, meth, data, c) /\ current \in DOMAIN class BY <1>1, GoodReady
<1>3. ASSUME NEW n \in MemberNames
      PROVE  LET m == M[c.name][n]
             IN  "found" \in Reach(c, n, c.name) <=>
                    m.kind # "none" /\ (m.in = c.name \/ m.scope # "private")
  BY <1>2, <1>3, ThisReach
<1>4. ASSUME NEW n \in MemberNames, up # NoClass
      PROVE  LET m == M[up][n]
             IN  "found" \in Reach(ClassOf(class, up), n, up) <=> m.kind # "none" /\ m.scope # "private"
  <2>1. up = UpOf(extends, c.name) BY DEF Up, UpOf
  <2>2. PICK k \in 1..(current - 1) : class[k].name = up BY <1>1, <1>2, <1>4, <2>1 DEF Tree
  <2>3. k \in DOMAIN class /\ k \in 1..Len(class) BY <1>1, <1>2, <2>2 DEF Lined
  <2>4. ClassOf(class, up) = class[k] BY <1>1, <2>2, <2>3, ClassOfIs
  <2>5. Hidden(meth, data, class[k]) /\ HoldsMethods(M, meth, class[k]) /\ HoldsMembers(M, data, class[k])
    BY <1>1, <1>2, <2>1, <2>2, <2>3 DEF Good, Held
  <2>6. meth \in Seq(MethodType) /\ data \in Seq(MemberType) /\ class[k] \in ClassType(meth, data)
    BY <1>1, <2>3, ElementOfSeq DEF Good, Typed
  <2>7. SoundIn(M, class[k].name) BY <1>1, <2>3, SoundInClass DEF Good
  <2>8. Objects(M, meth) BY <1>1 DEF Good
  <2>9. "found" \in Reach(class[k], n, class[k].name) <=>
           M[class[k].name][n].kind # "none" /\ M[class[k].name][n].scope # "private"
    BY <1>4, <2>5, <2>6, <2>7, <2>8, SuperReach
  <2>10. QED BY <2>2, <2>4, <2>9
<1>5. QED BY <1>3, <1>4 DEF AccessRespected

--------------------------------------------------------------------------------
(* The constructors and destructors that run. *)

\* The first k elements.
Prefix(s, k) == [i \in 1..(IF k < Len(s) THEN k ELSE Len(s)) |-> s[i]]

LEMMA PrefixNone ==
    /\ \A s \in Seq(ClassNames) : Prefix(s, 0) = <<>>
    /\ \A k \in Nat : Prefix(<<>>, k) = <<>>
<1>1. ASSUME NEW s \in Seq(ClassNames) PROVE Prefix(s, 0) = <<>>
  <2>1. Len(s) \in Nat BY LenProperties
  <2>2. (IF 0 < Len(s) THEN 0 ELSE Len(s)) = 0 BY <2>1
  <2>3. QED BY <2>2 DEF Prefix
<1>2. ASSUME NEW k \in Nat PROVE Prefix(<<>>, k) = <<>>
  <2>1. (IF k < Len(<<>>) THEN k ELSE Len(<<>>)) = 0 OBVIOUS
  <2>2. QED BY <2>1 DEF Prefix
<1>3. QED BY <1>1, <1>2

LEMMA PrefixAll ==
    ASSUME NEW s \in Seq(ClassNames), NEW k \in Nat, Len(s) <= k
    PROVE  Prefix(s, k) = s
<1>1. Len(s) \in Nat /\ DOMAIN s = 1..Len(s) /\ s = [i \in 1..Len(s) |-> s[i]] BY SeqDef, LenProperties
<1>2. (IF k < Len(s) THEN k ELSE Len(s)) = Len(s) BY <1>1
<1>3. QED BY <1>1, <1>2 DEF Prefix

LEMMA PrefixMore ==
    ASSUME NEW d \in ClassNames, NEW t \in Seq(ClassNames), NEW k \in Nat, k # 0
    PROVE  Prefix(<<d>> \o t, k) = <<d>> \o Prefix(t, k - 1)
<1> DEFINE s == <<d>> \o t
           r == Prefix(t, k - 1)
           N == IF k < Len(s) THEN k ELSE Len(s)
<1>1. /\ Len(t) \in Nat /\ s \in Seq(ClassNames) /\ Len(s) = Len(t) + 1
      /\ s[1] = d /\ \A i \in 2..Len(s) : s[i] = t[i - 1]
  <2>1. <<d>> \in Seq(ClassNames) /\ Len(<<d>>) = 1 /\ <<d>>[1] = d OBVIOUS
  <2>2. Len(t) \in Nat BY LenProperties
  <2>3. QED BY <2>1, <2>2, ConcatProperties
<1>2. N \in Nat /\ N - 1 = (IF k - 1 < Len(t) THEN k - 1 ELSE Len(t)) /\ N >= 1 /\ N <= Len(s) BY <1>1
<1>3. r = [i \in 1..(N - 1) |-> t[i]] BY <1>2 DEF Prefix
<1>4. r \in Seq(ClassNames) /\ Len(r) = N - 1
  <2>1. \A i \in 1..(N - 1) : t[i] \in ClassNames
    <3>1. \A i \in 1..(N - 1) : i \in 1..Len(t) BY <1>1, <1>2
    <3>2. QED BY <3>1, ElementOfSeq
  <2>2. N - 1 \in Nat BY <1>2
  <2> HIDE DEF N, r
  <2>3. QED BY <1>3, <2>1, <2>2
<1>5. /\ <<d>> \o r \in Seq(ClassNames) /\ Len(<<d>> \o r) = N
      /\ (<<d>> \o r)[1] = d /\ \A i \in 2..N : (<<d>> \o r)[i] = r[i - 1]
  <2>1. <<d>> \in Seq(ClassNames) /\ Len(<<d>>) = 1 /\ <<d>>[1] = d OBVIOUS
  <2> HIDE DEF N, r
  <2>2. QED BY <1>2, <1>4, <2>1, ConcatProperties
<1>6. <<d>> \o r = [i \in 1..N |-> (<<d>> \o r)[i]] BY <1>5, SeqDef, LenProperties
<1>7. ASSUME NEW i \in 1..N PROVE (<<d>> \o r)[i] = s[i]
  <2>1. i = 1 \/ (i \in 2..N /\ i \in 2..Len(s) /\ i - 1 \in 1..(N - 1)) BY <1>1, <1>2
  <2> HIDE DEF N, r, s
  <2>2. CASE i = 1 BY <1>1, <1>5, <2>2
  <2>3. CASE i \in 2..N /\ i \in 2..Len(s) /\ i - 1 \in 1..(N - 1)
    BY <1>1, <1>3, <1>5, <2>3
  <2>4. QED BY <2>1, <2>2, <2>3
<1>8. Prefix(s, k) = [i \in 1..N |-> s[i]] BY DEF Prefix
<1> HIDE DEF N, r, s
<1>9. Prefix(s, k) = <<d>> \o r BY <1>6, <1>7, <1>8
<1>10. QED BY <1>9 DEF r, s

\* The classes whose constructors (name) run, from d upwards.
Line(M, cal, d, n) == IF <<d, n>> \in DOMAIN cal THEN M[d][n].levels ELSE <<>>

\* A constructor that is defined anywhere has a call, and it continues the line.
LEMMA Continues ==
    ASSUME IInv, NEW n \in Runners, NEW c \in ClassNames, NEW i \in 1..Len(class), class[i].name = c
    PROVE  LET b == Meanings[c][n].in
           IN  /\ b \in ClassId
               /\ Meanings[c][n].levels = Line(Meanings, calls, b, n)
               /\ Meanings[c][n].levels \in Seq(ClassNames)
<1> DEFINE M == Meanings
           b == M[c][n].in
<1>1. /\ Good(M, meth, data, class, current, emitted, calls, vTable, decl, extends)
      /\ CallsUp(M, calls, decl, extends) /\ Lined(class, decl)
      /\ Tree(class, extends) /\ Progress(class, current, vTable, decl, extends)
  BY InvGood
<1>2. IsMeaning(M, extends, decl, vTable) BY <1>1 DEF Good
<1>3. n \in Names /\ n # "toPrimitive" /\ n \notin SystemMethods
  BY DEF Runners, Names, SpecialMethods, SystemMethods
<1>4. Sound(M, class, i, n) BY <1>1, <1>2, <1>3, AllSound
<1>5. b \in ClassId /\ M[c][n].levels \in Seq(ClassNames) BY <1>4 DEF Sound, MeaningType
<1>6. CASE b = NoClass
  <2>1. M[c][n].levels = <<>> BY <1>4, <1>6 DEF Sound, Nothing
  <2>2. \A k \in DOMAIN calls : \E a \in ClassNames, x \in Names : k = <<a, x>>
    BY <1>1 DEF CallsUp, Progress
  <2>3. <<NoClass, n>> \notin DOMAIN calls BY <2>2, ClassesAssumption
  <2>4. QED BY <1>5, <1>6, <2>1, <2>3 DEF Line
<1>7. CASE b # NoClass
  <2>1. PICK k \in 1..i : class[k].name = b /\ M[b][n] = M[c][n] BY <1>4, <1>7 DEF Sound
  <2>2. k \in 1..Len(class) BY <1>1, <2>1 DEF Lined
  <2>3. M[b][n].in = b BY <2>1
  <2>4. DeclaresIn(decl, vTable, b, n) BY <1>1, <1>2, <1>3, <2>1, <2>2, <2>3, OwnMeaning
  <2>5. <<b, n>> \in DOMAIN decl BY <1>3, <2>4 DEF DeclaresIn
  <2>6. b \in DOMAIN extends BY <1>1, <2>1, <2>2 DEF Tree, Lined
  <2>7. <<b, n>> \in DOMAIN calls BY <1>1, <2>5, <2>6 DEF CallsUp
  <2>8. QED BY <1>5, <2>1, <2>7 DEF Line
<1>8. QED BY <1>6, <1>7

LEMMA CallLine ==
    ASSUME IInv, NEW n \in Runners, NEW d \in ClassId, <<d, n>> \in DOMAIN calls
    PROVE  LET e == calls[<<d, n>>]
           IN  /\ d \in ClassNames /\ e \in ClassId
               /\ Line(Meanings, calls, d, n) = <<d>> \o Line(Meanings, calls, e, n)
               /\ Line(Meanings, calls, e, n) \in Seq(ClassNames)
<1> DEFINE M == Meanings
           e == calls[<<d, n>>]
           above == AboveIn(M, extends, d, n)
<1>1. /\ Good(M, meth, data, class, current, emitted, calls, vTable, decl, extends)
      /\ CallsUp(M, calls, decl, extends) /\ Lined(class, decl)
      /\ Tree(class, extends) /\ Progress(class, current, vTable, decl, extends)
  BY InvGood
<1>2. IsMeaning(M, extends, decl, vTable) BY <1>1 DEF Good
<1>3. n \in Names BY DEF Runners, Names, SpecialMethods
<1>4. <<d, n>> \in DOMAIN decl BY <1>1 DEF CallsUp
<1>5. /\ d \in ClassNames /\ d \in DOMAIN extends
  <2>1. PICK a \in ClassNames, x \in Names :
           <<d, n>> = <<a, x>> /\ (a \in DOMAIN vTable \/ (current # 0 /\ a = class[current].name))
    BY <1>1, <1>4 DEF Progress
  <2>2. d = a BY <2>1
  <2>3. a \in DOMAIN vTable => a \in DOMAIN extends BY <1>1 DEF Progress
  <2>4. current # 0 => class[current].name \in DOMAIN extends BY <1>1, GoodReady
  <2>5. QED BY <2>1, <2>2, <2>3, <2>4
<1>6. PICK i \in 1..Len(class) : class[i].name = d BY <1>1, <1>5 DEF Tree, Lined
<1>7. i \in DOMAIN class BY <1>1, <1>6 DEF Lined
<1>8. DeclaresIn(decl, vTable, d, n) BY <1>4 DEF DeclaresIn
<1>9. M[d][n] = Declared(d, DeclarationIn(decl, d, n), above)
  BY <1>1, <1>2, <1>3, <1>6, <1>8, OwnMeaning
<1>10. M[d][n].levels = <<d>> \o above.levels BY <1>9 DEF Declared
<1>11. e = above.in BY <1>1, <1>4, <1>5 DEF CallsUp
<1>12. /\ above.in \in ClassId
       /\ above.levels = Line(M, calls, above.in, n)
       /\ above.levels \in Seq(ClassNames)
  <2>1. CASE UpOf(extends, d) = NoClass
    <3>1. above = Nothing BY <2>1 DEF AboveIn
    <3>2. above.in = NoClass /\ above.levels = <<>> BY <3>1 DEF Nothing
    <3>3. \A k \in DOMAIN calls : \E a \in ClassNames, x \in Names : k = <<a, x>>
      BY <1>1 DEF CallsUp, Progress
    <3>4. <<NoClass, n>> \notin DOMAIN calls BY <3>3, ClassesAssumption
    <3>5. <<>> \in Seq(ClassNames) OBVIOUS
    <3>6. QED BY <3>2, <3>4, <3>5 DEF Line, ClassId
  <2>2. CASE UpOf(extends, d) # NoClass
    <3> DEFINE u == UpOf(extends, d)
    <3>1. PICK k \in 1..(i - 1) : class[k].name = u BY <1>1, <1>6, <1>7, <2>2 DEF Tree
    <3>2. k \in 1..Len(class) /\ u \in ClassNames BY <1>1, <3>1 DEF Lined
    <3>3. above = M[u][n] BY <2>2 DEF AboveIn
    <3> HIDE DEF u
    <3>4. /\ M[u][n].in \in ClassId /\ M[u][n].levels = Line(M, calls, M[u][n].in, n)
          /\ M[u][n].levels \in Seq(ClassNames)
      BY <3>1, <3>2, Continues
    <3>5. QED BY <3>3, <3>4
  <2>3. QED BY <2>1, <2>2
<1>13. Line(M, calls, d, n) = M[d][n].levels BY DEF Line
<1> HIDE DEF above
<1>14. QED BY <1>5, <1>10, <1>11, <1>12, <1>13

\* No line is longer than the classes that it can pass.
LEMMA LevelsShort ==
    ASSUME IInv, NEW n \in Runners
    PROVE  \A i \in 1..Len(class) : Len(Meanings[class[i].name][n].levels) <= i
<1> DEFINE M == Meanings
           S == {i \in 1..Len(class) : Len(M[class[i].name][n].levels) <= i}
<1>1. Good(M, meth, data, class, current, emitted, calls, vTable, decl, extends)
      /\ Lined(class, decl) /\ Tree(class, extends)
  BY InvGood
<1>2. IsMeaning(M, extends, decl, vTable) BY <1>1 DEF Good
<1>3. n \in Names BY DEF Runners, Names, SpecialMethods
<1>4. ASSUME NEW i \in 1..Len(class), \A k \in 1..(i - 1) : k \in S PROVE i \in S
  <2> DEFINE a == class[i].name
             above == AboveIn(M, extends, a, n)
  <2>1. i \in DOMAIN class /\ a \in ClassNames BY <1>1 DEF Lined
  <2>2. above.levels \in Seq(ClassNames) BY <1>1, <1>2, <1>3, AboveType DEF MeaningType
  <2>3. Len(above.levels) <= i - 1
    <3>1. CASE UpOf(extends, a) = NoClass
      <4>1. above.levels = <<>> BY <3>1 DEF AboveIn, Nothing
      <4>2. QED BY <4>1
    <3>2. CASE UpOf(extends, a) # NoClass
      <4>1. PICK k \in 1..(i - 1) : class[k].name = UpOf(extends, a) BY <1>1, <2>1, <3>2 DEF Tree
      <4>2. above = M[class[k].name][n] BY <3>2, <4>1 DEF AboveIn
      <4>3. Len(above.levels) <= k BY <1>4, <4>1, <4>2
      <4>4. Len(above.levels) \in Nat BY <2>2, LenProperties
      <4> HIDE DEF above
      <4>5. QED BY <4>1, <4>3, <4>4
    <3>3. QED BY <3>1, <3>2
  <2>4. Len(above.levels) \in Nat BY <2>2, LenProperties
  <2>5. M[a][n] = above \/ M[a][n].levels = <<a>> \o above.levels
    <3>1. M[a][n] = Declared(a, DeclarationIn(decl, a, n), above) \/ M[a][n] = above
      BY <1>1, <1>2, <1>3, OwnMeaning
    <3>2. QED BY <3>1 DEF Declared
  <2>6. Len(<<a>> \o above.levels) = 1 + Len(above.levels)
    <3>1. <<a>> \in Seq(ClassNames) /\ Len(<<a>>) = 1 BY <2>1
    <3>2. QED BY <2>2, <3>1, ConcatProperties
  <2> HIDE DEF above
  <2>7. Len(M[a][n].levels) <= i
    <3>1. CASE M[a][n] = above BY <2>3, <2>4, <3>1
    <3>2. CASE M[a][n].levels = <<a>> \o above.levels BY <2>3, <2>4, <2>6, <3>2
    <3>3. QED BY <2>5, <3>1, <3>2
  <2>8. QED BY <2>7
<1>5. \A i \in 1..Len(class) : i \in S
  <2>1. Len(class) \in Nat BY <1>1 DEF Lined
  <2> HIDE DEF S
  <2>2. QED BY <1>4, <2>1, Upwards
<1>6. QED BY <1>5

RunStep(F, n, k, d) ==
    IF k = 0 \/ <<d, n>> \notin DOMAIN calls THEN <<>> ELSE <<d>> \o F[k - 1][calls[<<d, n>>]]

\* The constructors that run from d upwards, k of them at the most.
Runs(n, k, d) == Prefix(Line(Meanings, calls, d, n), k)

LEMMA RunsStep ==
    ASSUME IInv, NEW n \in Runners, NEW F, NEW k \in Nat, NEW d \in ClassId,
           k # 0 => \A e \in ClassId : F[k - 1][e] = Runs(n, k - 1, e)
    PROVE  RunStep(F, n, k, d) = Runs(n, k, d)
<1>1. CASE <<d, n>> \notin DOMAIN calls
  <2>1. Line(Meanings, calls, d, n) = <<>> BY <1>1 DEF Line
  <2>2. Runs(n, k, d) = <<>> BY <2>1, PrefixNone DEF Runs
  <2>3. QED BY <1>1, <2>2 DEF RunStep
<1>2. CASE <<d, n>> \in DOMAIN calls
  <2> DEFINE e == calls[<<d, n>>]
             rest == Line(Meanings, calls, e, n)
  <2>1. /\ d \in ClassNames /\ e \in ClassId /\ rest \in Seq(ClassNames)
        /\ Line(Meanings, calls, d, n) = <<d>> \o rest
    BY <1>2, CallLine
  <2>2. CASE k = 0
    <3>1. <<d>> \o rest \in Seq(ClassNames)
      <4>1. <<d>> \in Seq(ClassNames) BY <2>1
      <4>2. QED BY <2>1, <4>1, ConcatProperties
    <3>2. Runs(n, k, d) = <<>> BY <2>1, <2>2, <3>1, PrefixNone DEF Runs
    <3>3. QED BY <2>2, <3>2 DEF RunStep
  <2>3. CASE k # 0
    <3>1. Prefix(<<d>> \o rest, k) = <<d>> \o Prefix(rest, k - 1)
      <4> HIDE DEF rest
      <4>1. QED BY <2>1, <2>3, PrefixMore
    <3>2. F[k - 1][e] = Prefix(rest, k - 1) BY <2>1, <2>3 DEF Runs
    <3>3. RunStep(F, n, k, d) = <<d>> \o F[k - 1][e] BY <1>2, <2>3 DEF RunStep
    <3>4. QED BY <2>1, <3>1, <3>2, <3>3 DEF Runs
  <2>4. QED BY <2>2, <2>3
<1>3. QED BY <1>1, <1>2

LEMMA RunOrderIs ==
    ASSUME IInv, NEW n \in Runners, NEW c, StaticTarget(ClassOf(class, c), n) \in ClassId
    PROVE  RunOrder(c, n) = Runs(n, Len(class), StaticTarget(ClassOf(class, c), n))
<1> DEFINE L == Len(class)
           g == [k \in 0..L |-> [d \in ClassId |-> Runs(n, k, d)]]
           f == CHOOSE F : F = [k \in 0..L |-> [d \in ClassId |-> RunStep(F, n, k, d)]]
<1>1. L \in Nat BY InvGood DEF Lined
<1>2. g = [k \in 0..L |-> [d \in ClassId |-> RunStep(g, n, k, d)]]
  <2>1. ASSUME NEW k \in 0..L, NEW d \in ClassId PROVE RunStep(g, n, k, d) = Runs(n, k, d)
    <3>1. k \in Nat /\ (k # 0 => k - 1 \in 0..L) BY <1>1
    <3>2. k # 0 => \A e \in ClassId : g[k - 1][e] = Runs(n, k - 1, e) BY <3>1
    <3> HIDE DEF g
    <3>3. QED BY <3>1, <3>2, RunsStep
  <2>2. \A k \in 0..L : [d \in ClassId |-> RunStep(g, n, k, d)] = [d \in ClassId |-> Runs(n, k, d)]
    <3> HIDE DEF g
    <3>1. QED BY <2>1
  <2>3. QED BY <2>2
<1>3. f = [k \in 0..L |-> [d \in ClassId |-> RunStep(f, n, k, d)]]
  <2> HIDE DEF g
  <2>1. \E F : F = [k \in 0..L |-> [d \in ClassId |-> RunStep(F, n, k, d)]] BY <1>2
  <2>2. QED BY <2>1
<1>4. RunOrder(c, n) = f[L][StaticTarget(ClassOf(class, c), n)] BY DEF RunOrder, RunStep, ClassId
<1> HIDE DEF f, g
<1>5. \A k \in 0..L, d \in ClassId : f[k][d] = RunStep(f, n, k, d)
  <2> TAKE k \in 0..L, d \in ClassId
  <2>1. f[k] = [x \in ClassId |-> RunStep(f, n, k, x)] BY <1>3
  <2>2. QED BY <2>1
<1> DEFINE Right(k) == \A d \in ClassId : f[k][d] = Runs(n, k, d)
           S == {k \in 1..L : Right(k)}
<1>6. Right(0)
  <2>1. 0 \in 0..L /\ 0 \in Nat BY <1>1
  <2>2. \A d \in ClassId : RunStep(f, n, 0, d) = Runs(n, 0, d) BY <2>1, RunsStep
  <2>3. QED BY <1>5, <2>1, <2>2
<1>7. ASSUME NEW k \in 1..L, \A j \in 1..(k - 1) : j \in S PROVE k \in S
  <2>1. k \in 0..L /\ k \in Nat /\ (k - 1 = 0 \/ k - 1 \in 1..(k - 1)) BY <1>1
  <2>2. \A e \in ClassId : f[k - 1][e] = Runs(n, k - 1, e) BY <1>6, <1>7, <2>1
  <2>3. \A d \in ClassId : RunStep(f, n, k, d) = Runs(n, k, d) BY <2>1, <2>2, RunsStep
  <2>4. QED BY <1>5, <2>1, <2>3
<1>8. \A k \in 1..L : k \in S
  <2> HIDE DEF S
  <2>1. QED BY <1>1, <1>7, Upwards
<1>9. Right(L)
  <2>1. L = 0 \/ L \in 1..L BY <1>1
  <2>2. QED BY <1>6, <1>8, <2>1
<1>10. QED BY <1>4, <1>9

LEMMA RunsInv == IInv => EveryLevelRuns
<1> SUFFICES ASSUME IInv, NEW c \in DOMAIN vTable, NEW n \in Runners
             PROVE  RunOrder(c, n) = Meanings[c][n].levels
  BY DEF EveryLevelRuns, Runners
<1> DEFINE target == StaticTarget(ClassOf(class, c), n)
           levels == Meanings[c][n].levels
<1>1. PICK i \in DOMAIN class : /\ class[i].name = c /\ ClassOf(class, c) = class[i]
                                /\ c \in ClassNames
  BY FinishedIs
<1>2. /\ Good(Meanings, meth, data, class, current, emitted, calls, vTable, decl, extends)
      /\ Lined(class, decl)
  BY InvGood
<1>3. i \in 1..Len(class) /\ Len(class) \in Nat BY <1>2 DEF Lined
<1>4. target = Meanings[c][n].in BY <1>1, <1>2, RunnerTarget
<1>5. target \in ClassId /\ levels = Line(Meanings, calls, target, n) /\ levels \in Seq(ClassNames)
  BY <1>1, <1>3, <1>4, Continues
<1>6. Len(levels) <= Len(class)
  <2>1. Len(levels) <= i BY <1>1, <1>3, LevelsShort
  <2>2. Len(levels) \in Nat BY <1>5, LenProperties
  <2> HIDE DEF levels
  <2>3. QED BY <1>3, <2>1, <2>2
<1>7. RunOrder(c, n) = Prefix(levels, Len(class)) BY <1>5, RunOrderIs DEF Runs
<1> HIDE DEF levels
<1>8. Prefix(levels, Len(class)) = levels BY <1>3, <1>5, <1>6, PrefixAll
<1>9. QED BY <1>7, <1>8 DEF levels

--------------------------------------------------------------------------------
(* The theorems. *)

\* The methods, members and classes of the compiler keep their types; a class holds only
\* objects that there are, however they are shared (bpp_class).
THEOREM ClassTypes == Spec => []TypeOK
<1>1. QED BY Invariant, TypeInv, PTL

\* However long the hierarchy and whatever was overridden in it, the vTable that add_class
\* writes for a class names, for every virtual method, the function of the nearest class
\* that declares it, and holds nothing else.
THEOREM VirtualCallsNearest == Spec => []VirtualDispatch
<1>1. QED BY Invariant, VirtualInv, PTL

\* The class whose function generate_constructor_call_code and its like call for an object
\* of a finished class is the nearest one that declares the method; there is none if none does.
THEOREM StaticCallsNearest == Spec => []StaticDispatch
<1>1. QED BY Invariant, StaticInv, PTL

\* add_class writes each function once, although many classes hold the same method object,
\* and writes every function that a call or a vTable names.
THEOREM CalledIsWritten == Spec => []FunctionsWritten
<1>1. QED BY Invariant, WrittenInv, PTL

\* In the class that is being defined, @this reaches what it or an ancestor declares except
\* the private members of the ancestors, and @super nothing private: get_method and
\* get_datamember, after inherit has changed the scopes of the shared objects.
THEOREM AccessAsDeclared == Spec => []AccessRespected
<1>1. QED BY Invariant, AccessInv, PTL

\* The constructor (or destructor) that is called for an object of a finished class calls
\* that of the nearest ancestor that has one, and so on: all of them run, each once, the
\* nearest first, although each handler looks only at its parent class.
THEOREM AllLevelsRun == Spec => []EveryLevelRuns
<1>1. QED BY Invariant, RunsInv, PTL
================================================================================
