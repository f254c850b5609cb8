--------------------------- MODULE MkClassesProofs ---------------------------
(***************************************************************************)
(* Proofs about MkClasses: names, the hierarchy of classes, what a static  *)
(* instance is linked to and which members it has, the parts of an object  *)
(* and what lookup finds along them, for every set of names, every size of *)
(* the memory pool's blocks and scripts of every length.                   *)
(***************************************************************************)
EXTENDS MkClasses, WellFoundedInduction, TLAPS

(* No name of the current block lies where the next one will.              *)
GoodPool(p) ==
  /\ p.block \in 0 .. MaxBlocks - 1 /\ p.next \in 0 .. BlockNames
  /\ IsPartial(p.addr, Names, Addresses)
  /\ \A n \in DOMAIN p.addr : p.addr[n].block = p.block => p.addr[n].offset < p.next
  /\ \A m, n \in DOMAIN p.addr : m # n => p.addr[m] # p.addr[n]

(* A pool with more names, the old ones where they were.                   *)
Keeps(p, q) ==
  DOMAIN p.addr \subseteq DOMAIN q.addr /\ \A n \in DOMAIN p.addr : q.addr[n] = p.addr[n]

Linking == phase \in {"linkInternal", "linkScript"}

(* What each phase has registered and linked.                              *)
Phases ==
  /\ phase = "internal" =>
       /\ Len(classes) <= Len(Internals)
       /\ \A i \in 1 .. Len(classes) : classes[i].name = Internals[i].name
       /\ DOMAIN global = {}
  /\ phase \in {"internal", "linkInternal"} => Registered \subseteq InternalNames
  /\ phase # "internal" => InternalNames \subseteq Registered
  /\ phase = "linkInternal" => DOMAIN global = linked
  /\ phase \in {"script", "failed"} => DOMAIN global = InternalNames
  /\ phase = "linkScript" => DOMAIN global = InternalNames \cup linked
  /\ phase = "run" => DOMAIN global = Registered
  /\ phase # "run" => building = None /\ parts = <<>>
  /\ open # None => phase \in {"script", "failed"}

(* An enumeration has been at the lowest addresses.                        *)
InOrder == Linking => \A n \in linked, m \in Registered \ linked : Before(n, m)

OpenInterned ==
  open # None => {open.name, open.super} \cup DOMAIN open.members \subseteq DOMAIN pool.addr \cup {None}

(* A module has no superclass.                                            *)
NoSuper ==
  /\ \A i \in DOMAIN classes : classes[i].module => classes[i].super = None
  /\ open # None => (open.module => open.super = None)

(* A static instance is without its superclass's exactly when the          *)
(* superclass comes from the same script and its name lies higher in       *)
(* memory: the enumeration meets it later.  (SuperInstanceFirst, which the *)
(* documentation promises, fails in these cases and no others.)            *)
SuperUnlessLater ==
  \A i \in DOMAIN classes : LET c == classes[i] IN
    c.name \in DOMAIN global =>
      /\ c.super # None =>
           (global[c.name].up = None <=> /\ Before(c.name, c.super)
                                         /\ c.super \in InternalNames => c.name \in InternalNames)
      /\ global[c.name].up \in {None, UpOf(c)}

IInv ==
  /\ TypeOK /\ GoodPool(pool) /\ Interned /\ OpenInterned /\ NoSuper
  /\ Hierarchy /\ Phases /\ InOrder /\ SuperUnlessLater

-----------------------------------------------------------------------------
(* Extend gives a function with one more argument.                         *)
LEMMA ExtendIs ==
  ASSUME NEW f, NEW x, NEW v
  PROVE  /\ DOMAIN Extend(f, x, v) = DOMAIN f \cup {x}
         /\ Extend(f, x, v)[x] = v
         /\ \A y \in DOMAIN f : y # x => Extend(f, x, v)[y] = f[y]
BY DEF Extend

LEMMA ExtendPartial ==
  ASSUME NEW S, NEW T, NEW f, IsPartial(f, S, T), NEW x \in S, NEW v \in T
  PROVE  IsPartial(Extend(f, x, v), S, T)
BY DEF Extend, IsPartial

(* A name is placed where no other one is.                                 *)
LEMMA PlaceGood ==
  ASSUME NEW p, GoodPool(p), NEW n \in Names, n \notin DOMAIN p.addr,
         NEW b \in 0 .. MaxBlocks - 1, NEW offset \in 0 .. BlockNames - 1,
         b = p.block => offset = p.next,
         b # p.block => b \in FreeBlocks(p)
  PROVE  LET q == Place(p, n, b, offset)
         IN  GoodPool(q) /\ Keeps(p, q) /\ n \in DOMAIN q.addr
<1> DEFINE q == Place(p, n, b, offset)
           a == [block |-> b, offset |-> offset]
<1>1. /\ q.addr = Extend(p.addr, n, a) /\ q.block = b /\ q.next = offset + 1
  BY DEF Place
<1>2. a \in Addresses
  BY DEF Addresses
<1>3. IsPartial(q.addr, Names, Addresses)
  BY <1>1, <1>2, ExtendPartial DEF GoodPool
<1>4. /\ DOMAIN q.addr = DOMAIN p.addr \cup {n} /\ q.addr[n] = a
      /\ \A m \in DOMAIN p.addr : q.addr[m] = p.addr[m]
  BY <1>1 DEF Extend
<1>5. \A m \in DOMAIN p.addr : p.addr[m] \in Addresses
  BY DEF GoodPool, IsPartial
<1>6. \A m \in DOMAIN p.addr : p.addr[m].block = b => p.addr[m].offset < offset
  <2>1. CASE b = p.block
    BY <2>1 DEF GoodPool
  <2>2. CASE b # p.block
    BY <2>2 DEF FreeBlocks
  <2> QED
    BY <2>1, <2>2
<1>7. \A m \in DOMAIN p.addr : p.addr[m] # a
  BY <1>5, <1>6 DEF Addresses
<1>8. \A k, m \in DOMAIN q.addr : k # m => q.addr[k] # q.addr[m]
  BY <1>4, <1>7 DEF GoodPool
<1>9. \A m \in DOMAIN q.addr : q.addr[m].block = q.block => q.addr[m].offset < q.next
  BY <1>1, <1>4, <1>5, <1>6 DEF Addresses
<1>10. q.block \in 0 .. MaxBlocks - 1 /\ q.next \in 0 .. BlockNames
  BY <1>1, MkClassesAssumption
<1> QED
  BY <1>3, <1>4, <1>8, <1>9, <1>10 DEF GoodPool, Keeps

(* Interning a name keeps the pool good and all addresses.                 *)
LEMMA InternGood ==
  ASSUME NEW p, GoodPool(p), NEW n \in Names \cup {None}, NEW q \in Intern(p, n)
  PROVE  GoodPool(q) /\ Keeps(p, q) /\ n \in DOMAIN q.addr \cup {None}
<1>1. CASE n = None \/ n \in DOMAIN p.addr
  BY <1>1 DEF Intern, Keeps
<1>2. CASE n # None /\ n \notin DOMAIN p.addr /\ p.next < BlockNames
  <2>1. p.block \in 0 .. MaxBlocks - 1 /\ p.next \in 0 .. BlockNames - 1
    BY <1>2, MkClassesAssumption DEF GoodPool
  <2>2. q = Place(p, n, p.block, p.next)
    BY <1>2 DEF Intern
  <2> QED
    BY <1>2, <2>1, <2>2, PlaceGood
<1>3. CASE n # None /\ n \notin DOMAIN p.addr /\ ~(p.next < BlockNames)
  <2>1. PICK b \in FreeBlocks(p) : q = Place(p, n, b, 0)
    BY <1>3 DEF Intern
  <2>2. b \in 0 .. MaxBlocks - 1 /\ b # p.block /\ 0 \in 0 .. BlockNames - 1
    BY MkClassesAssumption DEF FreeBlocks
  <2> QED
    BY <1>3, <2>1, <2>2, PlaceGood
<1> QED
  BY <1>1, <1>2, <1>3

LEMMA InternBothGood ==
  ASSUME GoodPool(pool), NEW m \in Names \cup {None}, NEW n \in Names \cup {None},
         InternBoth(m, n)
  PROVE  GoodPool(pool') /\ Keeps(pool, pool') /\ {m, n} \subseteq DOMAIN pool'.addr \cup {None}
<1>1. PICK p \in Intern(pool, m) : pool' \in Intern(p, n)
  BY DEF InternBoth
<1>2. GoodPool(p) /\ Keeps(pool, p) /\ m \in DOMAIN p.addr \cup {None}
  BY InternGood
<1>3. GoodPool(pool') /\ Keeps(p, pool') /\ n \in DOMAIN pool'.addr \cup {None}
  BY <1>1, <1>2, InternGood
<1> QED
  BY <1>2, <1>3 DEF Keeps

(* Of two names with addresses, one comes before the other.                *)
LEMMA BeforeOrders ==
  ASSUME GoodPool(pool), NEW m \in DOMAIN pool.addr, NEW n \in DOMAIN pool.addr
  PROVE  /\ m # n => Before(m, n) \/ Before(n, m)
         /\ ~(Before(m, n) /\ Before(n, m))
<1> DEFINE a == pool.addr[m]
           b == pool.addr[n]
<1>1. a \in Addresses /\ b \in Addresses
  BY DEF GoodPool, IsPartial
<1>2. /\ a.block \in Int /\ a.offset \in Int /\ b.block \in Int /\ b.offset \in Int
      /\ a = [block |-> a.block, offset |-> a.offset] /\ b = [block |-> b.block, offset |-> b.offset]
  BY <1>1 DEF Addresses
<1>3. m # n => a # b
  BY DEF GoodPool
<1>4. Before(m, n) <=> a.block < b.block \/ (a.block = b.block /\ a.offset < b.offset)
  BY DEF Before
<1>5. Before(n, m) <=> b.block < a.block \/ (b.block = a.block /\ b.offset < a.offset)
  BY DEF Before
<1> HIDE DEF a, b
<1> QED
  BY <1>2, <1>3, <1>4, <1>5

(* What a new member leaves of a class.                                    *)
LEMMA DeclaresIs ==
  ASSUME NEW c \in Classes, NEW m \in MemberNames, NEW d \in Declarations
  PROVE  LET e == Declares(c, m, d)
         IN  /\ e \in Classes
             /\ e.name = c.name /\ e.super = c.super /\ e.module = c.module
             /\ DOMAIN e.members = DOMAIN c.members \cup {m}
<1> DEFINE e == Declares(c, m, d)
           f == Extend(c.members, m, d)
<1>1. PICK D \in SUBSET MemberNames : c.members \in [D -> Declarations]
  BY DEF Classes, Partial
<1>2. f \in [D \cup {m} -> Declarations] /\ DOMAIN f = DOMAIN c.members \cup {m}
  BY <1>1 DEF Extend
<1>3. f \in Partial(MemberNames, Declarations)
  BY <1>2 DEF Partial
<1>4. e = [c EXCEPT !.members = f]
  BY DEF Declares
<1> QED
  BY <1>2, <1>3, <1>4 DEF Classes

LEMMA NewClassIs ==
  ASSUME NEW n \in ClassNames, NEW super \in ClassNames \cup {None}, NEW module \in BOOLEAN
  PROVE  NewClass(n, super, module) \in Classes /\ DOMAIN NewClass(n, super, module).members = {}
<1>1. Empty \in [{} -> Declarations] /\ DOMAIN Empty = {}
  BY DEF Empty
<1>2. Empty \in Partial(MemberNames, Declarations)
  BY <1>1 DEF Partial
<1> QED
  BY <1>1, <1>2 DEF NewClass, Classes

(* A class that is registered has its type and names with addresses.       *)
LEMMA ClassTyped ==
  ASSUME classes \in Seq(Classes), NEW i \in DOMAIN classes
  PROVE  /\ classes[i] \in Classes
         /\ classes[i].name \in ClassNames /\ classes[i].name # None
         /\ classes[i].super \in ClassNames \cup {None}
         /\ classes[i].module \in BOOLEAN
         /\ classes[i].members \in Partial(MemberNames, Declarations)
<1>1. classes[i] \in Classes
  OBVIOUS
<1>2. classes[i].name \in ClassNames /\ classes[i].super \in ClassNames \cup {None}
  BY <1>1 DEF Classes
<1>3. classes[i].module \in BOOLEAN /\ classes[i].members \in Partial(MemberNames, Declarations)
  BY <1>1 DEF Classes
<1>4. classes[i].name # None
  BY <1>2, MkClassesAssumption DEF Names
<1> QED
  BY <1>1, <1>2, <1>3, <1>4

(* More names, members and classes change nothing for the static instances *)
(* that are there.                                                         *)
LEMMA SuperKept ==
  ASSUME IInv, Keeps(pool, pool'), UNCHANGED global, DOMAIN classes \subseteq DOMAIN classes',
         \A i \in DOMAIN classes : /\ classes'[i].name = classes[i].name
                                  /\ classes'[i].super = classes[i].super
                                  /\ classes'[i].module = classes[i].module,
         \A i \in DOMAIN classes' \ DOMAIN classes : classes'[i].name \notin DOMAIN global
  PROVE  SuperUnlessLater'
<1>1. \A i \in DOMAIN classes :
        classes[i].super # None =>
          (Before(classes[i].name, classes[i].super)' <=> Before(classes[i].name, classes[i].super))
  <2> SUFFICES ASSUME NEW i \in DOMAIN classes, classes[i].super # None
               PROVE  Before(classes[i].name, classes[i].super)'
                        <=> Before(classes[i].name, classes[i].super)
    OBVIOUS
  <2>1. classes[i].name \in DOMAIN pool.addr /\ classes[i].super \in DOMAIN pool.addr
    BY ClassTyped DEF IInv, Interned, TypeOK
  <2> QED
    BY <2>1 DEF Keeps, Before
<1> QED
  BY <1>1 DEF IInv, SuperUnlessLater, UpOf

(* What a line of the script keeps that registers nothing.                 *)
LEMMA LineKeeps ==
  ASSUME IInv, phase = "script", GoodPool(pool'), Keeps(pool, pool'), lines' \in 0 .. MaxLines,
         UNCHANGED classes, NothingRuns, phase' \in {"script", "failed"},
         open' \in Classes \cup {None},
         open' # None => /\ {open'.name, open'.super} \cup DOMAIN open'.members
                              \subseteq DOMAIN pool'.addr \cup {None}
                         /\ open'.module => open'.super = None
  PROVE  IInv'
<1>1. UNCHANGED <<global, linked, parts, building>>
  BY DEF NothingRuns
<1>2. SuperUnlessLater'
  BY <1>1, SuperKept
<1>3. Interned'
  BY DEF IInv, Interned, GoodPool, Keeps
<1>4. Hierarchy'
  BY DEF IInv, Hierarchy
<1>5. TypeOK'
  BY <1>1 DEF IInv, TypeOK, GoodPool, Registered, IsPartial
<1>6. Phases'
  BY <1>1 DEF IInv, Phases, Registered
<1>7. InOrder'
  BY DEF InOrder, Linking
<1>8. OpenInterned' /\ NoSuper'
  BY DEF IInv, OpenInterned, NoSuper
<1> QED
  BY <1>2, <1>3, <1>4, <1>5, <1>6, <1>7, <1>8 DEF IInv

LEMMA MentionKeeps ==
  ASSUME IInv, Mention
  PROVE  IInv'
<1>1. PICK n \in ScriptNames : pool' \in Intern(pool, n)
  BY DEF Mention
<1>2. GoodPool(pool') /\ Keeps(pool, pool')
  <2>1. n \in Names \cup {None} /\ GoodPool(pool)
    BY DEF Names, ClassNames, IInv
  <2> QED
    BY <1>1, <2>1, InternGood
<1>3. lines' \in 0 .. MaxLines
  BY MkClassesAssumption DEF IInv, TypeOK, Mention, Line
<1>4. open' \in Classes \cup {None}
  BY DEF IInv, TypeOK, Mention
<1>5. open' # None => /\ {open'.name, open'.super} \cup DOMAIN open'.members
                           \subseteq DOMAIN pool'.addr \cup {None}
                      /\ open'.module => open'.super = None
  BY <1>2 DEF IInv, OpenInterned, NoSuper, Mention, Keeps
<1> QED
  BY <1>2, <1>3, <1>4, <1>5, LineKeeps DEF Mention, Line

LEMMA ClassLineKeeps ==
  ASSUME IInv, ClassLine
  PROVE  IInv'
<1>1. PICK n \in Declared :
        \/ \E super \in ClassNames : InternBoth(n, super) /\ open' = NewClass(n, super, FALSE)
        \/ pool' \in Intern(pool, n) /\ open' = NewClass(n, None, TRUE)
  BY DEF ClassLine
<1>2. n \in ClassNames /\ n \in Names \cup {None} /\ GoodPool(pool)
  BY MkClassesAssumption DEF Names, IInv
<1>3. lines' \in 0 .. MaxLines
  BY MkClassesAssumption DEF IInv, TypeOK, ClassLine, Line
<1>4. \E super \in ClassNames \cup {None}, module \in BOOLEAN :
        /\ open' = NewClass(n, super, module) /\ (module => super = None)
        /\ GoodPool(pool') /\ Keeps(pool, pool')
        /\ {n, super} \subseteq DOMAIN pool'.addr \cup {None}
  <2>1. CASE \E super \in ClassNames : InternBoth(n, super) /\ open' = NewClass(n, super, FALSE)
    <3>1. PICK super \in ClassNames : InternBoth(n, super) /\ open' = NewClass(n, super, FALSE)
      BY <2>1
    <3>2. super \in Names \cup {None}
      BY DEF Names
    <3> QED
      BY <1>2, <3>1, <3>2, InternBothGood
  <2>2. CASE pool' \in Intern(pool, n) /\ open' = NewClass(n, None, TRUE)
    <3>1. GoodPool(pool') /\ Keeps(pool, pool') /\ n \in DOMAIN pool'.addr \cup {None}
      BY <1>2, <2>2, InternGood
    <3> QED
      BY <2>2, <3>1
  <2> QED
    BY <1>1, <2>1, <2>2
<1>5. PICK super \in ClassNames \cup {None}, module \in BOOLEAN :
        /\ open' = NewClass(n, super, module) /\ (module => super = None)
        /\ GoodPool(pool') /\ Keeps(pool, pool')
        /\ {n, super} \subseteq DOMAIN pool'.addr \cup {None}
  BY <1>4
<1>6. /\ open' \in Classes /\ DOMAIN open'.members = {}
      /\ open'.name = n /\ open'.super = super /\ open'.module = module
  <2>1. open' \in Classes /\ DOMAIN open'.members = {}
    BY <1>2, <1>5, NewClassIs
  <2>2. open'.name = n /\ open'.super = super /\ open'.module = module
    BY <1>5 DEF NewClass
  <2> QED
    BY <2>1, <2>2
<1>7. open' \in Classes \cup {None}
  BY <1>6
<1>8. open' # None => /\ {open'.name, open'.super} \cup DOMAIN open'.members
                           \subseteq DOMAIN pool'.addr \cup {None}
                      /\ open'.module => open'.super = None
  <2>1. {n, super} \subseteq DOMAIN pool'.addr \cup {None} /\ (module => super = None)
    BY <1>5
  <2> QED
    BY <1>6, <2>1
<1>9. phase = "script" /\ phase' \in {"script", "failed"} /\ UNCHANGED classes /\ NothingRuns
  BY DEF ClassLine, Line
<1> QED
  BY <1>3, <1>5, <1>7, <1>8, <1>9, LineKeeps

(* An initial value names a class of the script or none.                   *)
LEMMA NeedsName ==
  ASSUME NEW m \in MemberNames, NEW d \in Declarations, InternBoth(m, Needs(d)), GoodPool(pool)
  PROVE  GoodPool(pool') /\ Keeps(pool, pool') /\ m \in DOMAIN pool'.addr
<1>1. m \in Names \cup {None} /\ Needs(d) \in Names \cup {None}
  BY DEF Names, ClassNames, Needs
<1>2. GoodPool(pool') /\ Keeps(pool, pool') /\ m \in DOMAIN pool'.addr \cup {None}
  BY <1>1, InternBothGood
<1> QED
  BY <1>2, MkClassesAssumption DEF Names

LEMMA MemberLineKeeps ==
  ASSUME IInv, MemberLine
  PROVE  IInv'
<1>1. PICK m \in MemberNames, d \in Declarations :
        /\ InternBoth(m, Needs(d))
        /\ IF m \in DOMAIN open.members
             THEN Fails
             ELSE open' = Declares(open, m, d) /\ UNCHANGED <<classes, phase>>
  BY DEF MemberLine
<1>2. GoodPool(pool') /\ Keeps(pool, pool') /\ m \in DOMAIN pool'.addr
  BY <1>1, NeedsName DEF IInv
<1>3. open \in Classes /\ open # None
  BY DEF MemberLine, IInv, TypeOK
<1>4. lines' \in 0 .. MaxLines
  BY MkClassesAssumption DEF IInv, TypeOK, MemberLine, Line
<1>5. phase = "script" /\ phase' \in {"script", "failed"} /\ UNCHANGED classes /\ NothingRuns
  BY <1>1 DEF MemberLine, Line, Fails
<1>6. /\ open' \in Classes \cup {None}
      /\ {open'.name, open'.super} \cup DOMAIN open'.members \subseteq DOMAIN pool'.addr \cup {None}
      /\ open'.module => open'.super = None
  <2>1. /\ {open.name, open.super} \cup DOMAIN open.members \subseteq DOMAIN pool'.addr \cup {None}
        /\ open.module => open.super = None
    BY <1>2, <1>3 DEF IInv, OpenInterned, NoSuper, Keeps
  <2>2. CASE m \in DOMAIN open.members
    BY <1>1, <1>3, <2>1, <2>2 DEF Fails
  <2>3. CASE m \notin DOMAIN open.members
    <3>1. /\ open' \in Classes
          /\ open'.name = open.name /\ open'.super = open.super /\ open'.module = open.module
          /\ DOMAIN open'.members = DOMAIN open.members \cup {m}
      BY <1>1, <1>3, <2>3, DeclaresIs
    <3> QED
      BY <1>2, <2>1, <3>1
  <2> QED
    BY <2>2, <2>3
<1> QED
  BY <1>2, <1>4, <1>5, <1>6, LineKeeps

LEMMA BadLineKeeps ==
  ASSUME IInv, BadLine
  PROVE  IInv'
<1>1. GoodPool(pool') /\ Keeps(pool, pool')
  BY DEF BadLine, IInv, GoodPool, Keeps
<1>2. lines' \in 0 .. MaxLines /\ phase = "script" /\ phase' \in {"script", "failed"}
  BY MkClassesAssumption DEF IInv, TypeOK, BadLine, Line, Fails
<1>3. UNCHANGED <<pool, classes, open>> /\ NothingRuns
  BY DEF BadLine, Fails
<1>4. open' \in Classes \cup {None}
  BY <1>3 DEF IInv, TypeOK
<1>5. open' # None => /\ {open'.name, open'.super} \cup DOMAIN open'.members
                           \subseteq DOMAIN pool'.addr \cup {None}
                      /\ open'.module => open'.super = None
  BY <1>3 DEF IInv, OpenInterned, NoSuper
<1> QED
  BY <1>1, <1>2, <1>3, <1>4, <1>5, LineKeeps

-----------------------------------------------------------------------------
(* What registering a class does.                                          *)
LEMMA AppendKeeps ==
  ASSUME IInv, GoodPool(pool'), Keeps(pool, pool'), UNCHANGED global,
         NEW e \in Classes, classes' = Append(classes, e),
         e.super # None => e.super \in Registered, e.name \notin Registered,
         e.module => e.super = None,
         {e.name, e.super} \cup DOMAIN e.members \subseteq DOMAIN pool'.addr \cup {None}
  PROVE  /\ classes' \in Seq(Classes)
         /\ Registered' = Registered \cup {e.name}
         /\ Interned' /\ Hierarchy' /\ SuperUnlessLater'
         /\ \A i \in DOMAIN classes' : classes'[i].module => classes'[i].super = None
<1>1. /\ classes \in Seq(Classes) /\ Len(classes) \in Nat /\ DOMAIN classes = 1 .. Len(classes)
      /\ DOMAIN global \subseteq Registered
  BY DEF IInv, TypeOK
<1>2. /\ classes' \in Seq(Classes)
      /\ DOMAIN classes' = 1 .. Len(classes) + 1
      /\ \A i \in 1 .. Len(classes) : classes'[i] = classes[i]
      /\ classes'[Len(classes) + 1] = e
  BY <1>1
<1>3. Registered' = Registered \cup {e.name}
  <2>1. Registered' = {classes'[i].name : i \in 1 .. Len(classes) + 1}
    BY <1>2 DEF Registered
  <2>2. Registered = {classes[i].name : i \in 1 .. Len(classes)}
    BY <1>1 DEF Registered
  <2> QED
    BY <1>1, <1>2, <2>1, <2>2
<1>4. Interned'
  <2>1. \A i \in DOMAIN classes :
          {classes[i].name, classes[i].super} \cup DOMAIN classes[i].members
            \subseteq DOMAIN pool'.addr \cup {None}
    BY DEF IInv, Interned, Keeps
  <2>2. \A i \in DOMAIN classes' :
          {classes'[i].name, classes'[i].super} \cup DOMAIN classes'[i].members
            \subseteq DOMAIN pool'.addr \cup {None}
    <3> SUFFICES ASSUME NEW i \in DOMAIN classes'
                 PROVE  {classes'[i].name, classes'[i].super} \cup DOMAIN classes'[i].members
                          \subseteq DOMAIN pool'.addr \cup {None}
      OBVIOUS
    <3>1. CASE i = Len(classes) + 1
      BY <1>2, <3>1
    <3>2. CASE i \in 1 .. Len(classes)
      BY <1>1, <1>2, <2>1, <3>2
    <3> QED
      BY <1>1, <1>2, <3>1, <3>2
  <2> QED
    BY <2>2 DEF Interned, GoodPool
<1>5. Hierarchy'
  <2> SUFFICES ASSUME NEW i \in 1 .. Len(classes) + 1
               PROVE  /\ \A j \in 1 .. i - 1 : classes'[j].name # classes'[i].name
                      /\ classes'[i].super # None =>
                           \E j \in 1 .. i - 1 : classes'[j].name = classes'[i].super
    BY <1>2 DEF Hierarchy
  <2>1. CASE i = Len(classes) + 1
    <3>1. \A j \in 1 .. Len(classes) : classes[j].name \in Registered
      BY <1>1 DEF Registered
    <3>2. e.super # None => \E j \in 1 .. Len(classes) : classes[j].name = e.super
      BY <1>1 DEF Registered
    <3> QED
      BY <1>1, <1>2, <2>1, <3>1, <3>2
  <2>2. CASE i \in 1 .. Len(classes)
    <3>1. /\ \A j \in 1 .. i - 1 : classes[j].name # classes[i].name
          /\ classes[i].super # None => \E j \in 1 .. i - 1 : classes[j].name = classes[i].super
      BY <1>1, <2>2 DEF IInv, Hierarchy
    <3>2. \A j \in 1 .. i : classes'[j] = classes[j]
      BY <1>1, <1>2, <2>2
    <3> QED
      BY <1>1, <2>2, <3>1, <3>2
  <2> QED
    BY <1>1, <2>1, <2>2
<1>6. SuperUnlessLater'
  <2>1. \A i \in DOMAIN classes' \ DOMAIN classes : classes'[i].name \notin DOMAIN global
    <3>1. \A i \in DOMAIN classes' \ DOMAIN classes : i = Len(classes) + 1
      BY <1>1, <1>2
    <3> QED
      BY <1>1, <1>2, <3>1
  <2>2. DOMAIN classes \subseteq DOMAIN classes'
    BY <1>1, <1>2
  <2> QED
    BY <1>1, <1>2, <2>1, <2>2, SuperKept
<1>7. \A i \in DOMAIN classes' : classes'[i].module => classes'[i].super = None
  <2>1. \A i \in 1 .. Len(classes) : classes[i].module => classes[i].super = None
    BY <1>1 DEF IInv, NoSuper
  <2> QED
    BY <1>1, <1>2, <2>1
<1> QED
  BY <1>2, <1>3, <1>4, <1>5, <1>6, <1>7

LEMMA InternalsTyped ==
  ASSUME NEW i \in DOMAIN Internals
  PROVE  /\ Internals[i].name \in InternalNames
         /\ Internals[i].super \in InternalNames \cup {None}
         /\ Internals[i].super # None =>
              \E j \in 1 .. i - 1 : Internals[j].name = Internals[i].super
         /\ \A j \in 1 .. i - 1 : Internals[j].name # Internals[i].name
<1>1. Internals[i] \in [name : InternalNames, super : InternalNames \cup {None}]
  <2> DEFINE S == [name : InternalNames, super : InternalNames \cup {None}]
  <2>1. Internals \in Seq(S)
    BY MkClassesAssumption
  <2> HIDE DEF S
  <2>2. Internals[i] \in S
    BY <2>1
  <2> QED
    BY <2>2 DEF S
<1> QED
  BY <1>1, MkClassesAssumption

LEMMA RegisterInternalKeeps ==
  ASSUME IInv, RegisterInternal
  PROVE  IInv'
<1> DEFINE k == Len(classes) + 1
<1>1. /\ classes \in Seq(Classes) /\ Len(classes) \in Nat /\ DOMAIN classes = 1 .. Len(classes)
      /\ Len(Internals) \in Nat /\ DOMAIN Internals = 1 .. Len(Internals)
      /\ Len(classes) < Len(Internals) /\ phase = "internal"
  BY MkClassesAssumption DEF IInv, TypeOK, RegisterInternal
<1>2. k \in DOMAIN Internals
  BY <1>1
<1>3. PICK n \in InternalNames, super \in InternalNames \cup {None} :
        n = Internals[k].name /\ super = Internals[k].super
  BY <1>2, InternalsTyped
<1>4. n \in ClassNames /\ super \in ClassNames \cup {None} /\ n \in Names \cup {None}
      /\ super \in Names \cup {None}
  BY DEF ClassNames, Names
<1>5. PICK e : e = NewClass(n, super, FALSE)
  OBVIOUS
<1>6. e \in Classes /\ DOMAIN e.members = {}
  BY <1>4, <1>5, NewClassIs
<1>7. e.name = n /\ e.super = super /\ ~e.module
  BY <1>5 DEF NewClass
<1>8. InternBoth(n, super) /\ classes' = Append(classes, e)
  BY <1>3, <1>5 DEF RegisterInternal
<1>9. GoodPool(pool') /\ Keeps(pool, pool') /\ {n, super} \subseteq DOMAIN pool'.addr \cup {None}
  BY <1>4, <1>8, InternBothGood DEF IInv
<1>10. \A i \in 1 .. Len(classes) : classes[i].name = Internals[i].name
  BY <1>1 DEF IInv, Phases
<1>11. Registered = {Internals[i].name : i \in 1 .. Len(classes)}
  BY <1>1, <1>10 DEF Registered
<1>12. n \notin Registered /\ (super # None => super \in Registered)
  <2>1. \A j \in 1 .. Len(classes) : Internals[j].name # n
    BY <1>1, <1>2, <1>3, InternalsTyped
  <2>2. super # None => \E j \in 1 .. Len(classes) : Internals[j].name = super
    BY <1>1, <1>2, <1>3, InternalsTyped
  <2> QED
    BY <1>11, <2>1, <2>2
<1>13. UNCHANGED <<phase, open, lines, global, linked, parts, building>>
  BY DEF RegisterInternal, NothingRuns
<1>14. /\ classes' \in Seq(Classes)
       /\ Registered' = Registered \cup {n}
       /\ Interned' /\ Hierarchy' /\ SuperUnlessLater'
       /\ \A i \in DOMAIN classes' : classes'[i].module => classes'[i].super = None
  <2>1. {e.name, e.super} \cup DOMAIN e.members \subseteq DOMAIN pool'.addr \cup {None}
    BY <1>6, <1>7, <1>9
  <2> QED
    BY <1>6, <1>7, <1>8, <1>9, <1>12, <1>13, <2>1, AppendKeeps
<1>15. TypeOK'
  BY <1>9, <1>13, <1>14 DEF IInv, TypeOK, GoodPool, IsPartial
<1>16. Phases'
  <2>1. Registered' \subseteq InternalNames
    BY <1>1, <1>14 DEF IInv, Phases
  <2>2. /\ Len(classes') <= Len(Internals)
        /\ \A i \in 1 .. Len(classes') : classes'[i].name = Internals[i].name
    BY <1>1, <1>3, <1>7, <1>8, <1>10
  <2> QED
    BY <1>1, <1>13, <2>1, <2>2 DEF IInv, Phases
<1>17. InOrder' /\ OpenInterned' /\ NoSuper'
  <2>1. open = None
    BY <1>1 DEF IInv, Phases
  <2> QED
    BY <1>1, <1>13, <1>14, <2>1 DEF InOrder, Linking, OpenInterned, NoSuper
<1> QED
  BY <1>9, <1>14, <1>15, <1>16, <1>17 DEF IInv

LEMMA EndLineKeeps ==
  ASSUME IInv, EndLine
  PROVE  IInv'
<1>1. /\ phase = "script" /\ open \in Classes /\ open # None
      /\ UNCHANGED <<pool, lines, global, linked, parts, building>> /\ NothingRuns
  BY DEF EndLine, IInv, TypeOK, NothingRuns
<1>2. GoodPool(pool') /\ Keeps(pool, pool')
  BY <1>1 DEF IInv, GoodPool, Keeps
<1>3. CASE Registers(open)
  <2>1. classes' = Append(classes, open) /\ open' = None /\ UNCHANGED phase
    BY <1>3 DEF EndLine
  <2>2. /\ {open.name, open.super} \cup DOMAIN open.members \subseteq DOMAIN pool'.addr \cup {None}
        /\ open.module => open.super = None
    BY <1>1, <1>2 DEF IInv, OpenInterned, NoSuper
  <2>3. open.name \notin Registered /\ (open.super # None => open.super \in Registered)
    BY <1>3 DEF Registers
  <2>4. /\ classes' \in Seq(Classes)
        /\ Registered' = Registered \cup {open.name}
        /\ Interned' /\ Hierarchy' /\ SuperUnlessLater'
        /\ \A i \in DOMAIN classes' : classes'[i].module => classes'[i].super = None
    BY <1>1, <1>2, <2>1, <2>2, <2>3, AppendKeeps
  <2>5. TypeOK'
    BY <1>1, <2>1, <2>4 DEF IInv, TypeOK, IsPartial
  <2>6. Phases' /\ InOrder' /\ OpenInterned' /\ NoSuper'
    BY <1>1, <2>1, <2>4 DEF IInv, Phases, InOrder, Linking, OpenInterned, NoSuper
  <2> QED
    BY <1>2, <2>4, <2>5, <2>6 DEF IInv
<1>4. CASE ~Registers(open)
  <2>1. phase' = "failed" /\ UNCHANGED <<classes, open>> /\ lines' \in 0 .. MaxLines
    BY <1>1, <1>4 DEF EndLine, Fails, IInv, TypeOK
  <2>2. open' \in Classes \cup {None}
    BY <1>1, <2>1
  <2>3. open' # None => /\ {open'.name, open'.super} \cup DOMAIN open'.members
                             \subseteq DOMAIN pool'.addr \cup {None}
                        /\ open'.module => open'.super = None
    BY <1>1, <2>1 DEF IInv, OpenInterned, NoSuper
  <2> QED
    BY <1>1, <1>2, <2>1, <2>2, <2>3, LineKeeps
<1> QED
  BY <1>3, <1>4

(* A member added to a class that is registered leaves its names alone.    *)
LEMMA ExceptTyped ==
  ASSUME NEW S, NEW s \in Seq(S), NEW i \in DOMAIN s, NEW v \in S
  PROVE  /\ [s EXCEPT ![i] = v] \in Seq(S)
         /\ DOMAIN [s EXCEPT ![i] = v] = DOMAIN s
         /\ Len([s EXCEPT ![i] = v]) = Len(s)
         /\ \A j \in DOMAIN s : [s EXCEPT ![i] = v][j] = IF j = i THEN v ELSE s[j]
OBVIOUS

LEMMA RootLineKeeps ==
  ASSUME IInv, RootLine
  PROVE  IInv'
<1>1. PICK m \in MemberNames, d \in Declarations, i \in DOMAIN classes :
        /\ InternBoth(m, Needs(d))
        /\ IF m \in DOMAIN classes[i].members
             THEN Fails
             ELSE classes' = [classes EXCEPT ![i] = Declares(@, m, d)] /\ UNCHANGED <<open, phase>>
  BY DEF RootLine
<1>2. GoodPool(pool') /\ Keeps(pool, pool') /\ m \in DOMAIN pool'.addr
  BY <1>1, NeedsName DEF IInv
<1>3. /\ phase = "script" /\ open = None /\ UNCHANGED <<global, linked, parts, building>>
      /\ lines' \in 0 .. MaxLines /\ NothingRuns
  BY MkClassesAssumption DEF RootLine, Line, NothingRuns, IInv, TypeOK
<1>4. CASE m \in DOMAIN classes[i].members
  <2>1. phase' = "failed" /\ UNCHANGED <<classes, open>>
    BY <1>1, <1>4 DEF Fails
  <2> QED
    BY <1>2, <1>3, <2>1, LineKeeps
<1>5. CASE m \notin DOMAIN classes[i].members
  <2> DEFINE e == Declares(classes[i], m, d)
  <2>1. classes' = [classes EXCEPT ![i] = e] /\ UNCHANGED <<open, phase>>
    BY <1>1, <1>5
  <2>2. /\ e \in Classes
        /\ e.name = classes[i].name /\ e.super = classes[i].super /\ e.module = classes[i].module
        /\ DOMAIN e.members = DOMAIN classes[i].members \cup {m}
    BY ClassTyped, DeclaresIs DEF IInv, TypeOK
  <2>3. classes \in Seq(Classes)
    BY DEF IInv, TypeOK
  <2> HIDE DEF e
  <2>4. /\ classes' \in Seq(Classes) /\ DOMAIN classes' = DOMAIN classes
        /\ \A j \in DOMAIN classes : classes'[j] = IF j = i THEN e ELSE classes[j]
    BY <2>1, <2>2, <2>3, ExceptTyped
  <2>5. \A j \in DOMAIN classes : /\ classes'[j].name = classes[j].name
                                 /\ classes'[j].super = classes[j].super
                                 /\ classes'[j].module = classes[j].module
    BY <2>2, <2>4
  <2>6. SuperUnlessLater'
    BY <1>2, <1>3, <2>4, <2>5, SuperKept
  <2>7. Registered' = Registered
    BY <2>4, <2>5 DEF Registered
  <2>8. Hierarchy'
    <3>1. \A j \in DOMAIN classes : 1 .. j - 1 \subseteq DOMAIN classes
      BY <2>3
    <3> QED
      BY <2>4, <2>5, <3>1 DEF IInv, Hierarchy
  <2>9. Interned'
    <3>1. \A j \in DOMAIN classes :
            {classes[j].name, classes[j].super} \cup DOMAIN classes[j].members
              \subseteq DOMAIN pool'.addr \cup {None}
      BY <1>2 DEF IInv, Interned, Keeps
    <3>2. ASSUME NEW j \in DOMAIN classes
          PROVE  {classes'[j].name, classes'[j].super} \cup DOMAIN classes'[j].members
                   \subseteq DOMAIN pool'.addr \cup {None}
      <4>1. CASE j = i
        BY <1>2, <2>2, <2>4, <3>1, <4>1
      <4>2. CASE j # i
        BY <2>4, <3>1, <4>2
      <4> QED
        BY <4>1, <4>2
    <3> QED
      BY <1>2, <2>4, <3>2 DEF Interned, GoodPool
  <2>10. TypeOK'
    BY <1>2, <1>3, <2>1, <2>4, <2>7 DEF IInv, TypeOK, GoodPool, IsPartial
  <2>11. Phases' /\ InOrder' /\ OpenInterned' /\ NoSuper'
    BY <1>3, <2>1, <2>4, <2>5, <2>7 DEF IInv, Phases, InOrder, Linking, OpenInterned, NoSuper
  <2> QED
    BY <1>2, <2>6, <2>8, <2>9, <2>10, <2>11 DEF IInv
<1> QED
  BY <1>4, <1>5

LEMMA BeginLinkKeeps ==
  ASSUME IInv, BeginLink
  PROVE  IInv'
<1>1. /\ UNCHANGED <<pool, classes, open, lines, global, parts, building>>
      /\ linked' = {} /\ open = None
      /\ \/ phase = "internal" /\ Len(classes) = Len(Internals) /\ phase' = "linkInternal"
         \/ phase = "script" /\ phase' = "linkScript"
  BY DEF BeginLink, IInv, Phases
<1>2. GoodPool(pool') /\ Interned' /\ Hierarchy' /\ SuperUnlessLater' /\ NoSuper' /\ OpenInterned'
  BY <1>1 DEF IInv, GoodPool, Interned, Hierarchy, SuperUnlessLater, NoSuper, OpenInterned,
              UpOf, Before
<1>3. TypeOK'
  BY <1>1 DEF IInv, TypeOK, Registered
<1>4. InOrder'
  BY <1>1 DEF InOrder
<1>5. Phases'
  <2>1. CASE phase = "script"
    BY <1>1, <2>1 DEF IInv, Phases, Registered
  <2>2. CASE phase = "internal"
    <3>1. /\ classes \in Seq(Classes) /\ DOMAIN classes = 1 .. Len(classes)
          /\ DOMAIN Internals = 1 .. Len(Internals)
      BY MkClassesAssumption DEF IInv, TypeOK
    <3>2. \A i \in DOMAIN Internals : i \in DOMAIN classes /\ classes[i].name = Internals[i].name
      BY <1>1, <2>2, <3>1 DEF IInv, Phases
    <3>3. InternalNames \subseteq Registered
      BY <3>2 DEF InternalNames, Registered
    <3> QED
      BY <1>1, <2>2, <3>3 DEF IInv, Phases, Registered
  <2> QED
    BY <1>1, <2>1, <2>2
<1> QED
  BY <1>2, <1>3, <1>4, <1>5 DEF IInv

LEMMA EndLinkKeeps ==
  ASSUME IInv, EndLink
  PROVE  IInv'
<1>1. /\ UNCHANGED <<pool, classes, open, lines, global, linked, parts, building>>
      /\ linked = Registered
      /\ \/ phase = "linkInternal" /\ phase' = "script"
         \/ phase = "linkScript" /\ phase' = "run"
  BY DEF EndLink, IInv, TypeOK
<1>2. GoodPool(pool') /\ Interned' /\ Hierarchy' /\ SuperUnlessLater' /\ NoSuper' /\ OpenInterned'
  BY <1>1 DEF IInv, GoodPool, Interned, Hierarchy, SuperUnlessLater, NoSuper, OpenInterned,
              UpOf, Before
<1>3. TypeOK'
  BY <1>1 DEF IInv, TypeOK, Registered
<1>4. InOrder'
  BY <1>1 DEF InOrder, Linking
<1>5. Phases'
  BY <1>1 DEF IInv, Phases, Registered
<1> QED
  BY <1>2, <1>3, <1>4, <1>5 DEF IInv

-----------------------------------------------------------------------------
LEMMA EntryTyped ==
  ASSUME NEW d \in Declarations
  PROVE  Entry(d) \in Entries
<1>1. d.access \in Accesses
  BY MkClassesAssumption
<1>2. Entry(d).access = d.access /\ Entry(d).state \in {"unset", "set", "method"}
  BY DEF Entry
<1> QED
  BY <1>1, <1>2 DEF Entry, Entries

(* Initial values give entries for members of the class.                   *)
LEMMA InitializedTyped ==
  ASSUME NEW c \in Classes, NEW own \in Partial(MemberNames, Entries),
         NEW present, NEW static
  PROVE  Initialized(present, c, own, static) \in Partial(MemberNames, Entries)
<1> DEFINE new == Reached(present, c, own, static)
           f   == Initialized(present, c, own, static)
<1>1. PICK D \in SUBSET MemberNames : c.members \in [D -> Declarations]
  BY DEF Classes, Partial
<1>2. PICK O \in SUBSET MemberNames : own \in [O -> Entries]
  BY DEF Partial
<1>3. new \subseteq D
  BY <1>1 DEF Reached, Fresh
<1>4. \A m \in new : Entry(c.members[m]) \in Entries
  BY <1>1, <1>3, EntryTyped
<1> HIDE DEF new
<1>5. f = [m \in O \cup new |-> IF m \in O THEN own[m] ELSE Entry(c.members[m])]
  BY <1>2 DEF Initialized, new
<1>6. f \in [O \cup new -> Entries] /\ O \cup new \in SUBSET MemberNames
  BY <1>2, <1>3, <1>4, <1>5
<1> QED
  BY <1>6 DEF Partial

(* The class whose turn it is lies below those an enumeration has yet to   *)
(* reach, and above those it has been at.                                  *)
LEMMA TurnIs ==
  ASSUME IInv, Linking, NEW n \in Registered \ linked, NEW m \in Registered, m # n,
         \A k \in Registered \ linked : ~Before(k, n)
  PROVE  /\ n \in DOMAIN pool.addr /\ m \in DOMAIN pool.addr
         /\ Before(n, m) <=> m \notin linked
<1>1. \A k \in Registered : k \in DOMAIN pool.addr
  BY ClassTyped DEF IInv, TypeOK, Interned, Registered
<1>2. (Before(n, m) \/ Before(m, n)) /\ ~(Before(n, m) /\ Before(m, n))
  BY <1>1, BeforeOrders DEF IInv
<1>3. m \in linked => Before(m, n)
  BY DEF IInv, InOrder
<1> QED
  BY <1>1, <1>2, <1>3

(* What up may be in the static instance of class c.                       *)
Fits(c, up) ==
  /\ c.super # None =>
       (up = None <=> Before(c.name, c.super)
                      /\ (c.super \in InternalNames => c.name \in InternalNames))
  /\ up \in {None, UpOf(c)}

LEMMA AllFit ==
  SuperUnlessLater <=>
    \A i \in DOMAIN classes :
      classes[i].name \in DOMAIN global => Fits(classes[i], global[classes[i].name].up)
BY DEF SuperUnlessLater, Fits

LEMMA LinkKeeps ==
  ASSUME IInv, Link
  PROVE  IInv'
<1> DEFINE present(i) == DOMAIN global \cup {classes[i].name}
           static(i)  == IF classes[i].name \in DOMAIN global THEN global[classes[i].name]
                         ELSE [up |-> UpWhenLinked(classes[i]), own |-> Empty]
           entry(i)   == [static(i) EXCEPT !.own = Initialized(present(i), classes[i], @, TRUE)]
<1>1. PICK i \in DOMAIN classes :
        /\ classes[i].name \notin linked
        /\ \A k \in Registered \ linked : ~Before(k, classes[i].name)
        /\ linked' = linked \cup {classes[i].name}
        /\ global' = Extend(global, classes[i].name, entry(i))
  BY DEF Link
<1> HIDE DEF entry
<1>2. PICK c : c = classes[i]
  OBVIOUS
<1>3. PICK n : n = c.name
  OBVIOUS
<1>4. /\ c \in Classes /\ n \in ClassNames /\ n # None /\ n \in Registered
      /\ c.super \in ClassNames \cup {None} /\ c.module \in BOOLEAN
  BY <1>2, <1>3, ClassTyped DEF IInv, TypeOK, Registered
<1>5. PICK e : e = entry(i)
  OBVIOUS
<1>6. /\ DOMAIN global' = DOMAIN global \cup {n} /\ global'[n] = e
      /\ global' = [k \in DOMAIN global' |-> global'[k]]
      /\ \A k \in DOMAIN global : k # n => global'[k] = global[k]
  <2>1. global' = Extend(global, n, e)
    BY <1>1, <1>2, <1>3, <1>5
  <2> QED
    BY <2>1 DEF Extend
<1>7. /\ UNCHANGED <<pool, classes, phase, open, lines, parts, building>> /\ Linking
      /\ n \notin linked /\ linked' = linked \cup {n}
      /\ \A k \in Registered \ linked : ~Before(k, n)
  BY <1>1, <1>2, <1>3 DEF Link, Linking
<1>8. /\ e.up = (IF n \in DOMAIN global THEN global[n].up ELSE UpWhenLinked(c))
      /\ e \in [up : DOMAIN global \cup {None}, own : Partial(MemberNames, Entries)]
  <2> DEFINE E == [up : DOMAIN global \cup {None}, own : Partial(MemberNames, Entries)]
             s == static(i)
  <2>1. s \in E
    <3>1. CASE n \in DOMAIN global
      BY <1>2, <1>3, <3>1 DEF IInv, TypeOK, IsPartial
    <3>2. CASE n \notin DOMAIN global
      <4>1. UpWhenLinked(c) \in DOMAIN global \cup {None}
        BY DEF UpWhenLinked
      <4>2. Empty \in Partial(MemberNames, Entries)
        BY DEF Partial, Empty
      <4> QED
        BY <1>2, <1>3, <3>2, <4>1, <4>2
    <3> QED
      BY <3>1, <3>2
  <2>2. s.up = (IF n \in DOMAIN global THEN global[n].up ELSE UpWhenLinked(c))
    BY <1>2, <1>3
  <2>3. e = [s EXCEPT !.own = Initialized(present(i), c, s.own, TRUE)]
    BY <1>2, <1>5, <2>1 DEF entry
  <2> HIDE DEF s
  <2>4. Initialized(present(i), c, s.own, TRUE) \in Partial(MemberNames, Entries)
    BY <1>4, <2>1, InitializedTyped
  <2>5. e.up = s.up /\ e \in E
    BY <2>1, <2>3, <2>4
  <2> QED
    BY <2>2, <2>5
<1>9. Registered' = Registered
  BY <1>7 DEF Registered
<1>10. TypeOK'
  <2>1. IsPartial(global, ClassNames, [up : DOMAIN global \cup {None}, own : Partial(MemberNames, Entries)])'
    <3> DEFINE E == [up : DOMAIN global \cup {None}, own : Partial(MemberNames, Entries)]
               F == [up : DOMAIN global' \cup {None}, own : Partial(MemberNames, Entries)]
    <3>1. E \subseteq F
      BY <1>6
    <3>2. DOMAIN global \subseteq ClassNames /\ \A k \in DOMAIN global : global[k] \in E
      BY DEF IInv, TypeOK, IsPartial
    <3>3. e \in E
      BY <1>8
    <3> HIDE DEF E, F
    <3>4. DOMAIN global' \subseteq ClassNames
      BY <1>4, <1>6, <3>2
    <3>5. \A k \in DOMAIN global' : global'[k] \in F
      BY <1>6, <3>1, <3>2, <3>3
    <3>6. global' \in [DOMAIN global' -> F]
      BY <1>6, <3>5
    <3> QED
      BY <3>4, <3>6 DEF IsPartial, F
  <2> QED
    BY <1>4, <1>6, <1>7, <1>9, <2>1 DEF IInv, TypeOK
<1>11. Phases'
  BY <1>4, <1>6, <1>7, <1>9 DEF IInv, Phases, Linking
<1>12. InOrder'
  <2> SUFFICES ASSUME NEW k \in linked \cup {n}, NEW m \in Registered \ (linked \cup {n})
               PROVE  Before(k, m)
    BY <1>7, <1>9 DEF InOrder, Before
  <2>1. CASE k \in linked
    BY <1>7, <2>1 DEF IInv, InOrder
  <2>2. CASE k = n
    BY <1>4, <1>7, <2>2, TurnIs
  <2> QED
    BY <2>1, <2>2
<1>13. SuperUnlessLater'
  <2>1. \A j \in DOMAIN classes : classes[j].name = n => classes[j] = c
    <3>1. \A j, k \in DOMAIN classes : k \in 1 .. j - 1 => classes[k].name # classes[j].name
      BY DEF IInv, Hierarchy
    <3>2. \A j, k \in DOMAIN classes : j = k \/ j \in 1 .. k - 1 \/ k \in 1 .. j - 1
      BY DEF IInv, TypeOK
    <3> QED
      BY <1>2, <1>3, <3>1, <3>2
  <2>2. Fits(c, e.up)
    <3>1. CASE n \in DOMAIN global
      BY <1>2, <1>3, <1>8, <3>1, AllFit DEF IInv
    <3>2. CASE n \notin DOMAIN global
      <4>1. e.up = UpWhenLinked(c)
        BY <1>8, <3>2
      <4>2. e.up \in {None, UpOf(c)}
        BY <4>1 DEF UpWhenLinked
      <4> SUFFICES ASSUME c.super # None
                   PROVE  e.up = None <=> Before(n, c.super)
                                          /\ (c.super \in InternalNames => n \in InternalNames)
        BY <1>3, <4>2 DEF Fits
      <4>3. UpOf(c) = c.super
        BY <1>2 DEF IInv, NoSuper, UpOf
      <4>4. e.up = None <=> c.super \notin DOMAIN global
        BY <4>1, <4>3 DEF UpWhenLinked
      <4>5. c.super \in Registered /\ c.super # n
        <5>1. PICK j \in 1 .. i - 1 : classes[j].name = c.super
          BY <1>2 DEF IInv, Hierarchy
        <5>2. j \in DOMAIN classes
          BY <5>1 DEF IInv, TypeOK
        <5> QED
          BY <1>2, <1>3, <5>1, <5>2 DEF IInv, Hierarchy, Registered
      <4>6. Before(n, c.super) <=> c.super \notin linked
        BY <1>4, <1>7, <4>5, TurnIs
      <4>7. CASE phase = "linkInternal"
        <5>1. DOMAIN global = linked /\ n \in InternalNames
          BY <1>4, <4>7 DEF IInv, Phases
        <5> QED
          BY <4>4, <4>6, <5>1
      <4>8. CASE phase = "linkScript"
        <5>1. DOMAIN global = InternalNames \cup linked
          BY <4>8 DEF IInv, Phases
        <5>2. n \notin InternalNames
          BY <3>2, <5>1
        <5> QED
          BY <4>4, <4>6, <5>1, <5>2
      <4> QED
        BY <1>7, <4>7, <4>8 DEF Linking
    <3> QED
      BY <3>1, <3>2
  <2>3. ASSUME NEW j \in DOMAIN classes, classes[j].name \in DOMAIN global'
        PROVE  Fits(classes[j], global'[classes[j].name].up)
    <3>1. CASE classes[j].name = n
      BY <1>6, <2>1, <2>2, <3>1
    <3>2. CASE classes[j].name # n
      BY <1>6, <2>3, <3>2, AllFit DEF IInv
    <3> QED
      BY <3>1, <3>2
  <2> QED
    BY <1>7, <2>3 DEF SuperUnlessLater, Fits, UpOf, Before
<1>14. GoodPool(pool') /\ Interned' /\ Hierarchy' /\ NoSuper' /\ OpenInterned'
  BY <1>7 DEF IInv, GoodPool, Interned, Hierarchy, NoSuper, OpenInterned
<1> QED
  BY <1>10, <1>11, <1>12, <1>13, <1>14 DEF IInv

-----------------------------------------------------------------------------
(* Steps of the run change neither classes nor what static instances are   *)
(* linked to.                                                              *)
LEMMA RunKeeps ==
  ASSUME IInv, phase = "run", UNCHANGED <<pool, classes, phase, open, lines, linked>>,
         DOMAIN global' = DOMAIN global, \A n \in DOMAIN global : global'[n].up = global[n].up,
         TypeOK'
  PROVE  IInv'
<1>1. GoodPool(pool') /\ Interned' /\ Hierarchy' /\ NoSuper' /\ OpenInterned'
  BY DEF IInv, GoodPool, Interned, Hierarchy, NoSuper, OpenInterned
<1>2. SuperUnlessLater'
  <2>1. ASSUME NEW j \in DOMAIN classes, classes[j].name \in DOMAIN global'
        PROVE  Fits(classes[j], global'[classes[j].name].up)
    BY <2>1, AllFit DEF IInv
  <2> QED
    BY <2>1 DEF SuperUnlessLater, Fits, UpOf, Before
<1>3. Phases' /\ InOrder'
  BY DEF IInv, Phases, InOrder, Linking, Registered
<1> QED
  BY <1>1, <1>2, <1>3 DEF IInv

LEMMA ClassOfIs ==
  ASSUME classes \in Seq(Classes), NEW n \in Registered
  PROVE  \E i \in DOMAIN classes : ClassOf(n) = classes[i] /\ classes[i].name = n
BY DEF Registered, ClassOf

LEMMA NewKeeps ==
  ASSUME IInv, New
  PROVE  IInv'
<1>1. /\ phase = "run" /\ building' \in DOMAIN global
      /\ UNCHANGED <<pool, classes, phase, open, lines, global, linked, parts>>
  BY DEF New
<1>2. TypeOK'
  BY <1>1 DEF IInv, TypeOK, Registered
<1> QED
  BY <1>1, <1>2, RunKeeps

LEMMA AppendTyped ==
  ASSUME NEW S, NEW s \in Seq(S), NEW v \in S
  PROVE  /\ Append(s, v) \in Seq(S) /\ Len(Append(s, v)) = Len(s) + 1
         /\ DOMAIN Append(s, v) = 1 .. Len(s) + 1
         /\ Append(s, v)[Len(s) + 1] = v
         /\ \A i \in 1 .. Len(s) : Append(s, v)[i] = s[i]
OBVIOUS

(* The new part is entered in the one before it.                           *)
LEMMA UpOfTheLastTyped ==
  ASSUME parts \in Seq(Parts), NEW n \in Nat, n = Len(parts) + 1
  PROVE  /\ UpOfTheLast(n) \in Seq(Parts) /\ Len(UpOfTheLast(n)) = Len(parts)
         /\ \A i \in DOMAIN parts : /\ UpOfTheLast(n)[i].class = parts[i].class
                                    /\ UpOfTheLast(n)[i].child = parts[i].child
                                    /\ UpOfTheLast(n)[i].up \in {parts[i].up, n}
<1>1. CASE n = 1
  BY <1>1 DEF UpOfTheLast
<1>2. CASE n # 1
  <2> DEFINE v == [parts[n - 1] EXCEPT !.up = n]
  <2>1. n - 1 \in DOMAIN parts
    BY <1>2
  <2>2. parts[n - 1] \in Parts
    BY <2>1
  <2>3. /\ v \in Parts /\ v.up = n
        /\ v.class = parts[n - 1].class /\ v.child = parts[n - 1].child
    BY <2>2 DEF Parts
  <2>4. UpOfTheLast(n) = [parts EXCEPT ![n - 1] = v]
    BY <1>2 DEF UpOfTheLast
  <2> HIDE DEF v
  <2>5. /\ UpOfTheLast(n) \in Seq(Parts) /\ Len(UpOfTheLast(n)) = Len(parts)
        /\ \A i \in DOMAIN parts : UpOfTheLast(n)[i] = IF i = n - 1 THEN v ELSE parts[i]
    BY <2>1, <2>3, <2>4, ExceptTyped
  <2> QED
    BY <2>3, <2>5
<1> QED
  BY <1>1, <1>2

LEMMA NewPartKeeps ==
  ASSUME IInv, NewPart
  PROVE  IInv'
<1>1. /\ building # None /\ building \in DOMAIN global /\ building \in Registered
      /\ UNCHANGED <<pool, classes, phase, open, lines, global, linked>>
  BY DEF NewPart, IInv, TypeOK
<1>2. phase = "run" /\ DOMAIN global = Registered
  BY <1>1 DEF IInv, Phases
<1>3. PICK n : n = Len(parts) + 1
  OBVIOUS
<1>4. PICK c : c = ClassOf(building)
  OBVIOUS
<1>5. c \in Classes /\ c.super \in DOMAIN global \cup {None}
  <2>1. PICK i \in DOMAIN classes : c = classes[i] /\ c.name = building
    BY <1>1, <1>4, ClassOfIs DEF IInv, TypeOK
  <2>2. c.super # None => c.super \in Registered
    <3>1. c.super # None => \E j \in 1 .. i - 1 : classes[j].name = c.super
      BY <2>1 DEF IInv, Hierarchy
    <3>2. 1 .. i - 1 \subseteq DOMAIN classes
      BY DEF IInv, TypeOK
    <3> QED
      BY <3>1, <3>2 DEF Registered
  <2> QED
    BY <1>2, <2>1, <2>2, ClassTyped DEF IInv, TypeOK
<1>6. /\ parts \in Seq(Parts) /\ n \in Nat /\ Len(parts) \in Nat /\ DOMAIN parts = 1 .. Len(parts)
      /\ \A i \in DOMAIN parts : /\ parts[i].class \in Registered
                                 /\ parts[i].up <= Len(parts) /\ parts[i].child < i
      /\ \A i \in DOMAIN parts : parts[i].up \in Nat
  <2>1. parts \in Seq(Parts)
    BY DEF IInv, TypeOK
  <2>2. \A i \in DOMAIN parts : parts[i] \in Parts
    BY <2>1
  <2> QED
    BY <1>3, <2>1, <2>2 DEF IInv, TypeOK, Parts
<1>7. building' \in DOMAIN global \cup {None}
  BY <1>4, <1>5 DEF NewPart
<1>8. \/ parts' = <<>>
      \/ \E child \in {0, n - 1}, own \in Partial(MemberNames, Entries) :
           parts' = Append(UpOfTheLast(n), Part(building, child, own))
  <2>1. Empty \in Partial(MemberNames, Entries)
    BY DEF Empty, Partial
  <2>2. Initialized(DOMAIN global, c, Empty, FALSE) \in Partial(MemberNames, Entries)
    BY <1>5, <2>1, InitializedTyped
  <2> QED
    BY <1>3, <1>4, <2>1, <2>2 DEF NewPart
<1>9. /\ parts' \in Seq(Parts)
      /\ \A i \in DOMAIN parts' : /\ parts'[i].class \in Registered
                                  /\ parts'[i].up <= Len(parts') /\ parts'[i].child < i
  <2>1. CASE parts' = <<>>
    BY <2>1
  <2>2. ASSUME NEW child \in {0, n - 1}, NEW own \in Partial(MemberNames, Entries),
               parts' = Append(UpOfTheLast(n), Part(building, child, own))
        PROVE  /\ parts' \in Seq(Parts)
               /\ \A i \in DOMAIN parts' : /\ parts'[i].class \in Registered
                                           /\ parts'[i].up <= Len(parts') /\ parts'[i].child < i
    <3>1. PICK s : s = UpOfTheLast(n)
      OBVIOUS
    <3>2. /\ s \in Seq(Parts) /\ Len(s) = Len(parts)
          /\ \A i \in DOMAIN parts : /\ s[i].class = parts[i].class
                                     /\ s[i].child = parts[i].child
                                     /\ s[i].up \in {parts[i].up, n}
      BY <1>3, <1>6, <3>1, UpOfTheLastTyped
    <3>3. PICK p : p = Part(building, child, own)
      OBVIOUS
    <3>4. p.class = building /\ p.up = 0 /\ p.child = child /\ child \in Nat /\ child < n
      BY <1>3, <1>6, <3>3 DEF Part
    <3>5. p \in Parts
      <4>1. building \in ClassNames
        BY <1>1 DEF IInv, TypeOK, IsPartial
      <4> QED
        BY <3>3, <3>4, <4>1 DEF Part, Parts
    <3>6. parts' = Append(s, p)
      BY <2>2, <3>1, <3>3
    <3>7. /\ parts' \in Seq(Parts) /\ Len(parts') = n /\ DOMAIN parts' = 1 .. n
          /\ parts'[n] = p /\ \A i \in 1 .. Len(parts) : parts'[i] = s[i]
      BY <1>3, <3>2, <3>5, <3>6, AppendTyped
    <3>8. ASSUME NEW i \in 1 .. n
          PROVE  /\ parts'[i].class \in Registered
                 /\ parts'[i].up <= n /\ parts'[i].child < i
      <4>1. CASE i = n
        <5>1. parts'[i] = p
          BY <3>7, <4>1
        <5>2. p.class \in Registered
          BY <1>1, <3>4
        <5> QED
          BY <1>6, <3>4, <4>1, <5>1, <5>2
      <4>2. CASE i # n
        <5> DEFINE l == Len(parts)
        <5>0. l \in Nat /\ n = l + 1 /\ DOMAIN parts = 1 .. l
          BY <1>3, <1>6
        <5> HIDE DEF l
        <5>1. i \in DOMAIN parts
          BY <5>0, <4>2
        <5>2. parts'[i] = s[i]
          BY <1>6, <3>7, <5>1
        <5>3. s[i].class \in Registered /\ s[i].child < i
          BY <1>6, <3>2, <5>1
        <5>4. parts[i].up \in Nat /\ parts[i].up <= l /\ s[i].up \in {parts[i].up, n}
          BY <1>6, <3>2, <5>1 DEF l
        <5>5. s[i].up <= n
          BY <5>0, <5>4
        <5> QED
          BY <5>2, <5>3, <5>5
      <4> QED
        BY <4>1, <4>2
    <3> QED
      BY <3>7, <3>8
  <2> QED
    BY <1>8, <2>1, <2>2
<1>10. TypeOK'
  BY <1>1, <1>7, <1>9 DEF IInv, TypeOK, Registered
<1> QED
  BY <1>1, <1>2, <1>10, RunKeeps

(* A member that is set stays an entry.                                    *)
LEMMA SetTyped ==
  ASSUME NEW own \in Partial(MemberNames, Entries), NEW m
  PROVE  [own EXCEPT ![m].state = "set"] \in Partial(MemberNames, Entries)
<1>1. PICK O \in SUBSET MemberNames : own \in [O -> Entries]
  BY DEF Partial
<1>2. [own EXCEPT ![m].state = "set"] \in [O -> Entries]
  <2>1. \A k \in O : [own[k] EXCEPT !.state = "set"] \in Entries
    BY <1>1 DEF Entries
  <2> QED
    BY <1>1, <2>1
<1> QED
  BY <1>2 DEF Partial

LEMMA AssignKeeps ==
  ASSUME IInv, Assign
  PROVE  IInv'
<1> DEFINE G == [up : DOMAIN global \cup {None}, own : Partial(MemberNames, Entries)]
<1>1. PICK k, m : \/ /\ parts' = [parts EXCEPT ![k].own[m].state = "set"]
                     /\ UNCHANGED global
                  \/ /\ global' = [global EXCEPT ![k].own[m].state = "set"]
                     /\ UNCHANGED parts
  BY DEF Assign
<1>2. phase = "run" /\ UNCHANGED <<pool, classes, phase, open, lines, linked, building>>
  BY DEF Assign
<1>3. Registered' = Registered
  BY <1>2 DEF Registered
<1>4. /\ global' \in [DOMAIN global -> G]
      /\ \A n \in DOMAIN global : global'[n].up = global[n].up
  <2>1. global \in [DOMAIN global -> G]
    BY DEF IInv, TypeOK, IsPartial
  <2>2. CASE UNCHANGED global
    BY <2>1, <2>2
  <2>3. CASE global' = [global EXCEPT ![k].own[m].state = "set"]
    <3> DEFINE set(n) == [global[n] EXCEPT !.own = [global[n].own EXCEPT ![m].state = "set"]]
    <3>1. \A n \in DOMAIN global : set(n) \in G /\ set(n).up = global[n].up
      <4> SUFFICES ASSUME NEW n \in DOMAIN global
                   PROVE  set(n) \in G /\ set(n).up = global[n].up
        OBVIOUS
      <4>1. global[n] \in G /\ global[n].own \in Partial(MemberNames, Entries)
        BY <2>1
      <4>2. [global[n].own EXCEPT ![m].state = "set"] \in Partial(MemberNames, Entries)
        BY <4>1, SetTyped
      <4> QED
        BY <4>1, <4>2
    <3>2. global' = [n \in DOMAIN global |-> IF n = k THEN set(n) ELSE global[n]]
      BY <2>1, <2>3
    <3> HIDE DEF set, G
    <3> QED
      BY <2>1, <3>1, <3>2
  <2> QED
    BY <1>1, <2>2, <2>3
<1>5. /\ parts' \in Seq(Parts)
      /\ DOMAIN parts' = DOMAIN parts /\ Len(parts') = Len(parts)
      /\ \A i \in DOMAIN parts : /\ parts'[i].class = parts[i].class
                                 /\ parts'[i].up = parts[i].up
                                 /\ parts'[i].child = parts[i].child
  <2>1. parts \in Seq(Parts)
    BY DEF IInv, TypeOK
  <2>2. CASE UNCHANGED parts
    BY <2>1, <2>2
  <2>3. CASE parts' = [parts EXCEPT ![k].own[m].state = "set"]
    <3>1. CASE k \notin DOMAIN parts
      <4>1. parts = [i \in DOMAIN parts |-> parts[i]]
        BY <2>1
      <4>2. parts' = parts
        BY <2>3, <3>1, <4>1
      <4> QED
        BY <2>1, <4>2
    <3>2. CASE k \in DOMAIN parts
      <4>1. parts[k] \in Parts /\ parts[k].own \in Partial(MemberNames, Entries)
        <5>1. parts[k] \in Parts
          BY <2>1, <3>2
        <5> QED
          BY <5>1 DEF Parts
      <4>2. PICK own : own = [parts[k].own EXCEPT ![m].state = "set"]
        OBVIOUS
      <4>3. own \in Partial(MemberNames, Entries)
        BY <4>1, <4>2, SetTyped
      <4>4. PICK v : v = [parts[k] EXCEPT !.own = own]
        OBVIOUS
      <4>5. /\ v \in Parts /\ v.class = parts[k].class /\ v.up = parts[k].up
            /\ v.child = parts[k].child
        BY <4>1, <4>3, <4>4 DEF Parts
      <4>6. parts' = [parts EXCEPT ![k] = v]
        BY <2>3, <4>2, <4>4
      <4> QED
        BY <2>1, <3>2, <4>5, <4>6, ExceptTyped
    <3> QED
      BY <3>1, <3>2
  <2> QED
    BY <1>1, <2>2, <2>3
<1>6. TypeOK'
  BY <1>2, <1>3, <1>4, <1>5 DEF IInv, TypeOK, IsPartial
<1> QED
  BY <1>2, <1>4, <1>6, RunKeeps

-----------------------------------------------------------------------------
LEMMA InitHolds ==
  ASSUME Init
  PROVE  IInv
<1>1. /\ classes = <<>> /\ phase = "internal" /\ open = None /\ lines = 0
      /\ global = Empty /\ linked = {} /\ parts = <<>> /\ building = None
      /\ DOMAIN global = {} /\ Registered = {} /\ DOMAIN classes = {}
  BY DEF Init, Empty, Registered
<1>2. PICK b \in 0 .. MaxBlocks - 1 : pool = [addr |-> Empty, block |-> b, next |-> 0]
  BY DEF Init
<1>3. IsPartial(pool.addr, Names, Addresses) /\ DOMAIN pool.addr = {}
  BY <1>2 DEF IsPartial, Empty
<1>4. GoodPool(pool)
  BY <1>2, <1>3, MkClassesAssumption DEF GoodPool
<1>5. IsPartial(global, ClassNames, [up : DOMAIN global \cup {None}, own : Partial(MemberNames, Entries)])
  BY <1>1 DEF IsPartial, Empty
<1>6. TypeOK
  BY <1>1, <1>2, <1>3, <1>5, MkClassesAssumption DEF TypeOK
<1>7. Interned /\ Hierarchy /\ SuperUnlessLater /\ NoSuper /\ OpenInterned
  BY <1>1, <1>3 DEF Interned, Hierarchy, SuperUnlessLater, NoSuper, OpenInterned
<1>8. Phases /\ InOrder
  BY <1>1, MkClassesAssumption DEF Phases, InOrder
<1> QED
  BY <1>4, <1>6, <1>7, <1>8 DEF IInv

LEMMA StepKeeps ==
  ASSUME IInv, [Next]_vars
  PROVE  IInv'
<1>1. CASE RegisterInternal
  BY <1>1, RegisterInternalKeeps
<1>2. CASE Mention
  BY <1>2, MentionKeeps
<1>3. CASE ClassLine
  BY <1>3, ClassLineKeeps
<1>4. CASE MemberLine
  BY <1>4, MemberLineKeeps
<1>5. CASE EndLine
  BY <1>5, EndLineKeeps
<1>6. CASE RootLine
  BY <1>6, RootLineKeeps
<1>7. CASE BadLine
  BY <1>7, BadLineKeeps
<1>8. CASE BeginLink
  BY <1>8, BeginLinkKeeps
<1>9. CASE Link
  BY <1>9, LinkKeeps
<1>10. CASE EndLink
  BY <1>10, EndLinkKeeps
<1>11. CASE New
  BY <1>11, NewKeeps
<1>12. CASE NewPart
  BY <1>12, NewPartKeeps
<1>13. CASE Assign
  BY <1>13, AssignKeeps
<1>14. CASE UNCHANGED vars
  BY <1>14 DEF vars, IInv, TypeOK, GoodPool, Interned, OpenInterned, NoSuper, Hierarchy, Phases,
               InOrder, Linking, SuperUnlessLater, Registered, UpOf, Before, IsPartial
<1> QED
  BY <1>1, <1>2, <1>3, <1>4, <1>5, <1>6, <1>7, <1>8, <1>9, <1>10, <1>11, <1>12, <1>13, <1>14
  DEF Next

LEMMA Inductive == Spec => []IInv
<1>1. Init => IInv
  BY InitHolds
<1>2. IInv /\ [Next]_vars => IInv'
  BY StepKeeps
<1> QED
  BY <1>1, <1>2, PTL DEF Spec

(* Pool, classes, static instances and objects keep their types.           *)
THEOREM TypeCorrect == Spec => []TypeOK
<1>1. IInv => TypeOK
  BY DEF IInv
<1> QED
  BY <1>1, Inductive, PTL

(* Comparing addresses is comparing names, however many blocks the names   *)
(* take and wherever malloc puts them (node.c, mk_get_symbol_name_ptr).    *)
THEOREM InternedAlways == Spec => []Interned
<1>1. IInv => Interned
  BY DEF IInv
<1> QED
  BY <1>1, Inductive, PTL

(* Superclasses come first (compile.c, mk_register_class): no class is its *)
(* own superclass along any number of steps.                               *)
THEOREM HierarchyAlways == Spec => []Hierarchy
<1>1. IInv => Hierarchy
  BY DEF IInv
<1> QED
  BY <1>1, Inductive, PTL

(* How far SuperInstanceFirst fails (register_class_static_instance,       *)
(* link.c:41): a static instance lacks its superclass's exactly when both  *)
(* classes are of one script and the superclass's name lies higher in      *)
(* memory, and it is never linked to another.                              *)
THEOREM SuperUnlessLaterAlways == Spec => []SuperUnlessLater
<1>1. IInv => SuperUnlessLater
  BY DEF IInv
<1> QED
  BY <1>1, Inductive, PTL

-----------------------------------------------------------------------------
(* The static members.                                                     *)
(*                                                                         *)
(* Internal classes declare nothing themselves; only Kernel gets members   *)
(* later, so a value class never has any.                                  *)
Bare ==
  /\ phase \in {"internal", "linkInternal"} => \A i \in DOMAIN classes : DOMAIN classes[i].members = {}
  /\ \A i \in DOMAIN classes : classes[i].name \in ValueClasses => DOMAIN classes[i].members = {}

(* Class c has declared static member m, whose initial value raises.       *)
StaticOf(c) == {m \in DOMAIN c.members : c.members[m].static}
Raises(c, m) ==
  LET d == Needs(c.members[m]) IN d # None /\ (d \in Registered => Before(c.name, d))
Made(c) == {m \in StaticOf(c) : \A k \in StaticOf(c) : k = m \/ Before(k, m) => ~Raises(c, k)}

(* The static instances the linker has been at have their members, the     *)
(* others none.                                                            *)
Members ==
  /\ phase \notin {"linkScript", "run"} => \A n \in DOMAIN global : DOMAIN global[n].own = {}
  /\ phase \in {"linkScript", "run"} =>
       \A i \in DOMAIN classes : classes[i].name \in DOMAIN global =>
         DOMAIN global[classes[i].name].own = IF classes[i].name \in linked THEN Made(classes[i]) ELSE {}
  /\ phase = "run" => linked = Registered

SInv == IInv /\ Bare /\ Members

LEMMA MembersUntouched ==
  ASSUME Members, phase \notin {"linkScript", "run"}, phase' \notin {"linkScript", "run"}, UNCHANGED global
  PROVE  Members'
BY DEF Members

LEMMA BareUntouched ==
  ASSUME Bare, phase \notin {"internal", "linkInternal"}, phase' \notin {"internal", "linkInternal"},
         UNCHANGED classes
  PROVE  Bare'
BY DEF Bare

(* A line of the script that registers nothing.                            *)
LEMMA LineKeepsMembers ==
  ASSUME SInv, phase = "script", phase' \in {"script", "failed"}, UNCHANGED <<classes, global>>
  PROVE  Bare' /\ Members'
<1>1. phase \notin {"linkScript", "run", "internal", "linkInternal"}
      /\ phase' \notin {"linkScript", "run", "internal", "linkInternal"}
  OBVIOUS
<1> QED
  BY <1>1, MembersUntouched, BareUntouched DEF SInv

LEMMA RegisterInternalKeepsMembers ==
  ASSUME SInv, RegisterInternal
  PROVE  Bare' /\ Members'
<1>1. phase = "internal" /\ UNCHANGED <<phase, global>> /\ classes \in Seq(Classes)
  BY DEF RegisterInternal, NothingRuns, SInv, IInv, TypeOK
<1>2. PICK e : classes' = Append(classes, e) /\ DOMAIN e.members = {}
  <2>1. DOMAIN Empty = {}
    BY DEF Empty
  <2> QED
    BY <2>1 DEF RegisterInternal, NewClass
<1>3. /\ DOMAIN classes' = 1 .. Len(classes) + 1 /\ Len(classes) \in Nat /\ DOMAIN classes = 1 .. Len(classes)
      /\ classes'[Len(classes) + 1] = e /\ \A i \in 1 .. Len(classes) : classes'[i] = classes[i]
  BY <1>1, <1>2
<1>4. \A i \in DOMAIN classes' : DOMAIN classes'[i].members = {}
  BY <1>1, <1>2, <1>3 DEF SInv, Bare
<1> QED
  BY <1>1, <1>4, MembersUntouched DEF SInv, Bare

LEMMA EndLineKeepsMembers ==
  ASSUME SInv, EndLine
  PROVE  Bare' /\ Members'
<1>1. phase = "script" /\ UNCHANGED global /\ classes \in Seq(Classes) /\ open # None
  BY DEF EndLine, NothingRuns, SInv, IInv, TypeOK
<1>2. CASE ~Registers(open)
  <2>1. phase' = "failed" /\ UNCHANGED classes
    BY <1>2 DEF EndLine, Fails
  <2> QED
    BY <1>1, <2>1, LineKeepsMembers
<1>3. CASE Registers(open)
  <2>1. classes' = Append(classes, open) /\ UNCHANGED phase
    BY <1>3 DEF EndLine
  <2>2. open.name \notin ValueClasses
    <3>1. InternalNames \subseteq Registered
      BY <1>1 DEF SInv, IInv, Phases
    <3> QED
      BY <1>3, <3>1, MkClassesAssumption DEF Registers
  <2>3. /\ DOMAIN classes' = 1 .. Len(classes) + 1 /\ Len(classes) \in Nat /\ DOMAIN classes = 1 .. Len(classes)
        /\ classes'[Len(classes) + 1] = open /\ \A i \in 1 .. Len(classes) : classes'[i] = classes[i]
    BY <1>1, <2>1
  <2>4. \A i \in DOMAIN classes' : classes'[i].name \in ValueClasses => DOMAIN classes'[i].members = {}
    BY <2>2, <2>3 DEF SInv, Bare
  <2>5. Members'
    BY <1>1, <2>1, MembersUntouched DEF SInv
  <2> QED
    BY <1>1, <2>1, <2>4, <2>5 DEF Bare
<1> QED
  BY <1>2, <1>3

LEMMA RootLineKeepsMembers ==
  ASSUME SInv, RootLine
  PROVE  Bare' /\ Members'
<1>1. phase = "script" /\ UNCHANGED global /\ classes \in Seq(Classes)
  BY DEF RootLine, Line, NothingRuns, SInv, IInv, TypeOK
<1>2. PICK m \in MemberNames, d \in Declarations, i \in DOMAIN classes :
        /\ classes[i].name = "Kernel"
        /\ \/ Fails
           \/ classes' = [classes EXCEPT ![i] = Declares(@, m, d)] /\ UNCHANGED <<open, phase>>
  BY DEF RootLine
<1>3. CASE Fails
  BY <1>1, <1>3, LineKeepsMembers DEF Fails
<1>4. CASE classes' = [classes EXCEPT ![i] = Declares(@, m, d)] /\ UNCHANGED <<open, phase>>
  <2> DEFINE e == Declares(classes[i], m, d)
  <2>1. e \in Classes /\ e.name = classes[i].name
    BY <1>1, ClassTyped, DeclaresIs
  <2>2. classes' = [classes EXCEPT ![i] = e]
    BY <1>4
  <2> HIDE DEF e
  <2>3. /\ DOMAIN classes' = DOMAIN classes
        /\ \A j \in DOMAIN classes : classes'[j] = IF j = i THEN e ELSE classes[j]
    BY <1>1, <2>1, <2>2, ExceptTyped
  <2>4. "Kernel" \notin ValueClasses
    BY MkClassesAssumption
  <2>5. \A j \in DOMAIN classes' : classes'[j].name \in ValueClasses => DOMAIN classes'[j].members = {}
    BY <1>2, <2>1, <2>3, <2>4 DEF SInv, Bare
  <2>6. Members'
    BY <1>1, <1>4, MembersUntouched DEF SInv
  <2> QED
    BY <1>1, <1>4, <2>5, <2>6 DEF Bare
<1> QED
  BY <1>2, <1>3, <1>4

LEMMA BeginLinkKeepsMembers ==
  ASSUME SInv, BeginLink
  PROVE  Bare' /\ Members'
<1>1. UNCHANGED <<classes, global>> /\ linked' = {}
      /\ \/ phase = "internal" /\ phase' = "linkInternal"
         \/ phase = "script" /\ phase' = "linkScript"
  BY DEF BeginLink
<1>2. phase' # "run" /\ \A n \in DOMAIN global : DOMAIN global[n].own = {}
  BY <1>1 DEF SInv, Members
<1>3. Members'
  BY <1>1, <1>2 DEF Members
<1>4. Bare'
  BY <1>1 DEF SInv, Bare
<1> QED
  BY <1>3, <1>4

LEMMA EndLinkKeepsMembers ==
  ASSUME SInv, EndLink
  PROVE  Bare' /\ Members'
<1>1. /\ UNCHANGED <<pool, classes, global, linked>> /\ linked = Registered
      /\ \/ phase = "linkInternal" /\ phase' = "script"
         \/ phase = "linkScript" /\ phase' = "run"
  BY DEF EndLink, SInv, IInv, TypeOK
<1>2. Bare'
  BY <1>1 DEF SInv, Bare
<1>3. CASE phase' = "script"
  BY <1>1, <1>2, <1>3, MembersUntouched DEF SInv
<1>4. CASE phase' = "run"
  <2>1. \A i \in DOMAIN classes : Made(classes[i])' = Made(classes[i])
    BY <1>1 DEF Made, Raises, StaticOf, Registered, Before
  <2>2. Registered' = Registered
    BY <1>1 DEF Registered
  <2> QED
    BY <1>1, <1>2, <1>4, <2>1, <2>2 DEF SInv, Members
<1> QED
  BY <1>1, <1>3, <1>4

(* What the linker leaves of the names it has not been at, and gives the   *)
(* one whose turn it is.                                                   *)
LEMMA LinkIs ==
  ASSUME IInv, Link
  PROVE  \E i \in DOMAIN classes : \E own :
           LET n == classes[i].name
               present == DOMAIN global \cup {n}
           IN  /\ Linking /\ n \in Registered \ linked /\ linked' = linked \cup {n}
               /\ \A k \in Registered \ linked : ~Before(k, n)
               /\ own = IF n \in DOMAIN global THEN global[n].own ELSE Empty
               /\ DOMAIN global' = DOMAIN global \cup {n}
               /\ global'[n].own = Initialized(present, classes[i], own, TRUE)
               /\ \A k \in DOMAIN global : k # n => global'[k] = global[k]
               /\ UNCHANGED <<pool, classes, phase, parts, building>>
<1>1. PICK i \in DOMAIN classes : LET c == classes[i]
                                     present == DOMAIN global \cup {c.name}
                                     static == IF c.name \in DOMAIN global THEN global[c.name]
                                               ELSE [up |-> UpWhenLinked(c), own |-> Empty]
        IN /\ c.name \notin linked
           /\ \A k \in Registered \ linked : ~Before(k, c.name)
           /\ linked' = linked \cup {c.name}
           /\ global' = Extend(global, c.name, [static EXCEPT !.own = Initialized(present, c, @, TRUE)])
  BY DEF Link
<1>0. PICK n : n = classes[i].name
  OBVIOUS
<1> DEFINE static == IF n \in DOMAIN global THEN global[n]
                     ELSE [up |-> UpWhenLinked(classes[i]), own |-> Empty]
           own == IF n \in DOMAIN global THEN global[n].own ELSE Empty
           new == Initialized(DOMAIN global \cup {n}, classes[i], own, TRUE)
<1>2. static.own = own
  OBVIOUS
<1>3. n \in Registered /\ Linking /\ UNCHANGED <<pool, classes, phase, parts, building>>
  BY <1>0, <1>1 DEF Registered, Linking, Link
<1>4. PICK w \in {new} : TRUE
  OBVIOUS
<1>5. PICK e \in {[static EXCEPT !.own = w]} : e.own = w
  <2>1. CASE n \in DOMAIN global
    <3>1. global[n] \in [up : DOMAIN global \cup {None}, own : Partial(MemberNames, Entries)]
      BY <2>1 DEF IInv, TypeOK, IsPartial
    <3> QED
      BY <2>1, <3>1
  <2>2. CASE n \notin DOMAIN global
    BY <2>2
  <2> QED
    BY <2>1, <2>2
<1>6. global' = Extend(global, n, e)
  BY <1>0, <1>1, <1>2, <1>4, <1>5
<1> HIDE DEF new, static
<1>7. /\ DOMAIN global' = DOMAIN global \cup {n} /\ global'[n] = e
      /\ \A k \in DOMAIN global : k # n => global'[k] = global[k]
  BY <1>6 DEF Extend
<1>8. global'[n].own = Initialized(DOMAIN global \cup {n}, classes[i], own, TRUE)
  BY <1>4, <1>5, <1>7 DEF new
<1> HIDE DEF own
<1>9. own = IF n \in DOMAIN global THEN global[n].own ELSE Empty
  BY DEF own
<1> QED
  BY <1>0, <1>1, <1>3, <1>7, <1>8, <1>9

(* An initial value raises while its class is linked exactly when Raises   *)
(* says so.                                                                *)
LEMMA RaisesIs ==
  ASSUME IInv, phase = "linkScript", NEW i \in DOMAIN classes, NEW m \in StaticOf(classes[i]),
         classes[i].name \in Registered \ linked,
         \A k \in Registered \ linked : ~Before(k, classes[i].name)
  PROVE  RaisesIn(DOMAIN global \cup {classes[i].name}, classes[i], m) <=> Raises(classes[i], m)
<1>1. PICK n : n = classes[i].name
  OBVIOUS
<1>2. PICK d : d = Needs(classes[i].members[m])
  OBVIOUS
<1>3. d \in ScriptNames \cup {None}
  BY <1>2 DEF Needs
<1>4. /\ DOMAIN global = InternalNames \cup linked /\ linked \subseteq Registered /\ Linking
      /\ ScriptNames \cap InternalNames = {} /\ None \notin ScriptNames
  BY MkClassesAssumption DEF IInv, Phases, TypeOK, Linking, Names, ClassNames
<1>5. RaisesIn(DOMAIN global \cup {n}, classes[i], m) <=> d # None /\ d \notin linked /\ d # n
  BY <1>2, <1>3, <1>4 DEF RaisesIn
<1>6. Raises(classes[i], m) <=> d # None /\ (d \in Registered => Before(n, d))
  BY <1>1, <1>2 DEF Raises
<1>7. ASSUME d \in Registered, d # n PROVE Before(n, d) <=> d \notin linked
  BY <1>1, <1>4, <1>7, TurnIs
<1>8. ~Before(n, n)
  BY <1>1
<1> QED
  BY <1>1, <1>4, <1>5, <1>6, <1>7, <1>8

LEMMA LinkKeepsMembers ==
  ASSUME SInv, Link
  PROVE  Bare' /\ Members'
<1>1. PICK i, own, n :
        /\ i \in DOMAIN classes /\ n = classes[i].name
        /\ Linking /\ n \in Registered \ linked /\ linked' = linked \cup {n}
        /\ \A k \in Registered \ linked : ~Before(k, n)
        /\ own = IF n \in DOMAIN global THEN global[n].own ELSE Empty
        /\ DOMAIN global' = DOMAIN global \cup {n}
        /\ global'[n].own = Initialized(DOMAIN global \cup {n}, classes[i], own, TRUE)
        /\ \A k \in DOMAIN global : k # n => global'[k] = global[k]
        /\ UNCHANGED <<pool, classes, phase, parts, building>>
  BY LinkIs DEF SInv
<1>2. Bare'
  BY <1>1 DEF SInv, Bare
<1>3. PICK present : present = DOMAIN global \cup {n}
  OBVIOUS
<1>4. DOMAIN own = {}
  <2>1. CASE n \in DOMAIN global
    BY <1>1, <2>1 DEF SInv, Members, Linking
  <2>2. CASE n \notin DOMAIN global
    BY <1>1, <2>2 DEF Empty
  <2> QED
    BY <2>1, <2>2
<1>5. DOMAIN global'[n].own = Reached(present, classes[i], own, TRUE)
  BY <1>1, <1>3, <1>4 DEF Initialized
<1>6. Fresh(classes[i], own, TRUE) = StaticOf(classes[i])
  <2>1. \A m \in DOMAIN classes[i].members : classes[i].members[m].static \in BOOLEAN
    <3>1. classes[i] \in Classes
      BY <1>1, ClassTyped DEF SInv, IInv, TypeOK
    <3>2. PICK D \in SUBSET MemberNames : classes[i].members \in [D -> Declarations]
      BY <3>1 DEF Classes, Partial
    <3>3. \A d \in Declarations : d.static \in BOOLEAN
      BY MkClassesAssumption
    <3> QED
      BY <3>2, <3>3
  <2> QED
    BY <1>4, <2>1 DEF Fresh, StaticOf
<1>7. CASE phase = "linkInternal"
  <2>1. DOMAIN global'[n].own = {}
    BY <1>1, <1>5, <1>7 DEF SInv, Bare, Reached, Fresh
  <2>2. \A k \in DOMAIN global' : DOMAIN global'[k].own = {}
    BY <1>1, <1>7, <2>1 DEF SInv, Members
  <2> QED
    BY <1>1, <1>2, <1>7, <2>2 DEF Members
<1>8. CASE phase = "linkScript"
  <2>1. Reached(present, classes[i], own, TRUE) = Made(classes[i])
    <3>1. \A m \in StaticOf(classes[i]) : RaisesIn(present, classes[i], m) <=> Raises(classes[i], m)
      BY <1>1, <1>3, <1>8, RaisesIs DEF SInv
    <3> QED
      BY <1>6, <3>1 DEF Reached, Made
  <2>2. ASSUME NEW j \in DOMAIN classes, classes[j].name \in DOMAIN global'
        PROVE  DOMAIN global'[classes[j].name].own = IF classes[j].name \in linked' THEN Made(classes[j]) ELSE {}
    <3>1. CASE classes[j].name = n
      <4>1. classes[j] = classes[i]
        <5>1. \A k, l \in DOMAIN classes : k = l \/ k \in 1 .. l - 1 \/ l \in 1 .. k - 1
          BY DEF SInv, IInv, TypeOK
        <5> QED
          BY <1>1, <3>1, <5>1 DEF SInv, IInv, Hierarchy
      <4> QED
        BY <1>1, <1>5, <2>1, <3>1, <4>1
    <3>2. CASE classes[j].name # n
      <4>1. classes[j].name \in DOMAIN global /\ (classes[j].name \in linked' <=> classes[j].name \in linked)
        BY <1>1, <2>2, <3>2
      <4> QED
        BY <1>1, <1>8, <3>2, <4>1 DEF SInv, Members
    <3> QED
      BY <3>1, <3>2
  <2>3. \A j \in DOMAIN classes : Made(classes[j])' = Made(classes[j])
    BY <1>1 DEF Made, Raises, StaticOf, Registered, Before
  <2> QED
    BY <1>1, <1>2, <1>8, <2>2, <2>3 DEF Members
<1> QED
  BY <1>1, <1>2, <1>7, <1>8 DEF Linking

(* In the run the linker is done and members only change their values.     *)
LEMMA AssignKeepsDomains ==
  ASSUME IInv, Assign
  PROVE  /\ UNCHANGED <<pool, classes, phase, linked, building>> /\ phase = "run"
         /\ DOMAIN global' = DOMAIN global
         /\ \A n \in DOMAIN global : DOMAIN global'[n].own = DOMAIN global[n].own
         /\ DOMAIN parts' = DOMAIN parts
         /\ \A i \in DOMAIN parts : /\ parts'[i].class = parts[i].class
                                    /\ parts'[i].up = parts[i].up
                                    /\ parts'[i].child = parts[i].child
                                    /\ DOMAIN parts'[i].own = DOMAIN parts[i].own
<1>1. PICK k, m : \/ parts' = [parts EXCEPT ![k].own[m].state = "set"] /\ UNCHANGED global
                  \/ global' = [global EXCEPT ![k].own[m].state = "set"] /\ UNCHANGED parts
  BY DEF Assign
<1>2. phase = "run" /\ UNCHANGED <<pool, classes, phase, linked, building>>
  BY DEF Assign
<1>3. parts \in Seq(Parts) /\ \A i \in DOMAIN parts : parts[i] \in Parts
  BY DEF IInv, TypeOK
<1>4. global \in [DOMAIN global -> [up : DOMAIN global \cup {None}, own : Partial(MemberNames, Entries)]]
  BY DEF IInv, TypeOK, IsPartial
<1>5. CASE parts' = [parts EXCEPT ![k].own[m].state = "set"] /\ UNCHANGED global
  <2>1. DOMAIN parts' = DOMAIN parts
    BY <1>3, <1>5
  <2>2. ASSUME NEW i \in DOMAIN parts
        PROVE  /\ parts'[i].class = parts[i].class
               /\ parts'[i].up = parts[i].up
               /\ parts'[i].child = parts[i].child
               /\ DOMAIN parts'[i].own = DOMAIN parts[i].own
    <3>1. parts'[i] = IF i = k THEN [parts[i] EXCEPT !.own = [@ EXCEPT ![m].state = "set"]] ELSE parts[i]
      BY <1>3, <1>5
    <3>2. parts[i] \in [class : ClassNames, up : Nat, child : Nat, own : Partial(MemberNames, Entries)]
      BY <1>3 DEF Parts
    <3> QED
      BY <3>1, <3>2
  <2> QED
    BY <1>2, <1>5, <2>1, <2>2
<1>6. CASE global' = [global EXCEPT ![k].own[m].state = "set"] /\ UNCHANGED parts
  <2>1. DOMAIN global' = DOMAIN global
    BY <1>4, <1>6
  <2>2. ASSUME NEW n \in DOMAIN global
        PROVE  DOMAIN global'[n].own = DOMAIN global[n].own
    <3>1. global'[n] = IF n = k THEN [global[n] EXCEPT !.own = [@ EXCEPT ![m].state = "set"]] ELSE global[n]
      BY <1>4, <1>6
    <3>2. global[n] \in [up : DOMAIN global \cup {None}, own : Partial(MemberNames, Entries)]
      BY <1>4
    <3> QED
      BY <3>1, <3>2
  <2> QED
    BY <1>2, <1>6, <2>1, <2>2
<1> QED
  BY <1>1, <1>5, <1>6

LEMMA RunKeepsMembers ==
  ASSUME SInv, phase = "run", UNCHANGED <<pool, classes, phase, linked>>,
         DOMAIN global' = DOMAIN global, \A n \in DOMAIN global : DOMAIN global'[n].own = DOMAIN global[n].own
  PROVE  Bare' /\ Members'
<1>1. Bare'
  BY DEF SInv, Bare
<1>2. \A i \in DOMAIN classes : Made(classes[i])' = Made(classes[i])
  BY DEF Made, Raises, StaticOf, Registered, Before
<1>3. Registered' = Registered
  BY DEF Registered
<1> QED
  BY <1>1, <1>2, <1>3 DEF SInv, Members

LEMMA MembersAtStart == Init => Bare /\ Members
<1> SUFFICES ASSUME Init PROVE Bare /\ Members
  OBVIOUS
<1>1. DOMAIN classes = {} /\ phase = "internal" /\ DOMAIN global = {}
  BY DEF Init, Empty
<1> QED
  BY <1>1 DEF Bare, Members

LEMMA MembersKept == SInv /\ [Next]_vars => SInv'
<1> SUFFICES ASSUME SInv, [Next]_vars PROVE SInv'
  OBVIOUS
<1>1. IInv'
  BY StepKeeps DEF SInv
<1>2. SUFFICES Bare' /\ Members'
  BY <1>1 DEF SInv
<1>3. CASE RegisterInternal
  BY <1>3, RegisterInternalKeepsMembers
<1>4. CASE Mention \/ ClassLine \/ MemberLine \/ BadLine
  <2>1. phase = "script" /\ phase' \in {"script", "failed"} /\ UNCHANGED <<classes, global>>
    BY <1>4 DEF Mention, ClassLine, MemberLine, BadLine, Line, NothingRuns, Fails
  <2> QED
    BY <2>1, LineKeepsMembers
<1>5. CASE EndLine
  BY <1>5, EndLineKeepsMembers
<1>6. CASE RootLine
  BY <1>6, RootLineKeepsMembers
<1>7. CASE BeginLink
  BY <1>7, BeginLinkKeepsMembers
<1>8. CASE EndLink
  BY <1>8, EndLinkKeepsMembers
<1>9. CASE Link
  BY <1>9, LinkKeepsMembers
<1>10. CASE New \/ NewPart
  <2>1. UNCHANGED <<pool, classes, phase, linked, global>> /\ phase = "run"
    BY <1>10 DEF New, NewPart, SInv, IInv, Phases
  <2> QED
    BY <2>1, RunKeepsMembers
<1>11. CASE Assign
  BY <1>11, AssignKeepsDomains, RunKeepsMembers DEF SInv
<1>12. CASE UNCHANGED vars
  <2>1. UNCHANGED <<pool, classes, phase, global, linked>>
    BY <1>12 DEF vars
  <2>2. \A i \in DOMAIN classes : Made(classes[i])' = Made(classes[i])
    BY <2>1 DEF Made, Raises, StaticOf, Registered, Before
  <2> QED
    BY <2>1, <2>2 DEF SInv, Bare, Members, Registered
<1> QED
  BY <1>3, <1>4, <1>5, <1>6, <1>7, <1>8, <1>9, <1>10, <1>11, <1>12 DEF Next

LEMMA MembersAlways == Spec => []SInv
<1>1. Init => SInv
  BY InitHolds, MembersAtStart DEF SInv
<1> QED
  BY <1>1, MembersKept, PTL DEF Spec

(* After linking (link.c) every static instance, those the script added    *)
(* members to included, has the static members its class declares up to    *)
(* the first, in the order of addresses, that calls a class linked later.  *)
THEOREM StaticMembersAlways == Spec => []StaticMembers
<1>1. SInv => StaticMembers
  <2> SUFFICES ASSUME SInv, phase = "run", NEW n \in Registered
               PROVE  LET members == ClassOf(n).members
                          static  == {m \in DOMAIN members : members[m].static}
                          raises(m) == LET d == Needs(members[m]) IN
                                       d # None /\ (d \in Registered => Before(n, d))
                      IN DOMAIN global[n].own
                           = {m \in static : \A k \in static : k = m \/ Before(k, m) => ~raises(k)}
    BY DEF StaticMembers
  <2>1. PICK i \in DOMAIN classes : ClassOf(n) = classes[i] /\ classes[i].name = n
    BY ClassOfIs DEF SInv, IInv, TypeOK
  <2>2. n \in DOMAIN global /\ n \in linked
    BY DEF SInv, IInv, Phases, Members
  <2>3. DOMAIN global[n].own = Made(classes[i])
    BY <2>1, <2>2 DEF SInv, Members
  <2> QED
    BY <2>1, <2>3 DEF Made, StaticOf, Raises
<1> QED
  BY <1>1, MembersAlways, PTL

-----------------------------------------------------------------------------
(* Induction: the least number of a set.                                   *)
LEMMA LeastNatural ==
  ASSUME NEW T, T \subseteq Nat, T # {}
  PROVE  \E m \in T : \A k \in T : m <= k
<1> DEFINE R == OpToRel(<, Nat)
<1>1. IsWellFoundedOn(R, Nat)
  BY NatLessThanWellFounded
<1> HIDE DEF R
<1>2. \E m \in T : \A k \in T : ~ (<<k, m>> \in R)
  BY <1>1, WFMin
<1>3. PICK m \in T : \A k \in T : ~ (<<k, m>> \in R)
  BY <1>2
<1>4. ASSUME NEW k \in T PROVE m <= k
  <2>1. m \in Nat /\ k \in Nat
    OBVIOUS
  <2>2. CASE k < m
    <3>1. <<k, m>> \in R
      BY <2>1, <2>2 DEF R, OpToRel
    <3> QED
      BY <3>1, <1>3
  <2> QED
    BY <2>1, <2>2
<1> QED
  BY <1>4

(* What begins at 0 and goes from each number to the next holds up to N.   *)
LEMMA UpTo ==
  ASSUME NEW N \in Nat, NEW S, 0 \in S, \A n \in 0 .. N - 1 : n \in S => n + 1 \in S
  PROVE  \A n \in 0 .. N : n \in S
<1> DEFINE T == {n \in 0 .. N : n \notin S}
<1>1. SUFFICES T = {}
  OBVIOUS
<1>2. SUFFICES ASSUME T # {} PROVE FALSE
  OBVIOUS
<1>3. PICK m \in T : \A k \in T : m <= k
  <2>1. T \subseteq Nat /\ T # {}
    BY <1>2
  <2> HIDE DEF T
  <2> QED
    BY <2>1, LeastNatural
<1>4. m \in 0 .. N /\ m # 0 /\ m \notin S
  OBVIOUS
<1>5. m - 1 \in 0 .. N - 1 /\ m - 1 \notin T
  BY <1>3, <1>4
<1>6. m - 1 \in S
  BY <1>5
<1> QED
  BY <1>4, <1>5, <1>6

-----------------------------------------------------------------------------
(* Lookup: the first of a path, and the path along super and owner.        *)
FirstOf(path, found) == IF found = {} THEN <<>> ELSE path[CHOOSE i \in found : \A j \in found : i <= j]

LEMMA FirstOfIs ==
  ASSUME NEW N \in Nat, NEW path, NEW found, found \subseteq 1 .. N, \A i \in 1 .. N : path[i] # <<>>
  PROVE  /\ FirstOf(path, found) = <<>> <=> found = {}
         /\ found # {} => \E i \in found : FirstOf(path, found) = path[i] /\ \A j \in found : i <= j
<1>1. CASE found = {}
  BY <1>1 DEF FirstOf
<1>2. CASE found # {}
  <2>1. \E i \in found : \A j \in found : i <= j
    <3>1. found \subseteq Nat
      OBVIOUS
    <3> QED
      BY <1>2, <3>1, LeastNatural
  <2>2. PICK i \in found : i = (CHOOSE k \in found : \A j \in found : k <= j) /\ \A j \in found : i <= j
    BY <2>1
  <2>3. FirstOf(path, found) = path[i]
    BY <1>2, <2>2 DEF FirstOf
  <2> QED
    BY <1>2, <2>2, <2>3
<1> QED
  BY <1>1, <1>2

Further(q, n) == q \o (IF Len(q) = n THEN Up(q[n]) ELSE <<>>)

Walk(g, N, x) == g = [n \in 0 .. N |-> IF n = 0 THEN <<x>> ELSE Further(g[n - 1], n)]

LEMMA WalkIs ==
  ASSUME NEW x, NEW N \in Nat
  PROVE  \E g : Walk(g, N, x)
<1> DEFINE S == {n \in Nat : \E g : Walk(g, n, x)}
<1>1. 0 \in S
  <2>1. Walk([n \in 0 .. 0 |-> <<x>>], 0, x)
    BY DEF Walk
  <2> QED
    BY <2>1
<1>2. ASSUME NEW n \in 0 .. N - 1, n \in S PROVE n + 1 \in S
  <2>1. PICK g : Walk(g, n, x)
    BY <1>2
  <2> DEFINE f == [m \in 0 .. n + 1 |-> IF m <= n THEN g[m] ELSE Further(g[n], n + 1)]
  <2>2. ASSUME NEW m \in 0 .. n + 1
        PROVE  f[m] = IF m = 0 THEN <<x>> ELSE Further(f[m - 1], m)
    <3>1. CASE m = 0
      BY <2>1, <3>1 DEF Walk
    <3>2. CASE m \in 1 .. n
      <4>1. f[m] = g[m] /\ f[m - 1] = g[m - 1] /\ m \in 0 .. n
        BY <3>2
      <4> HIDE DEF f
      <4> QED
        BY <2>1, <3>2, <4>1 DEF Walk
    <3>3. CASE m = n + 1
      <4>1. m # 0 /\ f[m] = Further(g[n], n + 1) /\ f[m - 1] = g[n]
        BY <3>3
      <4> HIDE DEF f
      <4> QED
        BY <3>3, <4>1
    <3> QED
      BY <3>1, <3>2, <3>3
  <2>3. Walk(f, n + 1, x)
    BY <2>2 DEF Walk
  <2> QED
    BY <2>3
<1> HIDE DEF S
<1>3. N \in S
  BY <1>1, <1>2, UpTo
<1> QED
  BY <1>3 DEF S

(* Path is the last of a walk.                                             *)
LEMMA PathIs ==
  ASSUME Len(classes) \in Nat, NEW x
  PROVE  \E g : Walk(g, Len(classes), x) /\ Path(x) = g[Len(classes)]
<1> DEFINE g == CHOOSE f : Walk(f, Len(classes), x)
<1>1. Walk(g, Len(classes), x)
  BY WalkIs
<1>2. Path(x) = g[Len(classes)]
  BY DEF Path, Walk, Further
<1> QED
  BY <1>1, <1>2

LEMMA UpTyped ==
  ASSUME TypeOK, NEW x \in Items
  PROVE  Up(x) \in Seq(Items)
<1>1. CASE x[1] = "part"
  <2>1. PICK i \in DOMAIN parts : x = <<"part", i>>
    BY <1>1 DEF Items
  <2>2. parts \in Seq(Parts) /\ parts[i] \in Parts /\ parts[i].up <= Len(parts)
    BY DEF TypeOK
  <2>3. parts[i].up # 0 => parts[i].up \in DOMAIN parts
    BY <2>2 DEF Parts
  <2>4. parts[i].up # 0 => <<"part", parts[i].up>> \in Items
    BY <2>3 DEF Items
  <2>5. Up(x) = IF parts[i].up = 0 THEN <<>> ELSE <<<<"part", parts[i].up>>>>
    BY <2>1 DEF Up, IsPart
  <2> QED
    BY <2>4, <2>5
<1>2. CASE x[1] # "part"
  <2>1. PICK n \in DOMAIN global : x = <<"static", n>>
    BY <1>2 DEF Items
  <2>2. global[n].up \in DOMAIN global \cup {None}
    BY DEF TypeOK, IsPartial
  <2>3. global[n].up # None => <<"static", global[n].up>> \in Items
    BY <2>2 DEF Items
  <2>4. Up(x) = IF global[n].up = None THEN <<>> ELSE <<<<"static", global[n].up>>>>
    BY <2>1 DEF Up, IsPart
  <2> QED
    BY <2>3, <2>4
<1> QED
  BY <1>1, <1>2

LEMMA PathTyped ==
  ASSUME TypeOK, NEW x \in Items
  PROVE  Path(x) \in Seq(Items)
<1>1. Len(classes) \in Nat
  BY DEF TypeOK
<1>2. PICK N, g : N \in Nat /\ N = Len(classes) /\ Walk(g, N, x) /\ Path(x) = g[N]
  BY <1>1, PathIs
<1> DEFINE S == {n \in 0 .. N : g[n] \in Seq(Items)}
<1>3. 0 \in S
  BY <1>2 DEF Walk
<1>4. ASSUME NEW n \in 0 .. N - 1, n \in S PROVE n + 1 \in S
  <2>1. n + 1 \in 0 .. N /\ n + 1 # 0 /\ (n + 1) - 1 = n /\ g[n] \in Seq(Items)
    BY <1>2, <1>4
  <2>2. g[n + 1] = Further(g[n], n + 1)
    BY <1>2, <2>1 DEF Walk
  <2>3. Len(g[n]) = n + 1 => Up(g[n][n + 1]) \in Seq(Items)
    <3> SUFFICES ASSUME Len(g[n]) = n + 1 PROVE Up(g[n][n + 1]) \in Seq(Items)
      OBVIOUS
    <3>1. g[n][n + 1] \in Items
      BY <2>1
    <3> QED
      BY <3>1, UpTyped
  <2>4. PICK u : u = IF Len(g[n]) = n + 1 THEN Up(g[n][n + 1]) ELSE <<>>
    OBVIOUS
  <2>5. u \in Seq(Items) /\ g[n + 1] = g[n] \o u
    BY <2>2, <2>3, <2>4 DEF Further
  <2>6. g[n + 1] \in Seq(Items)
    BY <2>1, <2>5
  <2> QED
    BY <2>1, <2>6
<1> HIDE DEF S
<1>5. N \in S
  BY <1>2, <1>3, <1>4, UpTo
<1> QED
  BY <1>2, <1>5 DEF S

LEMMA ItemsAre == \A x \in Items : x # <<>>
BY DEF Items

(* A value class has no members of its own, static or not.                 *)
LEMMA ValueClassesBare ==
  ASSUME SInv, NEW n \in DOMAIN global, n \in ValueClasses
  PROVE  DOMAIN global[n].own = {}
<1>1. PICK i \in DOMAIN classes : classes[i].name = n
  BY DEF SInv, IInv, TypeOK, Registered
<1>2. DOMAIN classes[i].members = {}
  BY <1>1 DEF SInv, Bare
<1>3. CASE phase \in {"linkScript", "run"}
  <2>1. Made(classes[i]) = {}
    BY <1>2 DEF Made, StaticOf
  <2> QED
    BY <1>1, <1>3, <2>1 DEF SInv, Members
<1>4. CASE phase \notin {"linkScript", "run"}
  BY <1>4 DEF SInv, Members
<1> QED
  BY <1>3, <1>4

LEMMA ReferenceIs ==
  /\ \A x, m : FindVariableReference(x, m) = FirstOf(Path(x), {i \in DOMAIN Path(x) : m \in DOMAIN Own(Path(x)[i])})
  /\ \A x, n : FindInstance(x, n) = FirstOf(Path(x), {i \in DOMAIN Path(x) :
                 ClassName(Path(x)[i]) = n /\ (n \in ValueClasses => IsPart(Path(x)[i]))})
BY DEF FindVariableReference, FindInstance, FirstOn, FirstOf

LEMMA VariableIs ==
  ASSUME NEW this, NEW x, NEW m, NEW y,
         y = FirstOf(Path(x), {i \in DOMAIN Path(x) : /\ m \in DOMAIN Own(Path(x)[i])
                                                      /\ Own(Path(x)[i])[m].state # "unset"}),
         y # <<>>
  PROVE  /\ Own(y)[m].access = "public" => FindVariable(this, x, m) = y
         /\ Own(y)[m].access = "protected" =>
              (FindVariable(this, x, m) = y <=> FindInstance(this, ClassName(y)) # <<>>)
         /\ Own(y)[m].access = "private" =>
              (FindVariable(this, x, m) = y <=> ClassName(this) = ClassName(y))
<1> DEFINE may == CASE Own(y)[m].access = "public" -> TRUE
                    [] Own(y)[m].access = "protected" -> FindInstance(this, ClassName(y)) # <<>>
                    [] Own(y)[m].access = "private" -> ClassName(this) = ClassName(y)
<1>1. FindVariable(this, x, m) = IF y # <<>> /\ may THEN y ELSE <<>>
  BY DEF FindVariable, FirstOn, FirstOf
<1> HIDE DEF may
<1>2. FindVariable(this, x, m) = y <=> may
  BY <1>1
<1> QED
  BY <1>2 DEF may

LEMMA OwnTyped ==
  ASSUME TypeOK, NEW y \in Items, NEW m \in DOMAIN Own(y)
  PROVE  Own(y)[m] \in Entries /\ m \in MemberNames
<1>1. Own(y) \in Partial(MemberNames, Entries)
  <2>1. CASE y[1] = "part"
    <3>1. PICK i \in DOMAIN parts : y = <<"part", i>>
      BY <2>1 DEF Items
    <3>2. parts[i] \in Parts
      BY DEF TypeOK
    <3> QED
      BY <3>1, <3>2 DEF Parts, Own, IsPart
  <2>2. CASE y[1] # "part"
    <3>1. PICK n \in DOMAIN global : y = <<"static", n>>
      BY <2>2 DEF Items
    <3>2. global[n] \in [up : DOMAIN global \cup {None}, own : Partial(MemberNames, Entries)]
      BY DEF TypeOK, IsPartial
    <3> QED
      BY <3>1, <3>2 DEF Own, IsPart
  <2> QED
    BY <2>1, <2>2
<1>2. PICK D \in SUBSET MemberNames : Own(y) \in [D -> Entries]
  BY <1>1 DEF Partial
<1> QED
  BY <1>2

LEMMA HeirsRead == SInv => ReadableByHeirs
<1> SUFFICES ASSUME SInv, NEW x \in Items, NEW m \in MemberNames, NEW y, y = FindVariableReference(x, m),
                    y # <<>>, Own(y)[m].state # "unset"
             PROVE  FindVariable(x, x, m) = y <=> Own(y)[m].access # "private" \/ ClassName(x) = ClassName(y)
  BY DEF ReadableByHeirs
<1>1. TypeOK
  BY DEF SInv, IInv
<1>2. PICK path \in Seq(Items) : path = Path(x)
  BY <1>1, PathTyped
<1>15. PICK N \in Nat : N = Len(path) /\ DOMAIN path = 1 .. N
  OBVIOUS
<1>3. \A i \in 1 .. N : path[i] \in Items /\ path[i] # <<>>
  BY <1>15, ItemsAre
<1>16. PICK entered : entered = {i \in 1 .. N : m \in DOMAIN Own(path[i])}
  OBVIOUS
<1>17. PICK valued : valued = {i \in 1 .. N : m \in DOMAIN Own(path[i]) /\ Own(path[i])[m].state # "unset"}
  OBVIOUS
<1>18. PICK same : same = {i \in 1 .. N : /\ ClassName(path[i]) = ClassName(y)
                                          /\ ClassName(y) \in ValueClasses => IsPart(path[i])}
  OBVIOUS
<1>19. \A i \in 1 .. N : path[i] # <<>>
  BY <1>3
<1>4. y = FirstOf(path, entered)
  BY <1>2, <1>15, <1>16, ReferenceIs
<1>5. PICK i \in entered : y = path[i] /\ \A j \in entered : i <= j
  <2>1. entered \subseteq 1 .. N /\ FirstOf(path, entered) # <<>>
    BY <1>4, <1>16
  <2>2. entered # {}
    BY <1>19, <2>1, FirstOfIs
  <2> QED
    BY <1>4, <1>19, <2>1, <2>2, FirstOfIs
<1>6. i \in 1 .. N /\ y \in Items /\ m \in DOMAIN Own(y) /\ i \in valued
  BY <1>3, <1>5, <1>16, <1>17
<1>7. y = FirstOf(path, valued)
  <2>1. valued \subseteq 1 .. N /\ valued \subseteq entered /\ valued # {}
    BY <1>6, <1>16, <1>17
  <2>3. PICK j \in valued : FirstOf(path, valued) = path[j] /\ \A k \in valued : j <= k
    BY <1>19, <2>1, FirstOfIs
  <2>4. i <= j /\ j <= i /\ i \in Nat /\ j \in Nat
    BY <1>5, <1>6, <2>1, <2>3
  <2>5. i = j
    BY <2>4
  <2> QED
    BY <1>5, <2>3, <2>5
<1>8. Own(y)[m] \in Entries
  BY <1>1, <1>6, OwnTyped
<1>9. Own(y)[m].access \in {"public", "protected", "private"}
  BY <1>8 DEF Entries, Accesses
<1>10. /\ Own(y)[m].access = "public" => FindVariable(x, x, m) = y
       /\ Own(y)[m].access = "protected" => (FindVariable(x, x, m) = y <=> FindInstance(x, ClassName(y)) # <<>>)
       /\ Own(y)[m].access = "private" => (FindVariable(x, x, m) = y <=> ClassName(x) = ClassName(y))
  <2>1. y = FirstOf(Path(x), {k \in DOMAIN Path(x) : /\ m \in DOMAIN Own(Path(x)[k])
                                                     /\ Own(Path(x)[k])[m].state # "unset"})
    BY <1>2, <1>7, <1>15, <1>17
  <2> QED
    BY <2>1, VariableIs
<1>11. FindInstance(x, ClassName(y)) # <<>>
  <2>1. ClassName(y) \in ValueClasses => IsPart(y)
    <3> SUFFICES ASSUME ClassName(y) \in ValueClasses, ~IsPart(y) PROVE FALSE
      OBVIOUS
    <3>1. PICK n \in DOMAIN global : y = <<"static", n>>
      BY <1>6 DEF Items, IsPart
    <3>2. ClassName(y) = n /\ Own(y) = global[n].own
      BY <3>1 DEF ClassName, Own, IsPart
    <3> QED
      BY <1>6, <3>2, ValueClassesBare
  <2>2. i \in same
    BY <1>5, <1>6, <1>18, <2>1
  <2>3. FindInstance(x, ClassName(y)) = FirstOf(path, same)
    BY <1>2, <1>15, <1>18, ReferenceIs
  <2>4. same \subseteq 1 .. N
    BY <1>18
  <2> QED
    BY <1>19, <2>2, <2>3, <2>4, FirstOfIs
<1>12. CASE Own(y)[m].access = "public"
  BY <1>10, <1>12
<1>13. CASE Own(y)[m].access = "protected"
  BY <1>10, <1>11, <1>13
<1>14. CASE Own(y)[m].access = "private"
  BY <1>10, <1>14
<1> QED
  BY <1>9, <1>12, <1>13, <1>14

(* However deep the hierarchy and wherever a link is missing, the code of  *)
(* a class reads every member found from it (vm.c, mk_vm_find_variable)    *)
(* that has a value, but those private to another class.                   *)
THEOREM ReadableAlways == Spec => []ReadableByHeirs
<1>1. SInv => ReadableByHeirs
  BY HeirsRead
<1> QED
  BY <1>1, MembersAlways, PTL

-----------------------------------------------------------------------------
(* The parts of an object.  The class of each was registered before that   *)
(* of the part it is "super" of, so there are no more parts than classes.  *)
OwnMembers(c) == {m \in DOMAIN c.members : ~ c.members[m].static}

PartIs(i) ==
  /\ \E j \in 1 .. Len(classes) - i + 1 : classes[j].name = parts[i].class
  /\ parts[i].class \in ValueClasses => DOMAIN parts[i].own = {}
  /\ parts[i].class \notin ValueClasses =>
       parts[i].child = i - 1 /\ DOMAIN parts[i].own = OwnMembers(ClassOf(parts[i].class))

Above(n) == IF n \in ValueClasses THEN None ELSE ClassOf(n).super

Linked(i) ==
  /\ i < Len(parts) => parts[i].up = i + 1 /\ parts[i + 1].class = Above(parts[i].class)
  /\ i = Len(parts) => parts[i].up = 0 /\ building = Above(parts[i].class)

OneObject == \A i \in DOMAIN parts : PartIs(i) /\ Linked(i)

OInv == SInv /\ OneObject

LEMMA UpOfTheLastIs ==
  ASSUME parts \in Seq(Parts), NEW n \in Nat, n = Len(parts) + 1
  PROVE  /\ UpOfTheLast(n) \in Seq(Parts) /\ Len(UpOfTheLast(n)) = Len(parts)
         /\ \A i \in DOMAIN parts : /\ UpOfTheLast(n)[i].class = parts[i].class
                                    /\ UpOfTheLast(n)[i].child = parts[i].child
                                    /\ UpOfTheLast(n)[i].own = parts[i].own
                                    /\ UpOfTheLast(n)[i].up = IF i = n - 1 THEN n ELSE parts[i].up
<1>1. CASE n = 1
  BY <1>1 DEF UpOfTheLast
<1>2. CASE n # 1
  <2> DEFINE v == [parts[n - 1] EXCEPT !.up = n]
  <2>1. n - 1 \in DOMAIN parts
    BY <1>2
  <2>2. parts[n - 1] \in Parts
    BY <2>1
  <2>3. /\ v \in Parts /\ v.up = n /\ v.own = parts[n - 1].own
        /\ v.class = parts[n - 1].class /\ v.child = parts[n - 1].child
    BY <2>2 DEF Parts
  <2>4. UpOfTheLast(n) = [parts EXCEPT ![n - 1] = v]
    BY <1>2 DEF UpOfTheLast
  <2> HIDE DEF v
  <2>5. /\ UpOfTheLast(n) \in Seq(Parts) /\ Len(UpOfTheLast(n)) = Len(parts)
        /\ \A i \in DOMAIN parts : UpOfTheLast(n)[i] = IF i = n - 1 THEN v ELSE parts[i]
    BY <2>1, <2>3, <2>4, ExceptTyped
  <2> QED
    BY <2>3, <2>5
<1> QED
  BY <1>1, <1>2

(* The next part is that of a class registered before the last one's.      *)
LEMMA BuildingIs ==
  ASSUME OInv, building # None
  PROVE  \E j \in 1 .. Len(classes) - Len(parts) : classes[j].name = building /\ ClassOf(building) = classes[j]
<1> DEFINE K == Len(parts)
<1>0. /\ classes \in Seq(Classes) /\ Len(classes) \in Nat /\ DOMAIN classes = 1 .. Len(classes)
      /\ parts \in Seq(Parts) /\ K \in Nat /\ DOMAIN parts = 1 .. K
  BY DEF OInv, SInv, IInv, TypeOK
<1>1. building \in Registered
  BY DEF OInv, SInv, IInv, TypeOK
<1>2. PICK i \in DOMAIN classes : ClassOf(building) = classes[i] /\ classes[i].name = building
  BY <1>0, <1>1, ClassOfIs
<1> HIDE DEF K
<1>3. \A j, k \in DOMAIN classes : classes[j].name = classes[k].name => j = k
  <2>1. \A j, k \in DOMAIN classes : j = k \/ j \in 1 .. k - 1 \/ k \in 1 .. j - 1
    BY <1>0
  <2> QED
    BY <2>1 DEF OInv, SInv, IInv, Hierarchy
<1>4. CASE K = 0
  BY <1>0, <1>2, <1>4 DEF K
<1>5. CASE K # 0
  <2>1. K \in DOMAIN parts /\ PartIs(K) /\ Linked(K)
    BY <1>0, <1>5 DEF OInv, OneObject
  <2>2. PICK j \in 1 .. Len(classes) - K + 1 : classes[j].name = parts[K].class
    BY <2>1 DEF PartIs
  <2>3. j \in DOMAIN classes
    BY <1>0, <1>5, <2>2
  <2>4. building = Above(parts[K].class)
    BY <2>1 DEF Linked, K
  <2>5. building = classes[j].super
    <3>1. PICK k \in DOMAIN classes : ClassOf(parts[K].class) = classes[k] /\ classes[k].name = parts[K].class
      <4>1. parts[K].class \in Registered
        BY <2>2, <2>3 DEF Registered
      <4> QED
        BY <1>0, <4>1, ClassOfIs
    <3>2. k = j
      BY <1>3, <2>2, <2>3, <3>1
    <3> QED
      BY <2>4, <3>1, <3>2 DEF Above
  <2>6. PICK k \in 1 .. j - 1 : classes[k].name = classes[j].super
    BY <2>3, <2>5 DEF OInv, SInv, IInv, Hierarchy
  <2>7. k \in DOMAIN classes /\ k \in 1 .. Len(classes) - K
    BY <1>0, <1>5, <2>2, <2>6
  <2>8. k = i
    BY <1>2, <1>3, <2>5, <2>6, <2>7
  <2> QED
    BY <1>2, <2>7, <2>8 DEF K
<1> QED
  BY <1>4, <1>5

LEMMA NewPartIs ==
  ASSUME OInv, NewPart
  PROVE  /\ building # None /\ UNCHANGED <<pool, classes, phase, global, linked>>
         /\ \/ parts' = <<>>
            \/ \E p : /\ parts' = Append(UpOfTheLast(Len(parts) + 1), p) /\ p \in Parts
                      /\ p.class = building /\ p.up = 0 /\ building' = Above(building)
                      /\ building \in ValueClasses => DOMAIN p.own = {}
                      /\ building \notin ValueClasses =>
                           p.child = Len(parts) /\ DOMAIN p.own = OwnMembers(ClassOf(building))
<1>1. building # None /\ UNCHANGED <<pool, classes, phase, global, linked>>
  BY DEF NewPart
<1>2. PICK n, c : n = Len(parts) + 1 /\ c = ClassOf(building)
  OBVIOUS
<1>3. Len(parts) \in Nat /\ n - 1 = Len(parts) /\ building \in ClassNames /\ c \in Classes
  <2>1. building \in Registered /\ building \in ClassNames
    BY <1>1 DEF OInv, SInv, IInv, TypeOK, IsPartial
  <2> QED
    BY <1>2, <2>1, ClassOfIs, ClassTyped DEF OInv, SInv, IInv, TypeOK
<1>4. Empty \in Partial(MemberNames, Entries) /\ DOMAIN Empty = {}
  BY DEF Empty, Partial
<1>5. CASE building \in ValueClasses
  <2> DEFINE p == Part(building, 0, Empty)
  <2>1. p \in Parts /\ p.class = building /\ p.up = 0 /\ DOMAIN p.own = {}
    BY <1>3, <1>4 DEF Part, Parts
  <2>2. parts' = Append(UpOfTheLast(n), p) /\ building' = None
    BY <1>2, <1>5 DEF NewPart
  <2> HIDE DEF p
  <2> QED
    BY <1>1, <1>2, <1>5, <2>1, <2>2 DEF Above
<1>6. CASE building \notin ValueClasses /\ ~ \E m \in Fresh(c, Empty, FALSE) : RaisesIn(DOMAIN global, c, m)
  <2> DEFINE own == Initialized(DOMAIN global, c, Empty, FALSE)
             p   == Part(building, n - 1, own)
  <2>1. own \in Partial(MemberNames, Entries)
    BY <1>3, <1>4, InitializedTyped
  <2>2. DOMAIN own = OwnMembers(c)
    <3>1. Reached(DOMAIN global, c, Empty, FALSE) = Fresh(c, Empty, FALSE)
      BY <1>6 DEF Reached
    <3>2. Fresh(c, Empty, FALSE) = OwnMembers(c)
      <4>1. \A m \in DOMAIN c.members : c.members[m].static \in BOOLEAN
        <5>1. PICK D \in SUBSET MemberNames : c.members \in [D -> Declarations]
          BY <1>3 DEF Classes, Partial
        <5>2. \A d \in Declarations : d.static \in BOOLEAN
          BY MkClassesAssumption
        <5> QED
          BY <5>1, <5>2
      <4> QED
        BY <1>4, <4>1 DEF Fresh, OwnMembers
    <3>3. DOMAIN own = {} \cup Reached(DOMAIN global, c, Empty, FALSE)
      BY <1>4 DEF Initialized
    <3> QED
      BY <3>1, <3>2, <3>3
  <2> HIDE DEF own
  <2>3. p \in Parts /\ p.class = building /\ p.up = 0 /\ p.child = Len(parts) /\ DOMAIN p.own = OwnMembers(c)
    BY <1>3, <2>1, <2>2 DEF Part, Parts
  <2>4. parts' = Append(UpOfTheLast(n), p) /\ building' = c.super
    BY <1>2, <1>6 DEF NewPart, own
  <2> HIDE DEF p
  <2> QED
    BY <1>1, <1>2, <1>6, <2>3, <2>4 DEF Above
<1>7. CASE building \notin ValueClasses /\ \E m \in Fresh(c, Empty, FALSE) : RaisesIn(DOMAIN global, c, m)
  BY <1>1, <1>2, <1>7 DEF NewPart
<1> QED
  BY <1>5, <1>6, <1>7

LEMMA NewPartKeepsObject ==
  ASSUME OInv, NewPart
  PROVE  OneObject'
<1>1. building # None /\ UNCHANGED <<pool, classes, phase, global, linked>>
  BY NewPartIs
<1>2. CASE parts' = <<>>
  BY <1>2 DEF OneObject
<1>3. ASSUME NEW p,
             /\ parts' = Append(UpOfTheLast(Len(parts) + 1), p) /\ p \in Parts
             /\ p.class = building /\ p.up = 0 /\ building' = Above(building)
             /\ building \in ValueClasses => DOMAIN p.own = {}
             /\ building \notin ValueClasses =>
                  p.child = Len(parts) /\ DOMAIN p.own = OwnMembers(ClassOf(building))
      PROVE  OneObject'
  <2>1. PICK K \in Nat : K = Len(parts) /\ parts \in Seq(Parts) /\ DOMAIN parts = 1 .. K
    <3>1. parts \in Seq(Parts)
      BY DEF OInv, SInv, IInv, TypeOK
    <3> QED
      BY <3>1
  <2>2. PICK s : s = UpOfTheLast(K + 1)
    OBVIOUS
  <2>3. /\ s \in Seq(Parts) /\ Len(s) = K
        /\ \A i \in 1 .. K : /\ s[i].class = parts[i].class
                             /\ s[i].child = parts[i].child
                             /\ s[i].own = parts[i].own
                             /\ s[i].up = IF i = K THEN K + 1 ELSE parts[i].up
    <3>1. K + 1 \in Nat /\ K + 1 = Len(parts) + 1 /\ (K + 1) - 1 = K
      BY <2>1
    <3> QED
      BY <2>1, <2>2, <3>1, UpOfTheLastIs
  <2>4. /\ DOMAIN parts' = 1 .. K + 1 /\ Len(parts') = K + 1 /\ parts'[K + 1] = p
        /\ \A i \in 1 .. K : parts'[i] = s[i]
    BY <1>3, <2>1, <2>2, <2>3, AppendTyped
  <2>5. \A n : ClassOf(n)' = ClassOf(n) /\ Above(n)' = Above(n)
    BY <1>1 DEF ClassOf, Above
  <2>6. ASSUME NEW i \in 1 .. K PROVE PartIs(i)' /\ Linked(i)'
    <3>1. PartIs(i) /\ Linked(i)
      BY <2>1 DEF OInv, OneObject
    <3>2. /\ parts'[i].class = parts[i].class /\ parts'[i].child = parts[i].child
          /\ parts'[i].own = parts[i].own /\ parts'[i].up = IF i = K THEN K + 1 ELSE parts[i].up
      BY <2>3, <2>4
    <3>3. PartIs(i)'
      BY <1>1, <2>5, <3>1, <3>2 DEF PartIs
    <3>4. Linked(i)'
      <4>1. CASE i = K
        <5>1. parts'[i + 1].class = building /\ building = Above(parts[i].class) /\ parts'[i].up = i + 1
          BY <1>3, <2>1, <2>4, <3>1, <3>2, <4>1 DEF Linked
        <5>2. i < Len(parts') /\ i # Len(parts')
          BY <2>4, <4>1
        <5> QED
          BY <2>5, <3>2, <5>1, <5>2 DEF Linked
      <4>2. CASE i # K
        <5>1. i < K /\ i + 1 \in 1 .. K
          BY <4>2
        <5>2. parts'[i + 1].class = parts[i + 1].class
          BY <2>3, <2>4, <5>1
        <5>3. parts[i].up = i + 1 /\ parts[i + 1].class = Above(parts[i].class)
          BY <2>1, <3>1, <5>1 DEF Linked
        <5>4. i # Len(parts')
          BY <2>4, <5>1
        <5> QED
          BY <2>5, <3>2, <4>2, <5>2, <5>3, <5>4 DEF Linked
      <4> QED
        BY <4>1, <4>2
    <3> QED
      BY <3>3, <3>4
  <2>7. PartIs(K + 1)'
    <3>1. PICK j \in 1 .. Len(classes) - K : classes[j].name = building
      BY <1>1, <2>1, BuildingIs
    <3>2. Len(classes) \in Nat
      BY DEF OInv, SInv, IInv, TypeOK
    <3>3. j \in 1 .. Len(classes) - (K + 1) + 1
      BY <3>1, <3>2
    <3>4. (K + 1) - 1 = K
      OBVIOUS
    <3> QED
      BY <1>1, <1>3, <2>1, <2>4, <2>5, <3>1, <3>3, <3>4 DEF PartIs
  <2>8. Linked(K + 1)'
    BY <1>3, <2>4, <2>5 DEF Linked
  <2> QED
    BY <2>4, <2>6, <2>7, <2>8 DEF OneObject
<1>4. CASE parts' # <<>>
  <2>1. PICK p : /\ parts' = Append(UpOfTheLast(Len(parts) + 1), p) /\ p \in Parts
                 /\ p.class = building /\ p.up = 0 /\ building' = Above(building)
                 /\ building \in ValueClasses => DOMAIN p.own = {}
                 /\ building \notin ValueClasses =>
                      p.child = Len(parts) /\ DOMAIN p.own = OwnMembers(ClassOf(building))
    BY <1>4, NewPartIs
  <2> QED
    BY <1>3, <2>1
<1> QED
  BY <1>2, <1>4

LEMMA ObjectKept == OInv /\ [Next]_vars => OInv'
<1> SUFFICES ASSUME OInv, [Next]_vars PROVE OInv'
  OBVIOUS
<1>1. SInv'
  BY MembersKept DEF OInv
<1>2. SUFFICES OneObject'
  BY <1>1 DEF OInv
<1>3. CASE NewPart
  BY <1>3, NewPartKeepsObject
<1>4. CASE New
  <2>1. parts' = <<>>
    BY <1>4 DEF New
  <2> QED
    BY <2>1 DEF OneObject
<1>5. CASE Assign
  <2>1. /\ UNCHANGED <<classes, building>> /\ DOMAIN parts' = DOMAIN parts
        /\ \A i \in DOMAIN parts : /\ parts'[i].class = parts[i].class
                                   /\ parts'[i].up = parts[i].up
                                   /\ parts'[i].child = parts[i].child
                                   /\ DOMAIN parts'[i].own = DOMAIN parts[i].own
    BY <1>5, AssignKeepsDomains DEF OInv, SInv
  <2>2. Len(parts') = Len(parts) /\ Len(parts) \in Nat /\ DOMAIN parts = 1 .. Len(parts)
    <3>1. parts \in Seq(Parts) /\ parts' \in Seq(Parts)
      BY <1>1 DEF OInv, SInv, IInv, TypeOK
    <3>2. DOMAIN parts = 1 .. Len(parts) /\ DOMAIN parts' = 1 .. Len(parts') /\ Len(parts) \in Nat /\ Len(parts') \in Nat
      BY <3>1
    <3> QED
      BY <2>1, <3>2
  <2>3. \A n : ClassOf(n)' = ClassOf(n) /\ Above(n)' = Above(n)
    BY <2>1 DEF ClassOf, Above
  <2>4. ASSUME NEW i \in DOMAIN parts PROVE PartIs(i)' /\ Linked(i)'
    <3>1. PartIs(i) /\ Linked(i)
      BY DEF OInv, OneObject
    <3>2. PartIs(i)'
      BY <2>1, <2>3, <3>1 DEF PartIs
    <3>3. i < Len(parts) => parts'[i + 1].class = parts[i + 1].class
      BY <2>1, <2>2
    <3>4. Linked(i)'
      BY <2>1, <2>2, <2>3, <3>1, <3>3 DEF Linked
    <3> QED
      BY <3>2, <3>4
  <2> QED
    BY <2>1, <2>4 DEF OneObject
<1>6. CASE UNCHANGED vars
  <2>1. UNCHANGED <<classes, parts, building>>
    BY <1>6 DEF vars
  <2>2. \A n : ClassOf(n)' = ClassOf(n) /\ Above(n)' = Above(n)
    BY <2>1 DEF ClassOf, Above
  <2>3. ASSUME NEW i \in DOMAIN parts PROVE PartIs(i)' /\ Linked(i)'
    <3>1. PartIs(i) /\ Linked(i)
      BY DEF OInv, OneObject
    <3> QED
      BY <2>1, <2>2, <3>1 DEF PartIs, Linked
  <2> QED
    BY <2>1, <2>3 DEF OneObject
<1>7. CASE phase # "run" /\ UNCHANGED parts
  BY <1>7 DEF OInv, SInv, IInv, Phases, OneObject
<1>8. (phase # "run" /\ UNCHANGED parts) \/ New \/ NewPart \/ Assign \/ UNCHANGED vars
  BY DEF Next, RegisterInternal, Mention, ClassLine, MemberLine, EndLine, RootLine, BadLine, Line,
         BeginLink, Link, EndLink, NothingRuns
<1> QED
  BY <1>3, <1>4, <1>5, <1>6, <1>7, <1>8

LEMMA ObjectAlways == Spec => []OInv
<1>1. Init => OneObject
  BY DEF Init, OneObject
<1>2. Init => OInv
  BY <1>1, InitHolds, MembersAtStart DEF OInv, SInv
<1> QED
  BY <1>2, ObjectKept, PTL DEF Spec

(* The functions of Path and Lineage, when the object is made.             *)
First(k) == [i \in 1 .. k |-> <<"part", i>>]
FirstClasses(k) == [i \in 1 .. k |-> parts[i].class]

LEMMA PartsAre ==
  ASSUME OInv, parts # <<>>
  PROVE  /\ Len(parts) \in Nat /\ Len(classes) \in Nat /\ DOMAIN parts = 1 .. Len(parts)
         /\ 1 <= Len(parts) /\ Len(parts) <= Len(classes) /\ classes \in Seq(Classes)
<1>1. PICK K \in Nat : K = Len(parts) /\ DOMAIN parts = 1 .. K /\ parts \in Seq(Parts)
  <2>1. parts \in Seq(Parts)
    BY DEF OInv, SInv, IInv, TypeOK
  <2> QED
    BY <2>1
<1>2. K # 0
  BY <1>1
<1>3. PICK N \in Nat : N = Len(classes) /\ classes \in Seq(Classes)
  <2>1. classes \in Seq(Classes)
    BY DEF OInv, SInv, IInv, TypeOK
  <2> QED
    BY <2>1
<1>4. PICK j \in 1 .. N - K + 1 : classes[j].name = parts[K].class
  BY <1>1, <1>2, <1>3 DEF OInv, OneObject, PartIs
<1>5. 1 <= K /\ K <= N
  BY <1>2, <1>4
<1> QED
  BY <1>1, <1>2, <1>3, <1>5

LEMMA OneMore ==
  ASSUME NEW S, NEW s \in Seq(S), NEW e \in S
  PROVE  /\ s \o <<e>> \in Seq(S) /\ Len(s \o <<e>>) = Len(s) + 1
         /\ \A i \in 1 .. Len(s) : (s \o <<e>>)[i] = s[i]
         /\ (s \o <<e>>)[Len(s) + 1] = e
<1>1. <<e>> \in Seq(S) /\ Len(<<e>>) = 1 /\ <<e>>[1] = e
  OBVIOUS
<1> QED
  BY <1>1

(* From the most derived part the path goes through all parts in order.    *)
LEMMA PathOfObject ==
  ASSUME OInv, parts # <<>>
  PROVE  Path(<<"part", 1>>) = First(Len(parts))
<1>1. PICK K, N \in Nat : /\ K = Len(parts) /\ N = Len(classes) /\ DOMAIN parts = 1 .. K
                          /\ 1 <= K /\ K <= N /\ classes \in Seq(Classes)
  BY PartsAre
<1>2. PICK g : Walk(g, N, <<"part", 1>>) /\ Path(<<"part", 1>>) = g[N]
  BY <1>1, PathIs
<1>3. \A k \in Nat : First(k) \in Seq({"part"} \X Nat) /\ Len(First(k)) = k /\ \A i \in 1 .. k : First(k)[i] = <<"part", i>>
  BY DEF First
<1>4. ASSUME NEW i \in 1 .. K PROVE Up(<<"part", i>>) = IF i < K THEN <<<<"part", i + 1>>>> ELSE <<>>
  <2>1. Linked(i)
    BY <1>1 DEF OInv, OneObject
  <2>2. parts[i].up = IF i < K THEN i + 1 ELSE 0
    BY <1>1, <2>1 DEF Linked
  <2> QED
    BY <2>2 DEF Up, IsPart
<1>5. ASSUME NEW k \in Nat PROVE First(k) \o <<<<"part", k + 1>>>> = First(k + 1)
  <2>1. <<<<"part", k + 1>>>> \in Seq({"part"} \X Nat) /\ Len(<<<<"part", k + 1>>>>) = 1
    OBVIOUS
  <2>2. PICK s : s = First(k) \o <<<<"part", k + 1>>>>
    OBVIOUS
  <2>3. /\ s \in Seq({"part"} \X Nat) /\ Len(s) = k + 1
        /\ \A i \in 1 .. k : s[i] = <<"part", i>>
        /\ s[k + 1] = <<"part", k + 1>>
    <3>1. PICK e : e = <<"part", k + 1>>
      OBVIOUS
    <3>2. k + 1 \in Nat
      OBVIOUS
    <3>3. e \in {"part"} \X Nat
      BY <3>1, <3>2
    <3>4. PICK t : t = First(k)
      OBVIOUS
    <3>5. t \in Seq({"part"} \X Nat) /\ Len(t) = k /\ \A i \in 1 .. k : t[i] = <<"part", i>>
      BY <1>3, <3>4
    <3>6. s = t \o <<e>>
      BY <2>2, <3>1, <3>4
    <3>7. /\ s \in Seq({"part"} \X Nat) /\ Len(s) = Len(t) + 1
          /\ \A i \in 1 .. Len(t) : s[i] = t[i]
          /\ s[Len(t) + 1] = e
      BY <3>3, <3>5, <3>6, OneMore
    <3> QED
      BY <3>1, <3>5, <3>7
  <2>4. s = [i \in 1 .. k + 1 |-> s[i]]
    BY <2>3
  <2>5. \A i \in 1 .. k + 1 : s[i] = <<"part", i>>
    BY <2>3
  <2> QED
    BY <2>2, <2>4, <2>5 DEF First
<1> DEFINE reach(n) == IF n + 1 <= K THEN n + 1 ELSE K
           S == {n \in 0 .. N : g[n] = First(reach(n))}
<1>6. 0 \in S
  <2>1. g[0] = <<<<"part", 1>>>>
    BY <1>2 DEF Walk
  <2>2. First(1) = <<<<"part", 1>>>>
    <3>1. First(0) \o <<<<"part", 0 + 1>>>> = First(0 + 1)
      BY <1>5
    <3>2. First(0) = <<>>
      BY DEF First
    <3> QED
      BY <3>1, <3>2
  <2>3. reach(0) = 1
    BY <1>1
  <2> QED
    BY <2>1, <2>2, <2>3
<1>7. ASSUME NEW n \in 0 .. N - 1, n \in S PROVE n + 1 \in S
  <2>1. n + 1 \in 0 .. N /\ n + 1 # 0 /\ (n + 1) - 1 = n /\ g[n] = First(reach(n)) /\ n \in Nat
    BY <1>1, <1>7
  <2>2. g[n + 1] = Further(g[n], n + 1)
    BY <1>2, <2>1 DEF Walk
  <2>3. CASE n + 1 <= K
    <3>1. g[n] = First(n + 1) /\ Len(g[n]) = n + 1 /\ g[n][n + 1] = <<"part", n + 1>>
      BY <1>3, <2>1, <2>3
    <3>2. g[n + 1] = g[n] \o Up(<<"part", n + 1>>)
      BY <2>2, <3>1 DEF Further
    <3>3. PICK k \in 1 .. K : k = n + 1
      BY <1>1, <2>1, <2>3
    <3>4. k \in Nat /\ g[k] = First(k) \o Up(<<"part", k>>) /\ (k + 1 <= K <=> k < K)
      <4>1. k \in Nat /\ (k + 1 <= K <=> k < K)
        BY <1>1
      <4>2. g[k] = g[n] \o Up(<<"part", k>>) /\ g[n] = First(k)
        BY <3>1, <3>2, <3>3
      <4>3. PICK u : u = Up(<<"part", k>>)
        OBVIOUS
      <4> QED
        BY <4>1, <4>2, <4>3
    <3>5. CASE k < K
      <4>1. Up(<<"part", k>>) = <<<<"part", k + 1>>>>
        BY <1>4, <3>5
      <4>2. g[k] = First(k + 1)
        BY <1>5, <3>4, <4>1
      <4>3. reach(k) = k + 1
        BY <3>4, <3>5
      <4> QED
        BY <2>1, <3>3, <4>2, <4>3
    <3>6. CASE ~ (k < K)
      <4>1. Up(<<"part", k>>) = <<>>
        BY <1>4, <3>6
      <4>2. PICK t : t = First(k)
        OBVIOUS
      <4>3. t \in Seq({"part"} \X Nat)
        BY <1>3, <3>4, <4>2
      <4>4. g[k] = t \o <<>>
        BY <3>4, <4>1, <4>2
      <4>5. g[k] = First(k)
        BY <4>2, <4>3, <4>4
      <4>6. reach(k) = K /\ k = K
        BY <1>1, <3>3, <3>4, <3>6
      <4> QED
        BY <2>1, <3>3, <4>6, <4>5
    <3> QED
      BY <3>5, <3>6
  <2>4. CASE ~ (n + 1 <= K)
    <3>1. g[n] = First(K) /\ Len(g[n]) # n + 1
      BY <1>1, <1>3, <2>1, <2>4
    <3>2. g[n + 1] = First(K) \o <<>>
      BY <2>2, <3>1 DEF Further
    <3>3. First(K) \in Seq({"part"} \X Nat)
      BY <1>3
    <3>4. g[n + 1] = First(K)
      BY <3>2, <3>3
    <3> QED
      BY <1>1, <2>1, <2>4, <3>4
  <2> QED
    BY <2>3, <2>4
<1> HIDE DEF S
<1>8. N \in S
  BY <1>1, <1>6, <1>7, UpTo
<1>9. g[N] = First(reach(N)) /\ reach(N) = K
  BY <1>1, <1>8 DEF S
<1> QED
  BY <1>1, <1>2, <1>9

Onward(q) ==
  LET last == q[Len(q)]
  IN IF last \in ValueClasses \/ ClassOf(last).super = None THEN q ELSE Append(q, ClassOf(last).super)

Climb(l, N, n) == l = [k \in 1 .. N |-> IF k = 1 THEN <<n>> ELSE Onward(l[k - 1])]

LEMMA ClimbIs ==
  ASSUME NEW n, NEW N \in Nat
  PROVE  \E l : Climb(l, N, n)
<1> DEFINE S == {k \in Nat : \E l : Climb(l, k, n)}
<1>1. 0 \in S
  <2>1. Climb([k \in 1 .. 0 |-> <<n>>], 0, n)
    BY DEF Climb
  <2> QED
    BY <2>1
<1>2. ASSUME NEW k \in 0 .. N - 1, k \in S PROVE k + 1 \in S
  <2>1. PICK l : Climb(l, k, n)
    BY <1>2
  <2> DEFINE f == [m \in 1 .. k + 1 |-> IF m <= k THEN l[m] ELSE IF k = 0 THEN <<n>> ELSE Onward(l[k])]
  <2>2. ASSUME NEW m \in 1 .. k + 1
        PROVE  f[m] = IF m = 1 THEN <<n>> ELSE Onward(f[m - 1])
    <3>1. CASE m = 1
      <4>1. CASE k = 0
        BY <3>1, <4>1
      <4>2. CASE k # 0
        <5>1. f[m] = l[1] /\ 1 \in 1 .. k
          BY <3>1, <4>2
        <5> HIDE DEF f
        <5> QED
          BY <2>1, <3>1, <5>1 DEF Climb
      <4> QED
        BY <4>1, <4>2
    <3>2. CASE m \in 2 .. k
      <4>1. f[m] = l[m] /\ f[m - 1] = l[m - 1] /\ m \in 1 .. k /\ m # 1
        BY <3>2
      <4> HIDE DEF f
      <4> QED
        BY <2>1, <4>1 DEF Climb
    <3>3. CASE m = k + 1 /\ m # 1
      <4>1. f[m] = Onward(l[k]) /\ f[m - 1] = l[k]
        BY <3>3
      <4> HIDE DEF f
      <4> QED
        BY <3>3, <4>1
    <3> QED
      BY <3>1, <3>2, <3>3
  <2>3. Climb(f, k + 1, n)
    BY <2>2 DEF Climb
  <2> QED
    BY <2>3
<1> HIDE DEF S
<1>3. N \in S
  BY <1>1, <1>2, UpTo
<1> QED
  BY <1>3 DEF S

LEMMA LineageIs ==
  ASSUME Len(classes) \in Nat, NEW n
  PROVE  \E l : Climb(l, Len(classes), n) /\ Lineage(n) = l[Len(classes)]
<1> DEFINE l == CHOOSE f : Climb(f, Len(classes), n)
<1>1. Climb(l, Len(classes), n)
  BY ClimbIs
<1>2. Lineage(n) = l[Len(classes)]
  BY DEF Lineage, Climb, Onward
<1> QED
  BY <1>1, <1>2

(* The classes of the parts are the lineage of the first.                  *)
LEMMA LineageOfObject ==
  ASSUME OInv, parts # <<>>, building = None
  PROVE  Lineage(parts[1].class) = FirstClasses(Len(parts))
<1>1. PICK K, N \in Nat : /\ K = Len(parts) /\ N = Len(classes) /\ DOMAIN parts = 1 .. K
                          /\ 1 <= K /\ K <= N /\ classes \in Seq(Classes)
  BY PartsAre
<1>2. PICK l : Climb(l, N, parts[1].class) /\ Lineage(parts[1].class) = l[N]
  BY <1>1, LineageIs
<1>3. \A i \in 1 .. K : parts[i].class \in ClassNames /\ parts[i].class # None
  <2>1. Registered \subseteq ClassNames
    BY ClassTyped DEF OInv, SInv, IInv, TypeOK, Registered
  <2> QED
    BY <1>1, <2>1, MkClassesAssumption DEF OInv, SInv, IInv, TypeOK, Names
<1>4. ASSUME NEW k \in 1 .. K
      PROVE  FirstClasses(k) \in Seq(ClassNames) /\ Len(FirstClasses(k)) = k /\ FirstClasses(k)[k] = parts[k].class
             /\ \A i \in 1 .. k : FirstClasses(k)[i] = parts[i].class
  BY <1>3 DEF FirstClasses
<1>5. ASSUME NEW k \in 1 .. K, k + 1 \in 1 .. K
      PROVE  Append(FirstClasses(k), parts[k + 1].class) = FirstClasses(k + 1)
  <2>1. PICK s : s = Append(FirstClasses(k), parts[k + 1].class)
    OBVIOUS
  <2>2. s \in Seq(ClassNames) /\ Len(s) = k + 1 /\ \A i \in 1 .. k + 1 : s[i] = parts[i].class
    BY <1>3, <1>4, <1>5, <2>1
  <2>3. s = [i \in 1 .. k + 1 |-> s[i]]
    BY <2>2
  <2> QED
    BY <2>1, <2>2, <2>3 DEF FirstClasses
<1>6. ASSUME NEW k \in 1 .. K PROVE Onward(FirstClasses(k)) = FirstClasses(IF k < K THEN k + 1 ELSE K)
  <2>1. Linked(k) /\ FirstClasses(k)[Len(FirstClasses(k))] = parts[k].class
    BY <1>1, <1>4 DEF OInv, OneObject
  <2>2. CASE k < K
    <3>1. k + 1 \in 1 .. K /\ parts[k + 1].class = Above(parts[k].class) /\ Above(parts[k].class) # None
      BY <1>1, <1>3, <2>1, <2>2 DEF Linked
    <3>2. Onward(FirstClasses(k)) = Append(FirstClasses(k), parts[k + 1].class)
      BY <2>1, <3>1 DEF Onward, Above
    <3> QED
      BY <1>5, <2>2, <3>1, <3>2
  <2>3. CASE ~ (k < K)
    <3>1. k = K /\ Above(parts[k].class) = None
      BY <1>1, <2>1, <2>3 DEF Linked
    <3>2. Onward(FirstClasses(k)) = FirstClasses(k)
      BY <2>1, <3>1 DEF Onward, Above
    <3> QED
      BY <3>1, <3>2
  <2> QED
    BY <2>2, <2>3
<1> DEFINE reach(k) == IF k <= K THEN k ELSE K
           S == {k \in 0 .. N - 1 : l[k + 1] = FirstClasses(reach(k + 1))}
<1>7. 0 \in S
  <2>1. l[1] = <<parts[1].class>>
    BY <1>1, <1>2 DEF Climb
  <2>2. FirstClasses(1) = <<parts[1].class>>
    <3>1. \A i \in 1 .. 1 : i = 1
      OBVIOUS
    <3> QED
      BY <3>1 DEF FirstClasses
  <2>3. reach(0 + 1) = 1 /\ 0 + 1 = 1
    BY <1>1
  <2> QED
    BY <1>1, <2>1, <2>2, <2>3
<1>8. ASSUME NEW k \in 0 .. (N - 1) - 1, k \in S PROVE k + 1 \in S
  <2>1. k + 1 \in 0 .. N - 1 /\ (k + 1) + 1 \in 1 .. N /\ (k + 1) + 1 # 1 /\ ((k + 1) + 1) - 1 = k + 1
    BY <1>1, <1>8
  <2>2. l[(k + 1) + 1] = Onward(l[k + 1])
    BY <1>2, <2>1 DEF Climb
  <2>3. l[k + 1] = FirstClasses(reach(k + 1)) /\ reach(k + 1) \in 1 .. K
    BY <1>1, <1>8
  <2>4. reach((k + 1) + 1) = IF reach(k + 1) < K THEN reach(k + 1) + 1 ELSE K
    BY <1>1, <1>8
  <2> HIDE DEF reach
  <2>5. l[(k + 1) + 1] = FirstClasses(reach((k + 1) + 1))
    BY <1>6, <2>2, <2>3, <2>4
  <2> QED
    BY <2>1, <2>5
<1> HIDE DEF S
<1>9. N - 1 \in S
  <2>1. N - 1 \in Nat
    BY <1>1
  <2> QED
    BY <1>7, <1>8, <2>1, UpTo
<1>10. l[N] = FirstClasses(reach(N)) /\ reach(N) = K
  BY <1>1, <1>9 DEF S
<1> QED
  BY <1>1, <1>2, <1>10

(* However many classes there are between it and Object, an object has a   *)
(* part for each (classObject.c, mk_object_new), linked up and down in the *)
(* order of the hierarchy, and the nearest declaration of a member wins.   *)
THEOREM InheritedAlways == Spec => []Inherited
<1>1. OInv => Inherited
  <2> SUFFICES ASSUME OInv, parts # <<>>, building = None
               PROVE  Inherited
    BY DEF Inherited
  <2> DEFINE lineage == Lineage(parts[1].class)
  <2>1. PICK K, N \in Nat : /\ K = Len(parts) /\ N = Len(classes) /\ DOMAIN parts = 1 .. K
                            /\ 1 <= K /\ K <= N /\ classes \in Seq(Classes)
    BY PartsAre
  <2>2. [i \in DOMAIN parts |-> parts[i].class] = lineage
    BY <2>1, LineageOfObject DEF FirstClasses
  <2>3. \A i \in DOMAIN parts : parts[i].class \notin ValueClasses => parts[i].child = i - 1
    BY DEF OInv, OneObject, PartIs
  <2>4. ASSUME NEW m \in MemberNames
        PROVE  FindVariableReference(<<"part", 1>>, m) =
                 FirstOn([i \in DOMAIN parts |-> <<"part", i>>],
                         LAMBDA x : /\ lineage[x[2]] \notin ValueClasses
                                    /\ m \in DOMAIN ClassOf(lineage[x[2]]).members
                                    /\ ~ClassOf(lineage[x[2]]).members[m].static)
    <3>1. PICK path : path = [i \in 1 .. K |-> <<"part", i>>]
      OBVIOUS
    <3>2. Path(<<"part", 1>>) = path /\ DOMAIN path = 1 .. K /\ \A i \in 1 .. K : path[i] = <<"part", i>>
      BY <2>1, <3>1, PathOfObject DEF First
    <3>3. FindVariableReference(<<"part", 1>>, m) = FirstOf(path, {i \in 1 .. K : m \in DOMAIN Own(path[i])})
      BY <3>2, ReferenceIs
    <3>4. ASSUME NEW i \in 1 .. K
          PROVE  m \in DOMAIN Own(path[i]) <=> /\ lineage[path[i][2]] \notin ValueClasses
                                               /\ m \in DOMAIN ClassOf(lineage[path[i][2]]).members
                                               /\ ~ClassOf(lineage[path[i][2]]).members[m].static
      <4>1. Own(path[i]) = parts[i].own /\ path[i][2] = i
        BY <3>2 DEF Own, IsPart
      <4>2. lineage[i] = parts[i].class
        BY <2>1, <2>2
      <4>3. PartIs(i)
        BY <2>1 DEF OInv, OneObject
      <4> QED
        BY <4>1, <4>2, <4>3 DEF PartIs, OwnMembers
    <3>5. PICK found : found = {i \in 1 .. K : m \in DOMAIN Own(path[i])}
      OBVIOUS
    <3>6. found = {i \in 1 .. K : /\ lineage[path[i][2]] \notin ValueClasses
                                  /\ m \in DOMAIN ClassOf(lineage[path[i][2]]).members
                                  /\ ~ClassOf(lineage[path[i][2]]).members[m].static}
      BY <3>4, <3>5
    <3>7. FirstOn(path, LAMBDA x : /\ lineage[x[2]] \notin ValueClasses
                                   /\ m \in DOMAIN ClassOf(lineage[x[2]]).members
                                   /\ ~ClassOf(lineage[x[2]]).members[m].static) = FirstOf(path, found)
      BY <3>2, <3>6 DEF FirstOn, FirstOf
    <3>8. [i \in DOMAIN parts |-> <<"part", i>>] = path
      BY <2>1, <3>1
    <3> QED
      BY <3>3, <3>5, <3>7, <3>8
  <2> QED
    BY <2>2, <2>3, <2>4 DEF Inherited
<1> QED
  BY <1>1, ObjectAlways, PTL
==============================================================================
