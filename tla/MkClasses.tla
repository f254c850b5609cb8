------------------------------ MODULE MkClasses ------------------------------
(***************************************************************************)
(* Classes, from the names in a script to the objects made of them: where  *)
(* names are kept (node.c), what the compiler registers (compile.c), the   *)
(* static instances linked after it (link.c), the parts of an object       *)
(* (classObject.c) and how a member is looked up along them (vm.c).        *)
(*                                                                         *)
(* Names are kept once and compared by their address.  vm->code->classes   *)
(* is sorted by it, so it is also the order in which classes are linked    *)
(* and initial values evaluated.                                           *)
(*                                                                         *)
(* Left out: import and using, operators, and what internal classes        *)
(* declare.  The calls that initial values make are abstracted to the one  *)
(* class they need.                                                        *)
(***************************************************************************)
EXTENDS Integers, Sequences, FiniteSets

CONSTANTS Internals,     \* internal classes [name, super], as they are registered
          ValueClasses,  \* of these, the ones whose objects have no members
          ScriptNames,   \* what a script calls its classes and modules
          MemberNames,
          Declared,      \* bound: the class names a script has after "class"
          Declarations,  \* bound: [static, init, access], what is said of members
          None,          \* NULL
          BlockNames,    \* names in a block of the memory pool
          MaxBlocks,     \* bound
          MaxLines       \* bound: lines of a script, each "end" not counted

InternalNames == {Internals[i].name : i \in DOMAIN Internals}
ClassNames    == InternalNames \cup ScriptNames
Names         == ClassNames \cup MemberNames

(* An initial value: there is none, it is one that cannot fail, it calls a *)
(* class; or the member is a method.                                       *)
Inits == {"none", "value", "method"} \cup ScriptNames

Accesses == {"public", "protected", "private"}

ASSUME MkClassesAssumption ==
  /\ Internals \in Seq([name : InternalNames, super : InternalNames \cup {None}])
  /\ \A i \in DOMAIN Internals :
       /\ Internals[i].super # None => \E j \in 1 .. i - 1 : Internals[j].name = Internals[i].super
       /\ \A j \in 1 .. i - 1 : Internals[j].name # Internals[i].name
  /\ {"Object", "Kernel"} \subseteq InternalNames
  /\ ValueClasses \subseteq InternalNames \ {"Object", "Kernel"}
  /\ ScriptNames \cap InternalNames = {} /\ MemberNames \cap ClassNames = {}
  /\ {"none", "value", "method"} \cap ScriptNames = {}
  /\ None \notin Names
  /\ Declared \subseteq ClassNames
  /\ Declarations \subseteq [static : BOOLEAN, init : Inits, access : Accesses]
  /\ BlockNames \in Nat \ {0} /\ MaxBlocks \in Nat \ {0} /\ MaxLines \in Nat

VARIABLES pool,      \* vm->memoryPool and the addresses of the names in it
          classes,   \* vm->code->classes, in the order of registration
          phase,
          open,      \* the class whose body is compiled, or None
          lines,     \* lines of the script so far
          global,    \* vm->global: the static instances
          linked,    \* the classes an enumeration has been at
          parts,     \* the parts of an object, the most derived class first
          building   \* the class of its next part, or None
vars == <<pool, classes, phase, open, lines, global, linked, parts, building>>

Empty == [x \in {} |-> None]
Extend(f, x, v) == [y \in DOMAIN f \cup {x} |-> IF y = x THEN v ELSE f[y]]

-----------------------------------------------------------------------------
(* Names (mk_get_symbol_name_ptr, mk_allocate_memory_pool).  The blocks    *)
(* come from malloc, which gives them any free place.                      *)
PlaceForAll(p, n, b, offset) ==
  [addr |-> Extend(p.addr, n, [block |-> b, offset |-> offset]), block |-> b, next |-> offset]

Place(p, n, b, offset) ==
  [addr |-> Extend(p.addr, n, [block |-> b, offset |-> offset]), block |-> b, next |-> offset + 1]

FreeBlocks(p) ==
  {b \in 0 .. MaxBlocks - 1 :       \* bound: when none is left, nothing happens
     b # p.block /\ \A n \in DOMAIN p.addr : p.addr[n].block # b}

InternPastBlock(p, n) ==
  IF n = None \/ n \in DOMAIN p.addr THEN {p}
  ELSE IF p.next <= BlockNames THEN {Place(p, n, p.block, p.next)}
  ELSE {Place(p, n, b, 0) : b \in FreeBlocks(p)}

Intern(p, n) ==
  IF n = None \/ n \in DOMAIN p.addr THEN {p}
  ELSE IF p.next < BlockNames THEN {Place(p, n, p.block, p.next)}
  ELSE {Place(p, n, b, 0) : b \in FreeBlocks(p)}

InternBoth(m, n) == \E p \in Intern(pool, m) : pool' \in Intern(p, n)

Before(m, n) ==
  LET a == pool.addr[m]
      b == pool.addr[n]
  IN a.block < b.block \/ (a.block = b.block /\ a.offset < b.offset)

-----------------------------------------------------------------------------
(* Classes (mk_register_class, mk_register_variable).                      *)
NewClass(n, super, module) ==
  [name |-> n, super |-> super, module |-> module, members |-> Empty]

Registered == {classes[i].name : i \in DOMAIN classes}
ClassOf(n) == classes[CHOOSE i \in DOMAIN classes : classes[i].name = n]

RegistersUnchecked(c) == c.name \notin Registered

Registers(c) ==
  /\ c.name \notin Registered
  /\ c.super # None => c.super \in Registered

Declares(c, m, d) == [c EXCEPT !.members = Extend(@, m, d)]

(* A line of the script, inside a class or not.                            *)
Line ==
  /\ phase = "script"
  /\ lines < MaxLines                \* bound
  /\ lines' = lines + 1

NothingRuns == UNCHANGED <<global, linked, parts, building>>
Fails == phase' = "failed" /\ UNCHANGED <<classes, open>>

RegisterInternal ==
  /\ phase = "internal" /\ Len(classes) < Len(Internals)
  /\ LET c == Internals[Len(classes) + 1] IN
       /\ InternBoth(c.name, c.super)
       /\ classes' = Append(classes, NewClass(c.name, c.super, FALSE))
  /\ UNCHANGED <<phase, open, lines>> /\ NothingRuns

(* A statement or the body of a method names a class.                      *)
Mention ==
  /\ Line
  /\ \E n \in ScriptNames : pool' \in Intern(pool, n)
  /\ UNCHANGED <<classes, phase, open>> /\ NothingRuns

(* "class n : super", "module n".                                          *)
ClassLine ==
  /\ Line /\ open = None
  /\ \E n \in Declared :
       \/ \E super \in ClassNames :
            /\ InternBoth(n, super)
            /\ open' = NewClass(n, super, FALSE)
       \/ /\ pool' \in Intern(pool, n)
          /\ open' = NewClass(n, None, TRUE)
  /\ UNCHANGED <<classes, phase>> /\ NothingRuns

Needs(d) == IF d.init \in ScriptNames THEN d.init ELSE None

MemberLine ==
  /\ Line /\ open # None
  /\ \E m \in MemberNames, d \in Declarations :
       /\ InternBoth(m, Needs(d))
       /\ IF m \in DOMAIN open.members
            THEN Fails
            ELSE open' = Declares(open, m, d) /\ UNCHANGED <<classes, phase>>
  /\ NothingRuns

EndLine ==
  /\ phase = "script" /\ open # None
  /\ IF Registers(open)
       THEN classes' = Append(classes, open) /\ open' = None /\ UNCHANGED phase
       ELSE Fails
  /\ UNCHANGED <<pool, lines>> /\ NothingRuns

(* "def" and "class.@@" outside of classes: static members of Kernel.      *)
RootLine ==
  /\ Line /\ open = None
  /\ \E m \in MemberNames, d \in Declarations, i \in DOMAIN classes :
       /\ d.static /\ classes[i].name = "Kernel"
       /\ InternBoth(m, Needs(d))
       /\ IF m \in DOMAIN classes[i].members
            THEN Fails
            ELSE classes' = [classes EXCEPT ![i] = Declares(@, m, d)] /\ UNCHANGED <<open, phase>>
  /\ NothingRuns

(* Anything else that cannot be compiled.                                  *)
BadLine == Line /\ Fails /\ UNCHANGED pool /\ NothingRuns

-----------------------------------------------------------------------------
(* Linking (mk_link_register_class_static_instance), once after the        *)
(* internal classes and once after the script.                             *)
BeginLink ==
  /\ \/ phase = "internal" /\ Len(classes) = Len(Internals) /\ phase' = "linkInternal"
     \/ phase = "script" /\ open = None /\ phase' = "linkScript"
  /\ linked' = {}
  /\ UNCHANGED <<pool, classes, open, lines, global, parts, building>>

(* mk_vm_initialize_object_variables: in the order of addresses, and not   *)
(* beyond an initial value that raises because its class is not there.     *)
Fresh(c, own, static) ==
  {m \in DOMAIN c.members : c.members[m].static = static /\ m \notin DOMAIN own}

RaisesIn(present, c, m) == Needs(c.members[m]) \notin present \cup {None}

ReachedPastRaise(present, c, own, static) ==
  {m \in Fresh(c, own, static) : ~RaisesIn(present, c, m)}

Reached(present, c, own, static) ==
  {m \in Fresh(c, own, static) :
     \A k \in Fresh(c, own, static) : k = m \/ Before(k, m) => ~RaisesIn(present, c, k)}

Entry(d) == [state |-> CASE d.init = "none" -> "unset"
                         [] d.init = "method" -> "method"
                         [] OTHER -> "set",
             access |-> d.access]

Initialized(present, c, own, static) ==
  LET new == Reached(present, c, own, static) IN
  [m \in DOMAIN own \cup new |-> IF m \in DOMAIN own THEN own[m] ELSE Entry(c.members[m])]

(* up is the entry "super" of a class or "owner" of a module.              *)
UpOf(c) == IF c.module THEN "Object" ELSE c.super

UpAlways(c) == UpOf(c)

UpWhenLinked(c) == IF UpOf(c) \in DOMAIN global THEN UpOf(c) ELSE None

(* register_class_static_instance, whose result is not looked at.          *)
Link ==
  /\ phase \in {"linkInternal", "linkScript"}
  /\ \E i \in DOMAIN classes : LET c == classes[i]
                                  present == DOMAIN global \cup {c.name}
                                  static == IF c.name \in DOMAIN global THEN global[c.name]
                                            ELSE [up |-> UpWhenLinked(c), own |-> Empty]
     IN
       /\ c.name \notin linked
       /\ \A n \in Registered \ linked : ~Before(n, c.name)
       /\ linked' = linked \cup {c.name}
       /\ global' = Extend(global, c.name,
                           [static EXCEPT !.own = Initialized(present, c, @, TRUE)])
  /\ UNCHANGED <<pool, classes, phase, open, lines, parts, building>>

EndLink ==
  /\ Registered \subseteq linked
  /\ \/ phase = "linkInternal" /\ phase' = "script"
     \/ phase = "linkScript" /\ phase' = "run"
  /\ UNCHANGED <<pool, classes, open, lines, global, linked, parts, building>>

-----------------------------------------------------------------------------
(* Objects (mk_object_new): a part for each class up to Object, a value    *)
(* class or a module; each is entered as "super" of the one before.        *)
Part(n, child, own) == [class |-> n, up |-> 0, child |-> child, own |-> own]

New ==
  /\ phase = "run" /\ building = None
  /\ parts = <<>>                    \* bound: one object
  /\ \E n \in DOMAIN global : ~ClassOf(n).module /\ building' = n
  /\ UNCHANGED <<pool, classes, phase, open, lines, global, linked, parts>>

UpOfTheFirst(n) == IF n = 1 THEN parts ELSE [parts EXCEPT ![1].up = n]

UpOfTheLast(n) == IF n = 1 THEN parts ELSE [parts EXCEPT ![n - 1].up = n]

NewPart ==
  LET n == Len(parts) + 1
      c == ClassOf(building)
      raises == \E m \in Fresh(c, Empty, FALSE) : RaisesIn(DOMAIN global, c, m)
  IN
  /\ building # None
  /\ \/ /\ building \in ValueClasses
        /\ parts' = Append(UpOfTheLast(n), Part(building, 0, Empty))
        /\ building' = None
     \/ /\ building \notin ValueClasses /\ raises
        /\ parts' = <<>> /\ building' = None
     \/ /\ building \notin ValueClasses /\ ~raises
        /\ parts' = Append(UpOfTheLast(n),
                           Part(building, n - 1, Initialized(DOMAIN global, c, Empty, FALSE)))
        /\ building' = c.super
  /\ UNCHANGED <<pool, classes, phase, open, lines, global, linked>>

-----------------------------------------------------------------------------
(* Lookup.  A static instance or a part of the object is an item.          *)
Items == {<<"static", n>> : n \in DOMAIN global} \cup {<<"part", i>> : i \in DOMAIN parts}

IsPart(x)    == x[1] = "part"
ClassName(x) == IF IsPart(x) THEN parts[x[2]].class ELSE x[2]
Own(x)       == IF IsPart(x) THEN parts[x[2]].own ELSE global[x[2]].own
Up(x) == IF IsPart(x) THEN (IF parts[x[2]].up = 0 THEN <<>> ELSE <<<<"part", parts[x[2]].up>>>>)
         ELSE IF global[x[2]].up = None THEN <<>> ELSE <<<<"static", global[x[2]].up>>>>

(* The items from x on, along super and owner.                             *)
Path(x) ==
  LET p[n \in 0 .. Len(classes)] ==
        IF n = 0 THEN <<x>>
        ELSE LET q == p[n - 1] IN q \o (IF Len(q) = n THEN Up(q[n]) ELSE <<>>)
  IN p[Len(classes)]

(* The first item that passes the test, or <<>>.                           *)
FirstOn(path, Test(_)) ==
  LET found == {i \in DOMAIN path : Test(path[i])}
  IN IF found = {} THEN <<>> ELSE path[CHOOSE i \in found : \A j \in found : i <= j]

(* mk_vm_find_instance.  The static instance of a value class is no value. *)
FindAbove(x, n) == FirstOn(Tail(Path(x)), LAMBDA y : ClassName(y) = n)

FindInstance(x, n) ==
  FirstOn(Path(x), LAMBDA y : ClassName(y) = n /\ (n \in ValueClasses => IsPart(y)))

(* mk_vm_find_variable_reference: the first entry, whatever is in it.      *)
FindVariableReference(x, m) == FirstOn(Path(x), LAMBDA y : m \in DOMAIN Own(y))

(* mk_vm_find_variable: the first entry with a value, if code of "this"    *)
(* may read it.                                                            *)
FindVariable(this, x, m) ==
  LET y == FirstOn(Path(x), LAMBDA z : m \in DOMAIN Own(z) /\ Own(z)[m].state # "unset")
      may == CASE Own(y)[m].access = "public" -> TRUE
               [] Own(y)[m].access = "protected" -> FindInstance(this, ClassName(y)) # <<>>
               [] Own(y)[m].access = "private" -> ClassName(this) = ClassName(y)
  IN IF y # <<>> /\ may THEN y ELSE <<>>

(* "x.@m = v"; a method is final.                                          *)
Assign ==
  /\ phase = "run" /\ building = None
  /\ parts # <<>>                    \* bound: the object is made first
  /\ \E x \in Items, m \in MemberNames :
       LET y == FindVariableReference(x, m) IN
       /\ y # <<>> /\ Own(y)[m].state = "unset"
       /\ IF IsPart(y)
            THEN /\ parts' = [parts EXCEPT ![y[2]].own[m].state = "set"]
                 /\ UNCHANGED global
            ELSE /\ global' = [global EXCEPT ![y[2]].own[m].state = "set"]
                 /\ UNCHANGED parts
  /\ UNCHANGED <<pool, classes, phase, open, lines, linked, building>>

-----------------------------------------------------------------------------
Init ==
  /\ \E b \in 0 .. MaxBlocks - 1 : pool = [addr |-> Empty, block |-> b, next |-> 0]
  /\ classes = <<>>
  /\ phase = "internal"
  /\ open = None /\ lines = 0
  /\ global = Empty /\ linked = {}
  /\ parts = <<>> /\ building = None

Next ==
  \/ RegisterInternal \/ Mention \/ ClassLine \/ MemberLine \/ EndLine \/ RootLine \/ BadLine
  \/ BeginLink \/ Link \/ EndLink
  \/ New \/ NewPart \/ Assign

Spec == Init /\ [][Next]_vars

-----------------------------------------------------------------------------
(***************************************************************************)
(* What must hold.                                                         *)
(***************************************************************************)
IsPartial(f, S, T) == DOMAIN f \subseteq S /\ f \in [DOMAIN f -> T]

Addresses == [block : 0 .. MaxBlocks - 1, offset : 0 .. BlockNames - 1]
Entries   == [state : {"unset", "set", "method"}, access : Accesses]

Partial(S, T) == UNION {[D -> T] : D \in SUBSET S}

Classes == [name : ClassNames, super : ClassNames \cup {None}, module : BOOLEAN,
            members : Partial(MemberNames, Declarations)]
Parts   == [class : ClassNames, up : Nat, child : Nat, own : Partial(MemberNames, Entries)]

TypeOK ==
  /\ pool.block \in 0 .. MaxBlocks - 1 /\ pool.next \in 0 .. BlockNames
  /\ IsPartial(pool.addr, Names, Addresses)
  /\ classes \in Seq(Classes)
  /\ phase \in {"internal", "linkInternal", "script", "linkScript", "run", "failed"}
  /\ open \in Classes \cup {None}
  /\ lines \in 0 .. MaxLines
  /\ linked \subseteq Registered
  /\ DOMAIN global \subseteq Registered
  /\ IsPartial(global, ClassNames, [up : DOMAIN global \cup {None}, own : Partial(MemberNames, Entries)])
  /\ parts \in Seq(Parts)
  /\ \A i \in DOMAIN parts : /\ parts[i].class \in Registered
                             /\ parts[i].up <= Len(parts) /\ parts[i].child < i
  /\ building \in DOMAIN global \cup {None}

(* Different names have different addresses, and every name a class or a   *)
(* member goes by has one: names may be compared by their addresses.       *)
Interned ==
  /\ \A m, n \in DOMAIN pool.addr : m # n => pool.addr[m] # pool.addr[n]
  /\ \A i \in DOMAIN classes :
       {classes[i].name, classes[i].super} \cup DOMAIN classes[i].members
         \subseteq DOMAIN pool.addr \cup {None}

(* No name is registered twice, and the superclass of a class has been     *)
(* registered before it: every walk along the superclasses ends.           *)
Hierarchy ==
  \A i \in DOMAIN classes :
    /\ \A j \in 1 .. i - 1 : classes[j].name # classes[i].name
    /\ classes[i].super # None => \E j \in 1 .. i - 1 : classes[j].name = classes[i].super

(* src/wiki.doc/class.txt:17-20: a superclass has been defined where it is *)
(* named, and a class's static instance, initial values included, is made  *)
(* where the class is declared.  So an instance has its superclass's, with *)
(* what that declares, from the moment it is there.                        *)
SuperInstanceFirst ==
  \A i \in DOMAIN classes : LET c == classes[i] IN
    c.super # None /\ c.name \in DOMAIN global => global[c.name].up = c.super

(* After linking a static instance has the static members of its class,    *)
(* those the script added to Kernel later included; after an initial value *)
(* that calls a class linked later, or never, it has those before it.      *)
StaticMembers ==
  phase = "run" => \A n \in Registered :
    LET members == ClassOf(n).members
        static  == {m \in DOMAIN members : members[m].static}
        raises(m) == LET d == Needs(members[m]) IN
                     d # None /\ (d \in Registered => Before(n, d))
    IN DOMAIN global[n].own = {m \in static : \A k \in static : k = m \/ Before(k, m) => ~raises(k)}

(* The superclasses of a class, as it was registered, that objects of it   *)
(* have parts for.                                                         *)
Lineage(n) ==
  LET l[k \in 1 .. Len(classes)] ==
        IF k = 1 THEN <<n>>
        ELSE LET q == l[k - 1]
                 last == q[Len(q)]
             IN IF last \in ValueClasses \/ ClassOf(last).super = None THEN q
                ELSE Append(q, ClassOf(last).super)
  IN l[Len(classes)]

(* An object has a part for each class of its lineage, in that order, from *)
(* each the way down to the most derived one; a member is found in the     *)
(* part of the nearest class that declares it.                             *)
Inherited ==
  parts # <<>> /\ building = None =>
    LET lineage == Lineage(parts[1].class)
        declares(i, m) == /\ lineage[i] \notin ValueClasses
                          /\ m \in DOMAIN ClassOf(lineage[i]).members
                          /\ ~ClassOf(lineage[i]).members[m].static
    IN /\ [i \in DOMAIN parts |-> parts[i].class] = lineage
       /\ \A i \in DOMAIN parts : parts[i].class \notin ValueClasses => parts[i].child = i - 1
       /\ \A m \in MemberNames :
            FindVariableReference(<<"part", 1>>, m) =
              FirstOn([i \in DOMAIN parts |-> <<"part", i>>], LAMBDA x : declares(x[2], m))

(* Code of a class reads the members it declares or inherits that have a   *)
(* value, but for those that are private to a superclass.                  *)
ReadableByHeirs ==
  \A x \in Items, m \in MemberNames :
    LET y == FindVariableReference(x, m) IN
    y # <<>> /\ Own(y)[m].state # "unset" =>
      (FindVariable(x, x, m) = y <=> Own(y)[m].access # "private" \/ ClassName(x) = ClassName(y))
=============================================================================
