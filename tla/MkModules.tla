------------------------------ MODULE MkModules ------------------------------
(***************************************************************************)
(* A class imports modules and uses them: "import m = M" gives its objects *)
(* a member m with an instance of M, "using m" lets them be asked for the  *)
(* members of m as if they were their own (compile.c, vm.c).               *)
(*                                                                         *)
(* The members of an object are in a hash table, sorted by the addresses   *)
(* of the names; here in a sequence (MkHashTable shows that it is a map).  *)
(* What "using" enters is an alias: the address of the place that a member *)
(* has in the table of the module's instance.                              *)
(*                                                                         *)
(* One class, which derives from Object and has none of its members, and   *)
(* one object of it.  Static members are made by the same code in an       *)
(* instance of their own and are left out.                                 *)
(***************************************************************************)
EXTENDS Integers, Sequences, FiniteSets, SequencesExt

CONSTANTS MemberNames,    \* addresses of the names of members,
          ImportNames,    \* of what modules are imported as; never a member's (bound)
          Super, Owner,   \* and of "super" and "owner"
          Modules,        \* members of each module, a declaration by name
          Declarations,   \* what a class may say of a member
          Values,
          Left,           \* constraints that may be left behind the end of a table
          MaxUsings,      \* bound
          Outside,        \* "this" of a method of another class
          None            \* no import: the object itself

Accesses    == {"public", "protected", "private"}
Constraints == [final : BOOLEAN, read : Accesses]
Inits       == {"none", "value", "method", "raises"}
Names       == MemberNames \cup ImportNames \cup {Super, Owner}

ASSUME MkModulesAssumption ==
  /\ Names \subseteq Int /\ None \notin Names /\ Outside \notin Names \cup {None}
  /\ MemberNames \cap ImportNames = {} /\ Super # Owner
  /\ {Super, Owner} \cap (MemberNames \cup ImportNames) = {}
  /\ Declarations \subseteq [init : Inits, read : Accesses]
  /\ {None, Outside} \cap DOMAIN Modules = {}
  /\ \A m \in DOMAIN Modules : /\ DOMAIN Modules[m] \subseteq MemberNames
                               /\ IsFiniteSet(DOMAIN Modules[m])
                               /\ \A k \in DOMAIN Modules[m] : Modules[m][k] \in Declarations
  /\ Left \subseteq Constraints /\ Left # {}
  /\ MaxUsings \in Nat

VARIABLES phase,
          members,     \* of the class: a declaration or [module], by name
          usings,      \* pClass->usingNames
          own,         \* classTypeValue.variables of the object
          inner,       \* and of its modules' instances, by what they are imported as
          done,        \* the names whose members have been made
          next,        \* <<of usings, of the module's table>>, the next one to enter
          assigned     \* the object's entries that were assigned to (not in the code)
vars == <<phase, members, usings, own, inner, done, next, assigned>>

-----------------------------------------------------------------------------
(* What is in a table.                                                     *)
Null        == [kind |-> "null"]
Item(v)     == [kind |-> "value", value |-> v]
Method      == [kind |-> "method"]
Instance(m) == [kind |-> "module", of |-> m]
Object      == [kind |-> "object"]
Alias(m, i) == [kind |-> "alias", of |-> m, at |-> i]

Entry(k, v, c) == [key |-> k, value |-> v, constraint |-> c]

Has(t, k) == \E i \in DOMAIN t : t[i].key = k
At(t, k)  == CHOOSE i \in DOMAIN t : t[i].key = k

Ascending(t) == \A i, j \in DOMAIN t : i < j => t[i].key < t[j].key

PlaceAtEnd(t, k) == Len(t) + 1
Place(t, k) == Cardinality({i \in DOMAIN t : t[i].key < k}) + 1

(* mk_insert_item_hashtable alone: a new entry has the constraint of the   *)
(* one it moves up, or what was left behind the last.                      *)
Inserted(t, k, v, left) ==
  LET i == Place(t, k) IN
  IF Has(t, k) THEN [t EXCEPT ![At(t, k)].value = v]
  ELSE InsertAt(t, i, Entry(k, v, IF i \in DOMAIN t THEN t[i].constraint ELSE left))

(* And with mk_set_extend_value_hashtable after it.                        *)
Stored(t, k, v, c) ==
  LET u == Inserted(t, k, v, c) IN [u EXCEPT ![At(u, k)].constraint = c]

-----------------------------------------------------------------------------
(* The class (do_compile_import_module, do_compile_using_module).          *)
Builds == UNCHANGED <<own, inner, done, next, assigned>>

Registered(k, d) ==
  [j \in DOMAIN members \cup {k} |-> IF j \in DOMAIN members THEN members[j] ELSE d]

(* A second member of a name is an error.                                  *)
Member ==
  /\ phase = "class"
  /\ \E k \in MemberNames \ DOMAIN members, d \in Declarations : members' = Registered(k, d)
  /\ UNCHANGED <<phase, usings>> /\ Builds

(* A second import of a name has no effect, and nothing is said.           *)
Import ==
  /\ phase = "class"
  /\ \E k \in ImportNames, m \in DOMAIN Modules : members' = Registered(k, [module |-> m])
  /\ UNCHANGED <<phase, usings>> /\ Builds

(* A name that no module is imported as is not refused, but dereferenced;  *)
(* it is left out.                                                         *)
Using ==
  /\ phase = "class" /\ Len(usings) < MaxUsings
  /\ \E k \in ImportNames \cap DOMAIN members : usings' = Append(usings, k)
  /\ UNCHANGED <<phase, members>> /\ Builds

-----------------------------------------------------------------------------
(* The object (mk_object_new, mk_append_variables_to_object).  It has an   *)
(* entry "super", still without a value, before the members are made.      *)
New ==
  /\ phase = "class"
  /\ phase' = "members"
  /\ \E left \in Left : own' = <<Entry(Super, Null, left)>>
  /\ UNCHANGED <<members, usings, inner, done, next, assigned>>

NextMember(k) ==
  /\ phase = "members"
  /\ k \in DOMAIN members \ done
  /\ \A j \in DOMAIN members \ done : k <= j
  /\ done' = done \cup {k}

FirstValue(d) == CASE d.init = "none"   -> {Null}
                   [] d.init = "method" -> {Method}
                   [] OTHER             -> {Item(v) : v \in Values}

AccessOnly(d)   == [final |-> FALSE, read |-> d.read]
ConstraintOf(d) == [final |-> d.init = "method", read |-> d.read]
FinalOnly       == [final |-> TRUE, read |-> "public"]

(* An initial value that raises ends it: there is no object.               *)
Raises == phase' = "failed" /\ UNCHANGED <<own, inner>>

AppendVariable ==
  /\ \E k \in MemberNames :
       /\ NextMember(k)
       /\ IF members[k].init = "raises" THEN Raises
          ELSE /\ \E v \in FirstValue(members[k]) :
                    own' = Stored(own, k, v, ConstraintOf(members[k]))
               /\ UNCHANGED <<phase, inner>>
  /\ UNCHANGED <<members, usings, next, assigned>>

(* The instance of a module has its members and "owner", sorted.           *)
ModuleTables(m) ==
  LET n       == Cardinality(DOMAIN m) + 1
      entries == {Entry(Owner, Object, FinalOnly)} \cup
                   UNION {{Entry(k, v, ConstraintOf(m[k])) : v \in FirstValue(m[k])} : k \in DOMAIN m}
  IN {t \in [1 .. n -> entries] : Ascending(t)}

AppendModule ==
  /\ \E k \in ImportNames :
       /\ NextMember(k)
       /\ LET m == Modules[members[k].module] IN
          IF \E j \in DOMAIN m : m[j].init = "raises" THEN Raises
          ELSE /\ \E t \in ModuleTables(m) :
                    inner' = [j \in DOMAIN inner \cup {k} |-> IF j = k THEN t ELSE inner[j]]
               /\ own' = Stored(own, k, Instance(k), FinalOnly)
               /\ UNCHANGED phase
  /\ UNCHANGED <<members, usings, next, assigned>>

(* mk_append_using_variable: the modules that are used, in the order of    *)
(* the script, and of each all entries but "owner".                        *)
BeginUsing ==
  /\ phase = "members" /\ DOMAIN members = done
  /\ phase' = "using" /\ next' = <<1, 1>>
  /\ UNCHANGED <<members, usings, own, inner, done, assigned>>

AddressByHandle(m, i) == Alias(m, i + 1)
AddressOf(m, i) == Alias(m, i)

Use ==
  /\ phase = "using" /\ next[1] <= Len(usings)
  /\ LET m == usings[next[1]]
         i == next[2]
         k == inner[m][i].key
     IN /\ IF k = Owner THEN UNCHANGED own
           ELSE \E left \in Left : own' = Inserted(own, k, AddressOf(m, i), left)
        /\ next' = IF i < Len(inner[m]) THEN <<next[1], i + 1>> ELSE <<next[1] + 1, 1>>
  /\ UNCHANGED <<phase, members, usings, inner, done, assigned>>

(* The loop in mk_object_new goes on to the part of Object.                *)
EndUsing ==
  /\ phase = "using" /\ next[1] > Len(usings)
  /\ phase' = "run"
  /\ own' = Stored(own, Super, Object, FinalOnly)
  /\ UNCHANGED <<members, usings, inner, done, next, assigned>>

-----------------------------------------------------------------------------
(* The script runs.  x and "this" are the object (None) or one of its      *)
(* modules' instances.                                                     *)
Objects    == DOMAIN inner \cup {None}
TableOf(x) == IF x = None THEN own ELSE inner[x]
EntryOf(x, k) == TableOf(x)[At(TableOf(x), k)]

ClassOf(x) == IF x \in {None, Outside} THEN x ELSE members[x].module

(* mk_vm_find_instance from x: along "owner" of a module.                  *)
IsOfClass(x, c)  == ClassOf(x) = c
IsInstance(x, c) == ClassOf(x) = c \/ (x \in DOMAIN inner /\ c = ClassOf(None))

MayRead(this, x, read) ==
  CASE read = "public"    -> TRUE
    [] read = "protected" -> IsInstance(this, ClassOf(x))
    [] read = "private"   -> ClassOf(this) = ClassOf(x)

(* mk_vm_find_variable: x and, of a module, its owner.  An entry without a *)
(* value is not found.  One alias is followed.                             *)
FindVariable(x, k, this) ==
  LET Holds(y) == Has(TableOf(y), k) /\ EntryOf(y, k).value # Null
      Read(y)  == LET e == EntryOf(y, k) IN
                  IF ~MayRead(this, y, e.constraint.read) THEN Null
                  ELSE IF e.value.kind = "alias" THEN inner[e.value.of][e.value.at].value
                  ELSE e.value
  IN CASE Holds(x)              -> Read(x)
       [] ~Holds(x) /\ Holds(None) -> Read(None)
       [] OTHER                 -> Null

(* mk_vm_find_variable_reference: where x.k = ... assigns to.              *)
FindReference(x, k) == IF Has(TableOf(x), k) THEN {x} ELSE {y \in {None} : Has(own, k)}

(* mk_reference_equal: the entry is replaced, whatever it was.             *)
Assign ==
  /\ phase = "run"
  /\ \E x \in Objects, k \in MemberNames \cup ImportNames, v \in Values :
       \E y \in FindReference(x, k) :
         LET t == Inserted(TableOf(y), k, Item(v), FinalOnly) IN
         /\ ~EntryOf(y, k).constraint.final
         /\ IF y = None
            THEN own' = t /\ assigned' = assigned \cup {k} /\ UNCHANGED inner
            ELSE inner' = [inner EXCEPT ![y] = t] /\ UNCHANGED <<own, assigned>>
  /\ UNCHANGED <<phase, members, usings, done, next>>

Init ==
  /\ phase = "class"
  /\ members = << >> /\ usings = << >> /\ own = << >> /\ inner = << >>
  /\ done = {} /\ next = <<1, 1>> /\ assigned = {}

Next == \/ Member \/ Import \/ Using
        \/ New \/ AppendVariable \/ AppendModule \/ BeginUsing \/ Use \/ EndUsing
        \/ Assign

Spec == Init /\ [][Next]_vars

-----------------------------------------------------------------------------
Contents == {Null, Method, Object} \cup {Item(v) : v \in Values}
              \cup {Instance(m) : m \in ImportNames} \cup [kind : {"alias"}, of : ImportNames, at : Nat]

Entries == [key : Names, value : Contents, constraint : Constraints]

IsTable(t) == t \in Seq(Entries) /\ Ascending(t)

(* Every variable keeps its type, and the tables of the object and of its  *)
(* modules stay sorted (the order hash.c searches by).                     *)
TypeOK ==
  /\ phase \in {"class", "members", "using", "run", "failed"}
  /\ DOMAIN members \subseteq MemberNames \cup ImportNames
  /\ \A k \in DOMAIN members :
       members[k] \in IF k \in MemberNames THEN Declarations ELSE [module : DOMAIN Modules]
  /\ usings \in Seq(ImportNames)
  /\ IsTable(own) /\ \A m \in DOMAIN inner : IsTable(inner[m])
  /\ DOMAIN inner \subseteq DOMAIN members /\ done \subseteq DOMAIN members
  /\ next \in Nat \X Nat /\ assigned \subseteq MemberNames \cup ImportNames

(* An address that "using" entered is that of an entry of the same name in *)
(* a module's table, never of another alias and never of "owner", however  *)
(* the script assigns (vm.c:465 keeps it for the life of the object).      *)
AliasIntact ==
  \A i \in DOMAIN own :
    own[i].value.kind = "alias" =>
      LET v == own[i].value IN
      /\ v.of \in DOMAIN inner /\ v.at \in DOMAIN inner[v.of]
      /\ inner[v.of][v.at].key = own[i].key /\ own[i].key # Owner
      /\ inner[v.of][v.at].value.kind # "alias"

(* What the class says of a member's access is what holds, although its    *)
(* entry moves and "using" may give it another value: the modules' methods *)
(* read it as the class's do unless it is private (vm.c:1189 compares      *)
(* names of classes), other classes' methods only if it is public.         *)
DeclaredAccess ==
  phase = "run" =>
    \A k \in MemberNames \cap DOMAIN members :
      LET value == FindVariable(None, k, None)
          read  == members[k].read
      IN /\ FindVariable(None, k, Outside) = IF read = "public" THEN value ELSE Null
         /\ \A m \in DOMAIN inner :
              ~Has(inner[m], k) => FindVariable(m, k, m) = IF read = "private" THEN Null ELSE value

(* No assignment takes the place of a method, of a module's instance, of   *)
(* "owner" or "super", though entries move up to make room for others      *)
(* after they were given FINAL.                                            *)
MethodsKept ==
  [][phase = "run" =>
       \A x \in Objects, k \in Names :
         Has(TableOf(x), k) /\ EntryOf(x, k).value.kind \in {"method", "module", "object"} =>
           EntryOf(x, k)' = EntryOf(x, k)]_vars

=============================================================================
