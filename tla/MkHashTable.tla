----------------------------- MODULE MkHashTable -----------------------------
(***************************************************************************)
(* A hash table of the heap (hash.c): an array of entries in the order of  *)
(* their keys, searched by halving.  The members of an object and the      *)
(* local variables of a frame are in one.  A key is the address of an      *)
(* interned name, a value an item; the entry's second extended value holds *)
(* the constraints of the variable, of which "final" refuses assignment.   *)
(*                                                                         *)
(* A table lives many times: once swept it is handed out again, with the   *)
(* array it had.  Only "used" is reset, so behind it lie old entries.      *)
(*                                                                         *)
(* A search takes a step per comparison, everything after it is one step.  *)
(***************************************************************************)
EXTENDS Integers

CONSTANTS Keys,          \* addresses of names
          Super,         \* that of "super"
          Values,
          DefaultSize,   \* MK_SIZEOF_HASH_DEFAULT (16)
          Extend,        \* MK_SIZEOF_EXTEND_HASH_DEFAULT (16)
          IntWidth,      \* bits of an int (32)
          Fresh,         \* the constraints fresh memory may seem to hold
          Absent, None

(* A comparison copies the entry's key into an int.                        *)
AsInt(k) == ((k + 2 ^ (IntWidth - 1)) % 2 ^ IntWidth) - 2 ^ (IntWidth - 1)

Constraints == {"free", "final"}

(* The addresses have the width of an int, as in the Win32 project.        *)
ASSUME MkHashTableAssumption ==
  /\ Keys \subseteq Int /\ Super \in Keys
  /\ \A k \in Keys : AsInt(k) = k
  /\ DefaultSize \in Nat \ {0} /\ Extend \in Nat \ {0}
  /\ Fresh \subseteq Constraints /\ Fresh # {}
  /\ Absent \notin Values
  /\ Absent \notin Keys

VARIABLES life,       \* what the table serves
          size, used,
          elems,      \* 0 .. size - 1 to entries
          request,    \* the call that is searching, or None
          low, high,  \* its bounds
          answer,     \* the value the last search returned
          reference,  \* the left of an assignment that waits for its right
          declared    \* the constraint each key was declared with (not in the code)
vars == <<life, size, used, elems, request, low, high, answer, reference, declared>>

(* "part": an object whose "super" is there and has no value yet.          *)
Lives   == {"free", "object", "part", "parameters", "frame"}
Bare    == {"parameter", "reserve", "alias", "assign"}   \* say nothing of a constraint
Writes  == {"declare"} \cup Bare
Entries == [key : Keys \cup {Absent}, value : Values \cup {Absent}, constraint : Constraints]
Requests ==
  [op : {"declare"}, key : Keys, value : Values, constraint : Constraints]
  \cup [op : Bare, key : Keys, value : Values, constraint : {"free"}]
  \cup [op : {"find", "refer"}, key : Keys, value : {Absent}, constraint : {"free"}]

ASSUME NoneAssumption == None \notin Requests \cup [key : Keys, final : BOOLEAN]

TypeOK ==
  /\ life \in Lives
  /\ size \in Nat /\ used \in 0 .. size
  /\ elems \in [0 .. size - 1 -> Entries]
  /\ request \in Requests \cup {None}
  /\ low \in 0 .. used /\ high \in -1 .. used - 1
  /\ answer \in Values \cup {Absent}
  /\ reference \in [key : Keys, final : BOOLEAN] \cup {None}
  /\ declared \in [Keys -> Constraints \cup {"no"}]

-----------------------------------------------------------------------------
Uninitialised(c) == [key |-> Absent, value |-> Absent, constraint |-> c]

(* The value of a key, as a reader of the array would say.                 *)
Has(k) == \E i \in 0 .. used - 1 : elems[i].key = k
ValueOf(k) == IF Has(k) THEN elems[CHOOSE i \in 0 .. used - 1 : elems[i].key = k].value
                        ELSE Absent

(* mk_allocate_vm_managed_hashtable: the array is kept unless it has grown *)
(* or there is none yet.                                                   *)
Allocate ==
  /\ life = "free"
  /\ life' \in Lives \ {"free", "part"}
  /\ IF size = DefaultSize
       THEN UNCHANGED <<size, elems>>
       ELSE /\ size' = DefaultSize
            /\ \E c \in [0 .. DefaultSize - 1 -> Fresh] :
                 elems' = [i \in 0 .. DefaultSize - 1 |-> Uninitialised(c[i])]
  /\ used' = 0
  /\ UNCHANGED <<request, low, high, answer, reference, declared>>

(* The sweep (mk_gc.c): the array stays.                                   *)
Sweep ==
  /\ life # "free" /\ request = None /\ reference = None
  /\ life' = "free"
  /\ used' = 0
  /\ declared' = [k \in Keys |-> "no"]
  /\ low' = 0 /\ high' = -1
  /\ UNCHANGED <<size, elems, request, answer, reference>>

-----------------------------------------------------------------------------
(* What the callers ask for.                                               *)

(* A parameter is stored when the frame is made, before any other variable *)
(* of it (mk_mk_method_call).                                              *)
Parameter(r) == life = "parameters" /\ ~Has(r.key)

(* A name that is declared has been looked up before, but for "super" of   *)
(* an object: mk_object_new enters it first, without a value, ...          *)
Reserve(r) == life = "object" /\ used = 0 /\ r.key = Super

(* ... and again when the part above has been made and no initial value is *)
(* being evaluated.                                                        *)
CompletesSuper(r) == life = "part" /\ r.op = "declare" /\ r.key = Super

Declare(r) == /\ Has(r.key) => CompletesSuper(r)
              /\ CompletesSuper(r) => r.constraint = "final" /\ reference = None
              /\ r.constraint = "final" => life \in {"object", "part"}

(* mk_append_using_variable enters the names of a module, there or not,    *)
(* final or not, once the object has its own.                              *)
UseModule(r) == life \in {"object", "part"} /\ r.key # Super /\ reference = None

(* An assignment goes by the key it was given when its left was evaluated. *)
AssignUnchecked(r) == reference # None /\ reference.key = r.key

Assign(r) == reference # None /\ reference.key = r.key /\ ~reference.final

SearchesPastUsed(r) == request' = r /\ low' = 0 /\ high' = used

Searches(r) == request' = r /\ low' = 0 /\ high' = used - 1

LifeAfter(r) == CASE r.op = "reserve"                             -> "part"
                  [] CompletesSuper(r)                            -> "object"
                  [] life = "parameters" /\ r.op # "parameter"    -> "frame"
                  [] OTHER                                        -> life

Ask(r) ==
  /\ life # "free" /\ request = None
  /\ r.op = "parameter" => Parameter(r)
  /\ r.op = "reserve"   => Reserve(r)
  /\ r.op = "declare"   => Declare(r)
  /\ r.op = "alias"     => UseModule(r)
  /\ r.op = "refer"     => reference = None
  /\ r.op = "assign"    => Assign(r)
  /\ Searches(r)
  /\ life' = LifeAfter(r)
  /\ UNCHANGED <<size, used, elems, answer, reference, declared>>

(* mk_reference_equal refuses a final variable with an error.              *)
Refused ==
  /\ reference # None /\ reference.final /\ request = None
  /\ reference' = None
  /\ UNCHANGED <<life, size, used, elems, request, low, high, answer, declared>>

(* One turn of the loop that all four searches have.                       *)
Mid == (low + high) \div 2
Searching == request # None /\ low <= high

BoundsWithMid == IF AsInt(elems[Mid].key) < request.key THEN <<Mid, high>> ELSE <<low, Mid>>

BoundsSkippingOne ==
  IF AsInt(elems[Mid].key) < request.key THEN <<Mid + 1, high>> ELSE <<low, Mid - 2>>

Bounds == IF AsInt(elems[Mid].key) < request.key THEN <<Mid + 1, high>> ELSE <<low, Mid - 1>>

Compare ==
  /\ Searching /\ AsInt(elems[Mid].key) # request.key
  /\ low' = Bounds[1] /\ high' = Bounds[2]
  /\ UNCHANGED <<life, size, used, elems, request, answer, reference, declared>>

Hit == Searching /\ AsInt(elems[Mid].key) = request.key
Miss == request # None /\ low > high

Ends == request' = None /\ low' = 0 /\ high' = -1

-----------------------------------------------------------------------------
(* What a caller that declares does after (mk_set_extend_value_hashtable); *)
(* the others leave what the entry held.                                   *)
ConstraintOf(r, old) == IF r.op = "declare" THEN r.constraint ELSE old.constraint

Written(before, at, r) ==
  [before EXCEPT ![at] = [key |-> r.key, value |-> r.value, constraint |-> ConstraintOf(r, before[at])]]

Stored ==
  /\ request.op \in Writes
  /\ declared' = IF request.op = "declare"
                 THEN [declared EXCEPT ![request.key] = request.constraint] ELSE declared
  /\ reference' = IF request.op = "assign" THEN None ELSE reference
  /\ Ends
  /\ UNCHANGED <<life, answer>>

(* mk_insert_item_hashtable for a key that is there: its value changes.    *)
Replace ==
  /\ Hit /\ Stored
  /\ elems' = Written(elems, Mid, request)
  /\ UNCHANGED <<size, used>>

(* And for one that is not: room is made, the entries from the position on *)
(* move up, the key and the value are written.                             *)
Grown(c) == [i \in 0 .. size + Extend - 1 |-> IF i < size THEN elems[i] ELSE Uninitialised(c[i])]

WithoutMoving(before, at) == before

MovedWithoutConstraints(before, at) ==
  [i \in DOMAIN before |->
     IF at < i /\ at < used THEN [before[i - 1] EXCEPT !.constraint = before[i].constraint]
     ELSE before[i]]

MovedUp(before, at) ==
  [i \in DOMAIN before |-> IF at < i /\ at < used THEN before[i - 1] ELSE before[i]]

Insert ==
  /\ Miss /\ Stored
  /\ IF used = size
       THEN /\ size' = size + Extend
            /\ \E c \in [size .. size + Extend - 1 -> Fresh] :
                 elems' = Written(MovedUp(Grown(c), low), low, request)
       ELSE /\ elems' = Written(MovedUp(elems, low), low, request)
            /\ UNCHANGED size
  /\ used' = used + 1

(* mk_find_item_hashtable, and what a caller makes of it for the left of   *)
(* an assignment: a reference, which is final if the constraints say so.   *)
Find ==
  /\ \/ /\ Hit /\ request.op = "find"
        /\ UNCHANGED reference
     \/ /\ Hit /\ request.op = "refer"
        /\ reference' = [key |-> request.key, final |-> elems[Mid].constraint = "final"]
  /\ answer' = elems[Mid].value
  /\ Ends
  /\ UNCHANGED <<life, size, used, elems, declared>>

FindFails ==
  /\ Miss /\ request.op \in {"find", "refer"}
  /\ answer' = Absent
  /\ Ends
  /\ UNCHANGED <<life, size, used, elems, reference, declared>>

-----------------------------------------------------------------------------
Init ==
  /\ life = "free"
  /\ size = 0 /\ used = 0
  /\ elems = [i \in {} |-> Uninitialised("free")]
  /\ request = None
  /\ low = 0 /\ high = -1
  /\ answer = Absent
  /\ reference = None
  /\ declared = [k \in Keys |-> "no"]

Next ==
  \/ Allocate \/ Sweep \/ (\E r \in Requests : Ask(r)) \/ Refused
  \/ Compare \/ Replace \/ Insert \/ Find \/ FindFails

Spec == Init /\ [][Next]_vars

(* A search runs to its end: the interpreter has one thread.               *)
Search == Compare \/ Replace \/ Insert \/ Find \/ FindFails
FairSpec == Spec /\ WF_vars(Search)

-----------------------------------------------------------------------------
(***************************************************************************)
(* What the table must keep.                                               *)
(***************************************************************************)
(* The entries are in strictly ascending order, whatever was inserted and  *)
(* wherever the array grew: no name is there twice.                        *)
Sorted == \A i, j \in 0 .. used - 1 : i < j => elems[i].key < elems[j].key

(* The array and its searches are an implementation of a dictionary: a     *)
(* search finds the value last stored, or nothing if none was.             *)
Dict == INSTANCE Dictionary WITH map <- [k \in Keys |-> ValueOf(k)]
ImplementsDictionary == Dict!Spec

(* Every search ends.                                                      *)
SearchEnds == request # None ~> request = None

(* What a variable was declared to allow is what its entry says for as     *)
(* long as the table lives, however the entry is moved and whatever is     *)
(* stored there; only a name that no caller declared (a parameter, an      *)
(* alias) has the constraint some other entry left behind.                 *)
DeclaredKept ==
  \A k \in Keys : declared[k] # "no" =>
    \E i \in 0 .. used - 1 : elems[i].key = k /\ elems[i].constraint = declared[k]

(* No assignment, parameter or declaration takes the place of a final      *)
(* variable's value.  "using" does: its alias is entered over it.          *)
FinalKept ==
  [][\A k \in Keys : declared[k] = "final" /\ declared'[k] = "final" /\ ValueOf(k)' # ValueOf(k)
                       => request.op = "alias"]_vars
=============================================================================
