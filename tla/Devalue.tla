------------------------------ MODULE Devalue -------------------------------
(***************************************************************************)
(* How the server writes a value into an answer and how the other side     *)
(* reads it back: stringify and parse (chunks/utils.js), the flat list of   *)
(* a data or action answer, and uneval (chunks/uneval.js), the program it   *)
(* inlines in a script.  A value is a graph: things that hold one another,  *)
(* shared and in circles.  Primitives are Leaves, except undefined and the  *)
(* hole of an array, which are written as codes of their own.               *)
(*                                                                          *)
(* Keys of objects are their positions.  "Date" stands for every type whose *)
(* text is all there is to it (dates, expressions, addresses, times), "View" *)
(* for the typed arrays, "Part" for one on a part of its buffer.  Not        *)
(* modelled: data views, and the custom encoders, of which this application  *)
(* has none.                                                                 *)
(***************************************************************************)
EXTENDS Integers, FiniteSets, SequencesExt

CONSTANTS Nodes,       \* the things of a value
          Buffers,     \* those that are array buffers
          Leaves,      \* its primitives
          Undefined, Hole,
          Sizes,       \* bounds: how many items each thing may have
          SparseLengths \* bound: the lengths of arrays with a single item

ASSUME DevalueAssumption ==
  /\ IsFiniteSet(Nodes) /\ Nodes \subseteq Nat /\ Buffers \subseteq Nodes
  /\ Sizes \subseteq [Nodes -> Nat] /\ SparseLengths \subseteq 2..99

VARIABLES thing, root,  \* the value
          phase,        \* value, sent, received, inlined, evaluated
          wire,         \* the parsed JSON: a code, or a list from 0
          program,      \* what uneval returned
          got           \* the value on the other side: its things and its root

vars == <<thing, root, phase, wire, program, got>>

-----------------------------------------------------------------------------
(* Values.  A map's items are its keys and values in turn, a boxed          *)
(* primitive's the primitive, a view's its buffer, those of a date or a     *)
(* buffer what is in it; "null" is an object without a prototype.           *)

Refs == Nodes \cup Leaves \cup {Undefined}
Lists(S, size) == UNION {[1..n -> S] : n \in 0..size}

Sparsely ==
  UNION {{[i \in 1..length |-> IF i = k THEN ref ELSE Hole] : k \in {1, 2, length}, ref \in Refs} :
           length \in SparseLengths}

ItemsOf(type, size) ==
  CASE type = "Array" -> Lists(Refs \cup {Hole}, size) \cup Sparsely
    [] type \in {"Object", "null"} -> Lists(Refs, size)
    [] type = "Set" -> {items \in Lists(Refs, size) : IsInjective(items)}
    [] type = "Map" -> {items \in Lists(Refs, size) : Len(items) \in {0, 2}}
    [] type \in {"View", "Part"} -> {<<buffer>> : buffer \in Buffers}
    [] type \in {"Boxed", "Date", "ArrayBuffer"} -> {<<leaf>> : leaf \in Leaves}

TypesOf(n) ==
  IF n \in Buffers THEN {"ArrayBuffer"}
  ELSE {"Array", "Object", "null", "Set", "Map", "Boxed", "Date", "View", "Part"}

Things(n, size) ==
  UNION {[type : {type}, items : ItemsOf(type, size)] : type \in TypesOf(n)}

Values(size) ==
  FoldSet(LAMBDA n, values : {value @@ (n :> t) : value \in values, t \in Things(n, size[n])},
          {<< >>}, Nodes)

(* The nodes one gets to from some by Next, those included. *)
Closure(start, Next(_)) ==
  FoldSet(LAMBDA step, S : S \cup UNION {Next(m) : m \in S}, start, Nodes)

NodesIn(items) == Nodes \cap ToSet(items)
Held(n) == NodesIn(thing[n].items)
Reached == Closure({root} \cap Nodes, Held)

(* What the root does not hold is no part of the value.                      *)
Unheld == [type |-> "Object", items |-> << >>]

Init ==
  /\ \E size \in Sizes : thing \in Values(size)
  /\ root \in Refs
  /\ \A n \in Nodes \ (Reached \cup Buffers) : thing[n] = Unheld
  /\ phase = "value"
  /\ wire = << >> /\ program = << >> /\ got = << >>

-----------------------------------------------------------------------------
(* stringify: each thing and each primitive once, in the order met, its     *)
(* items written as the indexes they have in the list.                      *)

UNDEFINED == -1
HOLE == -2

CodeOfMissing == UNDEFINED  \* for a mutant
CodeOfHole == HOLE

Population(items) == Len(SelectSeq(items, LAMBDA item : item # Hole))
Digits(n) == IF n < 10 THEN 1 ELSE 2

(* Holes cost three characters each, the sparse form a header and the       *)
(* items' positions.                                                        *)
IsSparse(items) ==
  LET population == Population(items)  d == Digits(Len(items))
  IN (Len(items) - population) * 3 > 4 + d + population * (d + 1)

(* The sparse form: the length, then a position and a code for every item. *)
SparseForm(items, codes) ==
  <<Len(items)>> \o
    FlattenSeq([i \in 1..Len(items) |->
                  IF items[i] = Hole THEN << >> ELSE <<i - 1, codes[i]>>])

(* What is in these is part of their own text. *)
Inlined == {"Date", "ArrayBuffer"}

RECURSIVE flatten(_, _)

flatten_items(items, state) ==
  FoldLeft(LAMBDA acc, item :
             IF item = Hole
               THEN [acc EXCEPT !.codes = Append(@, CodeOfHole)]
               ELSE LET done == flatten(item, acc.state)
                    IN [state |-> done, codes |-> Append(acc.codes, done.code)],
           [state |-> state, codes |-> << >>], items)

(* The entry of a thing, after its items are written. *)
Entry(ref, codes) ==
  LET of == thing[ref]
  IN IF of.type = "Array" /\ IsSparse(of.items)
       THEN [type |-> "Sparse", items |-> SparseForm(of.items, codes)]
       ELSE [type |-> of.type,
             items |-> IF of.type \in Inlined THEN of.items ELSE codes]

flatten(ref, state) ==
  IF ref = Undefined THEN [state EXCEPT !.code = UNDEFINED]
  ELSE IF ref \in DOMAIN state.indexes
    THEN [state EXCEPT !.code = state.indexes[ref]]
  ELSE
    LET index == state.p
        opened == [state EXCEPT !.p = @ + 1, !.indexes = @ @@ (ref :> index)]
        leaf == [type |-> "primitive", items |-> <<ref>>]
        inner == IF ref \in Leaves \/ thing[ref].type \in Inlined
                   THEN [state |-> opened, codes |-> << >>]
                 ELSE flatten_items(thing[ref].items, opened)
        entry == IF ref \in Leaves THEN leaf ELSE Entry(ref, inner.codes)
    IN [inner.state EXCEPT !.stringified = @ @@ (index :> entry), !.code = index]

Nothing == [n \in {} |-> 0]

Stringify ==
  LET start == [p |-> 0, indexes |-> Nothing, stringified |-> Nothing, code |-> 0]
      done == flatten(root, start)
  IN /\ phase = "value"
     /\ phase' = "sent"
     /\ wire' = [code |-> done.code, values |-> done.stringified]
     /\ UNCHANGED <<thing, root, program, got>>

-----------------------------------------------------------------------------
(* parse: a thing is known by its index before its items are read, so that  *)
(* a circle finds it.                                                       *)

Add(type, items, ref) ==
  IF type = "Set" /\ ref \in ToSet(items) THEN items ELSE Append(items, ref)

RECURSIVE hydrate(_, _)

hydrate_items(index, codes, state) ==
  FoldLeft(LAMBDA acc, code :
             IF code = HOLE
               THEN [acc EXCEPT !.heap[index].items = Append(@, Hole)]
               ELSE LET done == hydrate(code, acc)
                        type == done.heap[index].type
                    IN [done EXCEPT !.heap[index].items = Add(type, @, done.ref)],
           state, codes)

(* A sparse array is made of holes and its items put where they were. *)
hydrate_sparse(index, form, state) ==
  LET len == form[1]
      empty == [state EXCEPT !.heap[index] =
                  [type |-> "Array", items |-> [i \in 1..len |-> Hole]]]
      Put(acc, j) ==
        LET done == hydrate(form[2 * j + 1], acc)
        IN [done EXCEPT !.heap[index].items[form[2 * j] + 1] = done.ref]
  IN FoldLeft(Put, empty, [j \in 1..((Len(form) - 1) \div 2) |-> j])

hydrate(index, state) ==
  IF index = UNDEFINED THEN [state EXCEPT !.ref = Undefined]
  ELSE IF index \in DOMAIN state.hydrated
    THEN [state EXCEPT !.ref = state.hydrated[index]]
  ELSE
    LET value == wire.values[index]
        leaf == value.type = "primitive"
        ref == IF leaf THEN value.items[1] ELSE index
        known == [state EXCEPT !.hydrated = @ @@ (index :> ref), !.ref = ref]
        text == value.type \in Inlined
        begun == [known EXCEPT !.heap = @ @@
                    (index :> [type |-> value.type,
                               items |-> IF text THEN value.items ELSE << >>])]
        done == IF value.type = "Sparse"
                  THEN hydrate_sparse(index, value.items, begun)
                  ELSE hydrate_items(index, value.items, begun)
    IN IF leaf THEN known ELSE IF text THEN begun ELSE [done EXCEPT !.ref = ref]

Parse ==
  LET start == [hydrated |-> Nothing, heap |-> Nothing, ref |-> Undefined]
      done == hydrate(wire.code, start)
  IN /\ phase = "sent"
     /\ phase' = "received"
     /\ got' = [heap |-> done.heap, root |-> done.ref]
     /\ UNCHANGED <<thing, root, wire, program>>

-----------------------------------------------------------------------------
(* uneval: a thing met more than once is a parameter of a function, made     *)
(* empty and filled by a statement; any other is a literal in its place.     *)

(* What walk counts: a map's values, and not its keys. *)
WalkedItems(n) ==
  LET items == thing[n].items
      value == {i \in DOMAIN items : i % 2 = 0}
  IN {i \in DOMAIN items :
        items[i] \in Nodes /\ (thing[n].type = "Map" => i \in value)}

WalkedFrom(n) == {thing[n].items[i] : i \in WalkedItems(n)}
Walked == Closure({root} \cap Nodes, WalkedFrom)

Counts(n) ==
  LET uses == UNION {{m} \X {i \in WalkedItems(m) : thing[m].items[i] = n} : m \in Walked}
  IN Cardinality(uses) + (IF root = n THEN 1 ELSE 0)

NamedThrice == {n \in Walked : Counts(n) > 2}  \* for a mutant
Named == {n \in Walked : Counts(n) > 1}

(* The more often met come first. *)
Names ==
  SetToSortSeq(Named, LAMBDA m, n : \/ Counts(m) > Counts(n)
                                    \/ Counts(m) = Counts(n) /\ m < n)

NameOf(n) == CHOOSE i \in DOMAIN Names : Names[i] = n

(* The first hole of a literal is visited twice, and unless it is the first  *)
(* item the second visit writes a comma of its own.                          *)
FirstHole(items) ==
  LET holes == {i \in DOMAIN items : items[i] = Hole}
  IN IF holes = {} THEN 0 ELSE CHOOSE i \in holes : \A j \in holes : i <= j

(* A hole costs a comma in a literal.  The other form names the positions of *)
(* the items and says how many there are, and has no comma too many.         *)
IsAssigned(items) ==
  LET population == Population(items)  d == Digits(Len(items))
  IN FirstHole(items) > 0 /\ Len(items) + 2 > 25 + d + population * (d + 2)

Written(type, items) ==
  LET i == FirstHole(items)
  IN IF type = "Array" /\ i > 1 /\ ~IsAssigned(items) THEN InsertAt(items, i, Hole) ELSE items

RECURSIVE stringify(_)
stringify(ref) ==
  IF ref \in Named THEN [type |-> "name", items |-> <<NameOf(ref)>>]
  ELSE IF ref \notin Nodes THEN [type |-> "primitive", items |-> <<ref>>]
  ELSE LET written == Written(thing[ref].type, thing[ref].items)
       IN [type |-> thing[ref].type,
           items |-> [i \in DOMAIN written |-> stringify(written[i])]]

(* A named thing begins empty, an array with its length, a view as an empty  *)
(* object; those of Whole begin with all there is to them.                   *)
Views == {"View", "Part"}
Whole == Inlined \cup {"Boxed"}

ValueOf(n) ==
  [type |-> IF thing[n].type \in Views THEN "Object" ELSE thing[n].type,
   items |-> CASE thing[n].type = "Array" -> [i \in DOMAIN thing[n].items |-> Hole]
               [] thing[n].type \in Whole -> thing[n].items
               [] OTHER -> << >>]

Statement(n) ==
  [name |-> NameOf(n), type |-> thing[n].type,
   items |-> [i \in DOMAIN thing[n].items |-> stringify(thing[n].items[i])]]

(* Without a name the text of a thing that holds itself has no end, and the  *)
(* statement of an empty set or map is a name and a full stop.               *)
UnnamedIn(n) == Held(n) \ Named
Endless == \E n \in Reached \ Named : n \in Closure(UnnamedIn(n), UnnamedIn)
BareStop ==
  \E n \in Named : thing[n].type \in {"Set", "Map"} /\ thing[n].items = << >>

Uneval ==
  /\ phase = "value"
  /\ phase' = "inlined"
  /\ program' =
       IF Endless THEN [fault |-> "RangeError"]
       ELSE [fault |-> IF BareStop THEN "SyntaxError" ELSE "none",
             values |-> [i \in DOMAIN Names |-> ValueOf(Names[i])],
             statements |-> [i \in DOMAIN Names |-> Statement(Names[i])],
             str |-> stringify(root)]
  /\ UNCHANGED <<thing, root, wire, got>>

-----------------------------------------------------------------------------
(* The browser runs the program: a literal is a new thing at every visit.    *)

RECURSIVE eval(_, _)

eval_items(exprs, state) ==
  FoldLeft(LAMBDA acc, expr :
             LET done == eval(expr, acc.state)
             IN [state |-> done, refs |-> Append(acc.refs, done.ref)],
           [state |-> state, refs |-> << >>], exprs)

eval(expr, state) ==
  IF expr.type = "name" THEN [state EXCEPT !.ref = state.names[expr.items[1]]]
  ELSE IF expr.type = "primitive" THEN [state EXCEPT !.ref = expr.items[1]]
  ELSE LET inner == eval_items(expr.items, state)
           heap == Append(inner.state.heap, [type |-> expr.type, items |-> inner.refs])
       IN [inner.state EXCEPT !.heap = heap, !.ref = Len(heap)]

(* Every statement of one name, run in order: a view's makes the name mean   *)
(* another thing, the others fill the thing it means.                        *)
Execute(state, statement) ==
  LET inner == eval_items(statement.items, state)
      made == eval([type |-> statement.type, items |-> statement.items], state)
  IN CASE statement.type \in Whole -> state
       [] statement.type \in Views -> [made EXCEPT !.names[statement.name] = made.ref]
       [] OTHER -> [inner.state EXCEPT !.heap[statement.name].items = inner.refs]

Evaluate ==
  LET start == [heap |-> program.values, ref |-> Undefined,
                names |-> [i \in DOMAIN program.values |-> i]]
      filled == FoldLeft(Execute, start, program.statements)
      done == eval(program.str, filled)
  IN /\ phase = "inlined" /\ program.fault = "none"
     /\ phase' = "evaluated"
     /\ got' = [heap |-> done.heap, root |-> done.ref]
     /\ UNCHANGED <<thing, root, wire, program>>

Next == Stringify \/ Parse \/ Uneval \/ Evaluate
Spec == Init /\ [][Next]_vars

-----------------------------------------------------------------------------
(* Properties.                                                               *)

(* The value there is the value here: as many things, of the same types,     *)
(* holding one another the same way, what is one thing here one thing there. *)
Restored ==
  \E there \in [Reached -> DOMAIN got.heap] :
    LET At(ref) == IF ref \in Nodes THEN there[ref] ELSE ref
    IN /\ IsInjective(there)
       /\ got.root = At(root)
       /\ \A n \in Reached :
            got.heap[there[n]] =
              [type |-> thing[n].type,
               items |-> [i \in DOMAIN thing[n].items |-> At(thing[n].items[i])]]

(* What parse makes of an answer is the value stringify was given, sharing,  *)
(* circles, holes and undefined included.                                    *)
ParseRestores == phase = "received" => Restored

(* A statement that holds a named view before the view's own has run.        *)
Mentions(n) == Named \cap (Held(n) \cup UNION {Held(m) : m \in Closure(UnnamedIn(n), UnnamedIn)})
HeldTooEarly ==
  \E n, m \in Named : /\ thing[m].type \in Views
                      /\ m \in Mentions(n) /\ NameOf(n) < NameOf(m)

(* What uneval is good for: no thing is a map's key, no set or map met more  *)
(* than once is empty, the holes of an array written as a literal begin with *)
(* its first item, and no view met more than once is held by what is met     *)
(* more often.                                                               *)
Uncovered ==
  \/ \E n \in Reached : /\ thing[n].type = "Map" /\ thing[n].items # << >>
                        /\ thing[n].items[1] \in Nodes
  \/ BareStop
  \/ HeldTooEarly
  \/ \E n \in Reached \ Named : /\ thing[n].type = "Array"
                                /\ FirstHole(thing[n].items) > 1 /\ ~IsAssigned(thing[n].items)

(* Within these limits the program of uneval is one the browser can run, and *)
(* its result is the value uneval was given.                                 *)
ProgramRestores ==
  /\ phase = "inlined" /\ ~Uncovered => program.fault = "none"
  /\ phase = "evaluated" /\ ~Uncovered => Restored

=============================================================================
