---------------------------- MODULE EigenVariable ----------------------------
(***************************************************************************)
(* The typed values of modules (eigen_variable.cpp), as the answers of the *)
(* modules make and change them, and what a group of modules shows of them *)
(* (EigenVariableGroup in eigen_groups.cpp).                               *)
(*                                                                         *)
(* A variable is a record [name, type, value].  A text that a module sends *)
(* is known by what std::stoull(text, nullptr, 16) and std::stod(text)     *)
(* make of it; None is an exception or a number that is not finite.        *)
(***************************************************************************)
EXTENDS Integers, Sequences, FiniteSets, SequencesExt

CONSTANTS
  Texts,          \* what a module may send as a value
  Hex,            \* Hex[t]: stoull(t), a natural number or None
  Dec,            \* Dec[t]: stod(t), a number or None
  Empty,          \* the empty text
  None,
  Top,            \* Top[type]: numeric_limits<>::max() of the short integers
  Names,          \* the names of variables
  Types,          \* their types
  MaxModules,     \* bound: the modules of a group
  MaxVariables,   \* bound: the variables of all modules
  MaxDangling     \* bound: the variables deleted under a group

Short == {"uint8", "uint16", "uint32"}

ASSUME VariableAssumption ==
  /\ Empty \in Texts /\ Hex[Empty] = None /\ Dec[Empty] = None
  /\ Types \subseteq Short \cup {"uint64", "double", "string"}
  /\ MaxModules \in 0 .. 255    \* each has an address of a byte

VARIABLES
  held,           \* held[m]: the variables of the m-th module, in list order
  shown           \* what a group has of them

variableVars == <<held, shown>>

\* A reference <<m, i>> to the i-th variable of module m dangles when the variable
\* it was made for is deleted.
NotShown == [count |-> 0, variable_map_ |-> {}, common_keys_ |-> <<>>, dangling |-> {}]

\* The constructors: what a variable holds when a list entry made it.
Initial(type) == IF type = "string" THEN Empty ELSE 0

\* The short integers: the largest value is not accepted.
parse_integer(type, t) ==
  IF Hex[t] # None /\ Hex[t] < Top[type] THEN Hex[t] ELSE None

\* parse_value: the new value, or None when it returns false and the variable
\* keeps the old one.
parse_value(type, t) ==
  CASE type = "string" -> t
    [] type = "double" -> Dec[t]
    [] type = "uint64" -> Hex[t]
    [] OTHER -> parse_integer(type, t)

weak_match(v, w) == v.name = w.name /\ v.type = w.type

\* dynamic_cast fails for another type.
SameValue(v, w) == v.type = w.type /\ v.value = w.value

\* EigenUint32 returns false after a weak match: the comparison of the values
\* is the body of "if(!weak_match(variable))".
strong_match(v, w) ==
  IF v.type = "uint32"
  THEN ~ weak_match(v, w) /\ SameValue(v, w)
  ELSE weak_match(v, w) /\ SameValue(v, w)

\* Deliberate fault: the comparison stops at the first pair of equal neighbours.
values_match_not(vs) ==
  vs # <<>> /\ (Len(vs) = 1 \/ strong_match(vs[1], vs[2]))

\* values_match: the variables under a key, in the order of the multimap.
values_match(vs) ==
  vs # <<>> /\ \A i \in 2 .. Len(vs) : strong_match(vs[1], vs[i])

\* Deliberate fault: a key is listed when it was seen by then less often than wanted.
enough_not(count, min_count) == count > min_count

enough(count, min_count) == count >= min_count

NamesOf(m) == [i \in DOMAIN held[m] |-> held[m][i].name]

Variable(ref) == held[ref[1]][ref[2]]
-----------------------------------------------------------------------------
(***************************************************************************)
(* What changes the variables.  A module is given to the application when  *)
(* its lists are complete, and its names differ.                           *)
(***************************************************************************)
VariableInit ==
  /\ held = [m \in 1 .. MaxModules |-> <<>>]
  /\ shown = NotShown

References(n) == UNION {{<<m, i>> : i \in DOMAIN held[m]} : m \in 1 .. n}

\* add_variables: one module after the other, each in the order of its list.
Upto(r, s) == r[1] < s[1] \/ (r[1] = s[1] /\ r[2] <= s[2])

\* add_variable: what is under the name of a variable of the first n modules
\* when it has come.
Seen(n, ref) == {r \in References(n) : Upto(r, ref) /\ Variable(r).name = Variable(ref).name}

\* A variable lists its name when there are enough by then; one more that comes
\* lists it once more.
Listing(n, min_count) == {ref \in References(n) : enough(Cardinality(Seen(n, ref)), min_count)}

Position(refs, ref) == Cardinality({r \in refs : Upto(r, ref)})

\* The names they list, in the order they came.
common_keys(n, min_count) ==
  LET refs == Listing(n, min_count)
      At(k) == CHOOSE ref \in refs : Position(refs, ref) = k
  IN  [k \in 1 .. Cardinality(refs) |-> Variable(At(k)).name]

\* An entry of the list of a module.
ListEntry(m, name, type) ==
  /\ shown = NotShown
  /\ Cardinality(References(MaxModules)) < MaxVariables
  /\ \A i \in DOMAIN held[m] : held[m][i].name # name
  /\ held' = [held EXCEPT ![m] = Append(@, [name |-> name, type |-> type, value |-> Initial(type)])]
  /\ UNCHANGED shown

\* The same entry once more, as of a request that was repeated: add deletes the
\* variable and puts a new one in its place.
ListEntryAgain(ref) ==
  /\ held' = [held EXCEPT ![ref[1]][ref[2]].value = Initial(Variable(ref).type)]
  /\ shown' = [shown EXCEPT !.dangling = @ \cup ({ref} \cap shown.variable_map_)]
  /\ Cardinality(shown'.dangling) <= MaxDangling

\* An answer with a value.
Answer(ref, t) ==
  LET value == parse_value(Variable(ref).type, t) IN
    /\ value # None
    /\ held' = [held EXCEPT ![ref[1]][ref[2]].value = value]
    /\ UNCHANGED shown

\* A group of the first n modules.
Show(n) ==
  /\ shown = NotShown
  /\ shown' = [count |-> n, variable_map_ |-> References(n),
               common_keys_ |-> common_keys(n, n), dangling |-> {}]
  /\ UNCHANGED held

VariableNext ==
  \/ \E m \in 1 .. MaxModules, name \in Names, type \in Types : ListEntry(m, name, type)
  \/ \E ref \in References(MaxModules) : ListEntryAgain(ref) \/ \E t \in Texts : Answer(ref, t)
  \/ \E n \in 1 .. MaxModules : Show(n)

VariableSpec == VariableInit /\ [][VariableNext]_variableVars
-----------------------------------------------------------------------------
(***************************************************************************)
(* Properties.                                                             *)
(***************************************************************************)
Under(name) == {ref \in shown.variable_map_ : Variable(ref).name = name}

\* The variables under a name, in any order a multimap may have them.
Orders(name) == {[n \in DOMAIN s |-> Variable(s[n])] : s \in SetToSeqs(Under(name))}

Agree(name) == \A a, b \in Under(name) : SameValue(Variable(a), Variable(b))

Matches(name) ==
  Under(name) \cap shown.dangling = {} =>
    \A vs \in Orders(name) : values_match(vs) <=> Under(name) # {} /\ Agree(name)

\* A group says that its modules agree on a variable exactly when they do:
\* same type and same value, in whatever order the multimap has them.
GroupMatches == \A name \in Names : Matches(name)

\* The same without the type whose comparison never holds, whatever answers
\* came before and after the group was made.
MatchIsEquality ==
  \A name \in Names :
    (\A ref \in Under(name) : Variable(ref).type # "uint32") => Matches(name)

\* The common keys of a group are the names that every one of its modules
\* has, each listed once, whatever the order of the lists.
CommonKeysAreCommon ==
  LET keys == shown.common_keys_ IN
    shown.count > 0 =>
      /\ ToSet(keys) = {name \in Names : \A m \in 1 .. shown.count : name \in ToSet(NamesOf(m))}
      /\ Len(keys) = Cardinality(ToSet(keys))

\* A group refers to variables that are there (eigen_groups.h: "Must ensure that
\* this class does not outlive its variables").
GroupSeesLive == shown.dangling = {}
=============================================================================
