---------------------- MODULE EigenModuleLifecycleProofs ----------------------
(***************************************************************************)
(* Proofs about EigenModuleLifecycle, for any addresses, reported lists,   *)
(* objects and interleavings of the service with the application.          *)
(*                                                                         *)
(* What is hard is that an object that was forgotten while it waited to be *)
(* published is published all the same, and that another object is at its  *)
(* address by then.  The inductive invariant says when that can be:        *)
(* DoomedIsAlone, that until the sweep has met such an object its          *)
(* successor is not valid and hears nothing, and SuccessorWaits, that as   *)
(* long as a forgotten object is published its successor is not valid      *)
(* when a sweep comes.  Hence a sweep always inserts at an empty address,  *)
(* which the updates rely on.                                              *)
(***************************************************************************)
EXTENDS EigenModuleLifecycle, SequenceTheorems, FunctionTheorems,
        FiniteSetTheorems, TLAPS

Sweeping == phase \in {"sweep", "announce"}

Publishing == phase = "announce"

Clearing == phase \in {"clearPub", "clearList"}

\* All that the lists depend on of the objects: how many, where, and if valid.
Made == 1..Len(objects)

Home == [o \in Made |-> objects[o].addr]

ValidObjects == {o \in Made : Valid(o)}

\* What the lists hold was made, for the address it is at.
ListsHoldObjects ==
  /\ \A a \in Addresses : list[a] # None => list[a] \in Made /\ Home[list[a]] = a
  /\ \A a \in Addresses : pub[a] # None => pub[a] \in Made /\ Home[pub[a]] = a
  /\ \A j \in 1..Len(initList) : initList[j] \in Made
  /\ \A i, j \in 1..Len(initList) : initList[i] = initList[j] => i = j
  /\ aged \subseteq Made

\* An object leaves module_list_ only when it is too old, and clear_old takes all
\* that are.
AgedAreForgotten ==
  /\ \A o \in Made : list[Home[o]] = o \/ o \in aged
  /\ ~Clearing => \A a \in Addresses : list[a] \notin aged

\* Where the sweep is, and what waits for it is not published.
SweepInOrder ==
  /\ ~Sweeping => cursor = 1
  /\ Publishing => cursor <= Len(initList) /\ pub[Home[initList[cursor]]] = initList[cursor]
  /\ \A j \in 1..Len(initList) :
       pub[Home[initList[j]]] = initList[j] => Publishing /\ j = cursor

\* Forgotten, but to be published by the next sweep that meets it.
Doomed == {o \in ValidObjects \cap aged : Unpublished(o)}

DoomedIsMet ==
  IF Sweeping THEN \A j \in 1..cursor - 1 : initList[j] \notin Doomed
  ELSE Doomed # {} => sweepDue

\* Nothing else is published, or can be, at the address of such an object.
DoomedIsAlone ==
  \A o \in Doomed :
    /\ list[Home[o]] \in ValidObjects => list[Home[o]] = o
    /\ phase = "poll" \/ Sweeping \/ \A x \in inflight : x.addr # Home[o]
    /\ \/ pub[Home[o]] \in {None, o}
       \/ phase = "clearPub" /\ pub[Home[o]] \in aged
    /\ \A p \in Doomed : Home[p] = Home[o] => p = o

\* The object after one that is published and forgotten.
SuccessorWaits ==
  phase \notin {"receive", "clearPub"} =>
    \A a \in Addresses :
      pub[a] \in aged /\ list[a] \in ValidObjects => list[a] = pub[a]

\* While a module is published, and not yet announced.
Announcing(a) == Publishing /\ a = Home[initList[cursor]]

\* Believed, of any updates and any mirror.
Story(u, m, a, n) ==
  \/ \E j \in 1..n : u[j] = [type |-> "added", addr |-> a] /\ \A i \in j + 1..n : u[i].addr # a
  \/ a \in m /\ \A j \in 1..n : u[j].addr # a

Consistent(u, m) ==
  \A j \in 1..Len(u) : u[j].type = "added" <=> ~Story(u, m, u[j].addr, j - 1)

UpdatesInv ==
  /\ Consistent(updates, mirror)
  /\ \A a \in Addresses :
       Story(updates, mirror, a, Len(updates)) <=> a \in Published /\ ~Announcing(a)

\* A module says of a list always the same length.
OneLength == \A a \in Addresses, k \in Kinds : \A m, n \in Lists[a][k] : m = n

\* What a set has, and the answers on the bus, are of a list that was reported.
SetsHoldEntries ==
  /\ \A o \in Made, k \in Kinds : \A i \in objects[o].sets[k].got :
       \E n \in Lists[Home[o]][k] : i \in 1..n - 1
  /\ \A o \in Made, k \in Kinds :
       objects[o].sets[k].expected # Unknown =>
         objects[o].sets[k].expected + 1 \in Lists[Home[o]][k]

LifeInv ==
  /\ ListsHoldObjects /\ AgedAreForgotten /\ SweepInOrder
  /\ DoomedIsMet /\ DoomedIsAlone /\ SuccessorWaits
-----------------------------------------------------------------------------
(***************************************************************************)
(* The objects.                                                            *)
(***************************************************************************)
LEMMA RequestsTyped ==
  ASSUME NEW a \in Addresses, NEW kinds
  PROVE  Requests(a, kinds) \in Seq(Addresses \X Kinds)
BY DEF Requests, Kinds

\* One object is replaced by another of the same address.
LEMMA ObjectReplaced ==
  ASSUME NEW objs \in Seq(Module), NEW o \in 1..Len(objs),
         NEW sets \in [Kinds -> ParameterSet]
  PROVE  LET new == [objs EXCEPT ![o].sets = sets] IN
         /\ new \in Seq(Module) /\ Len(new) = Len(objs)
         /\ \A p \in 1..Len(objs) :
              /\ new[p].addr = objs[p].addr
              /\ new[p].sets = IF p = o THEN sets ELSE objs[p].sets
<1> DEFINE object == [objs[o] EXCEPT !.sets = sets]
           new == [objs EXCEPT ![o] = object]
<1>1. object \in Module /\ object.sets = sets /\ object.addr = objs[o].addr
  <2>1. objs[o] \in Module
    OBVIOUS
  <2> QED  BY <2>1 DEF Module
<1>2. /\ new \in Seq(Module) /\ Len(new) = Len(objs)
      /\ \A p \in 1..Len(objs) : new[p] = IF p = o THEN object ELSE objs[p]
  <2> HIDE DEF object
  <2> QED  BY <1>1, ExceptSeq
<1>3. [objs EXCEPT ![o].sets = sets] = new
  OBVIOUS
<1> HIDE DEF object, new
<1>4. \A p \in 1..Len(objs) :
        /\ new[p].addr = objs[p].addr
        /\ new[p].sets = IF p = o THEN sets ELSE objs[p].sets
  BY <1>1, <1>2
<1> QED  BY <1>2, <1>3, <1>4

\* One set of one object is replaced.
WithSet(objs, o, k, set) == [objs EXCEPT ![o].sets[k] = set]

LEMMA SetReplaced ==
  ASSUME NEW objs \in Seq(Module), NEW o \in 1..Len(objs), NEW k \in Kinds,
         NEW set \in ParameterSet
  PROVE  /\ WithSet(objs, o, k, set) \in Seq(Module)
         /\ Len(WithSet(objs, o, k, set)) = Len(objs)
         /\ \A p \in 1..Len(objs) :
              /\ WithSet(objs, o, k, set)[p].addr = objs[p].addr
              /\ p # o => WithSet(objs, o, k, set)[p].sets = objs[p].sets
         /\ \A l \in Kinds :
              WithSet(objs, o, k, set)[o].sets[l] = IF l = k THEN set ELSE objs[o].sets[l]
<1> DEFINE sets == [objs[o].sets EXCEPT ![k] = set]
           new == [objs EXCEPT ![o].sets = sets]
<1>1. objs[o] \in Module
  OBVIOUS
<1>2. /\ sets \in [Kinds -> ParameterSet]
      /\ \A l \in Kinds : sets[l] = IF l = k THEN set ELSE objs[o].sets[l]
  BY <1>1 DEF Module
<1>3. WithSet(objs, o, k, set) = new
  BY DEF WithSet
<1> HIDE DEF sets
<1>4. /\ new \in Seq(Module) /\ Len(new) = Len(objs)
      /\ \A p \in 1..Len(objs) :
           /\ new[p].addr = objs[p].addr
           /\ new[p].sets = IF p = o THEN sets ELSE objs[p].sets
  BY <1>2, ObjectReplaced
<1> HIDE DEF new
<1> QED  BY <1>2, <1>3, <1>4

\* The steps that change neither the length nor the entries of any set.
SameEntries ==
  /\ objects' \in Seq(Module) /\ Len(objects') = Len(objects)
  /\ \A o \in Made : /\ objects'[o].addr = objects[o].addr
                     /\ \A k \in Kinds :
                          /\ objects'[o].sets[k].expected = objects[o].sets[k].expected
                          /\ objects'[o].sets[k].got = objects[o].sets[k].got

LEMMA SameView ==
  ASSUME SameEntries
  PROVE  Made' = Made /\ Home' = Home /\ ValidObjects' = ValidObjects
<1>1. Made' = Made
  BY DEF SameEntries, Made
<1>2. Home' = Home
  BY <1>1 DEF SameEntries, Home
<1>3. ASSUME NEW o \in Made  PROVE  Valid(o)' <=> Valid(o)
  BY DEF SameEntries, Valid, SetValid, ParametersLeft
<1>4. ValidObjects' = ValidObjects
  <2> HIDE DEF Valid
  <2> QED  BY <1>1, <1>3 DEF ValidObjects
<1> QED  BY <1>1, <1>2, <1>4

LEMMA SendKeepsEntries ==
  ASSUME TypeOK, ListsHoldObjects, SendSlow
  PROVE  SameEntries /\ slow' \in Seq(Addresses \X Kinds) /\ inflight' \subseteq AllAnswers
<1> DEFINE a == Head(slow)[1]
           k == Head(slow)[2]
<1>1. a \in Addresses /\ k \in Kinds /\ slow' \in Seq(Addresses \X Kinds)
  BY DEF TypeOK, SendSlow
<1>2. inflight' \subseteq AllAnswers
  BY <1>1 DEF TypeOK, SendSlow, AllAnswers
<1>3. objects' = AfterSending(a, k) /\ objects \in Seq(Module)
  BY DEF SendSlow, TypeOK
<1> HIDE DEF a, k
<1>4. CASE k = "param" /\ list[a] # None
  <2> DEFINE o == list[a]
             old == objects[o].sets[k]
             set == [old EXCEPT !.busy = FALSE]
  <2>1. o \in 1..Len(objects)
    BY <1>1, <1>4 DEF ListsHoldObjects, Made
  <2>2. objects' = [objects EXCEPT ![o].sets[k] = set]
    BY <1>3, <1>4 DEF AfterSending
  <2>3. old \in ParameterSet
    <3>1. objects[o] \in Module
      BY <1>3, <2>1
    <3> QED  BY <1>1, <3>1 DEF Module
  <2>4. set \in ParameterSet /\ set.expected = old.expected /\ set.got = old.got
    <3> HIDE DEF old
    <3> QED  BY <2>3 DEF ParameterSet
  <2> HIDE DEF set, o
  <2> DEFINE new == WithSet(objects, o, k, set)
  <2>5. /\ new \in Seq(Module) /\ Len(new) = Len(objects)
        /\ \A p \in 1..Len(objects) :
             /\ new[p].addr = objects[p].addr
             /\ p # o => new[p].sets = objects[p].sets
        /\ \A l \in Kinds : new[o].sets[l] = IF l = k THEN set ELSE objects[o].sets[l]
    BY <1>1, <1>3, <2>1, <2>4, SetReplaced
  <2>6. objects' = new
    BY <2>2 DEF WithSet
  <2> HIDE DEF new
  <2> QED  BY <1>1, <1>2, <2>4, <2>5, <2>6 DEF SameEntries, Made
<1>5. CASE ~(k = "param" /\ list[a] # None)
  <2>1. objects' = objects
    BY <1>3, <1>5 DEF AfterSending
  <2> QED  BY <1>1, <1>2, <1>3, <2>1 DEF SameEntries
<1> QED  BY <1>4, <1>5

LEMMA QuietKeepsEntries ==
  ASSUME TypeOK, NEW o \in Made, NEW k \in Kinds, FallQuiet(o, k)
  PROVE  SameEntries
<1> DEFINE old == objects[o].sets[k]
           set == [old EXCEPT !.quiet = TRUE]
<1>1. o \in 1..Len(objects) /\ objects \in Seq(Module)
  BY DEF Made, TypeOK
<1>2. objects' = [objects EXCEPT ![o].sets[k] = set]
  BY DEF FallQuiet
<1>3. old \in ParameterSet
  <2>1. objects[o] \in Module
    BY <1>1
  <2> QED  BY <2>1 DEF Module
<1>4. set \in ParameterSet /\ set.expected = old.expected /\ set.got = old.got
  <2> HIDE DEF old
  <2> QED  BY <1>3 DEF ParameterSet
<1> HIDE DEF set
<1>5. objects' = WithSet(objects, o, k, set)
  BY <1>2 DEF WithSet
<1>6. /\ objects' \in Seq(Module) /\ Len(objects') = Len(objects)
      /\ \A p \in 1..Len(objects) :
           /\ objects'[p].addr = objects[p].addr
           /\ p # o => objects'[p].sets = objects[p].sets
      /\ \A l \in Kinds : objects'[o].sets[l] = IF l = k THEN set ELSE objects[o].sets[l]
  BY <1>1, <1>4, <1>5, SetReplaced
<1> QED  BY <1>4, <1>6 DEF SameEntries, Made

LEMMA RefreshKeepsEntries ==
  ASSUME TypeOK, ListsHoldObjects, SweepRefresh
  PROVE  SameEntries /\ slow' \in Seq(Addresses \X Kinds)
<1> DEFINE o == initList[cursor]
           asking == {k \in Kinds : UpdateRequired(objects[o].sets[k])}
           old == objects[o].sets
           sets == [k \in Kinds |-> IF k \in asking THEN AskedFor(old[k]) ELSE old[k]]
<1>1. o \in 1..Len(objects) /\ objects \in Seq(Module)
  BY DEF TypeOK, SweepRefresh, ListsHoldObjects, Made
<1>2. objects' = [objects EXCEPT ![o].sets = sets] /\ slow' = slow \o Requests(objects[o].addr, asking)
  BY DEF SweepRefresh
<1>3. objects[o] \in Module /\ old \in [Kinds -> ParameterSet]
  <2>1. objects[o] \in Module
    BY <1>1
  <2> QED  BY <2>1 DEF Module
<1>4. slow' \in Seq(Addresses \X Kinds)
  <2> HIDE DEF asking
  <2>1. Requests(objects[o].addr, asking) \in Seq(Addresses \X Kinds)
    BY <1>3, RequestsTyped DEF Module
  <2> QED  BY <1>2, <2>1 DEF TypeOK
<1> HIDE DEF old, asking
<1>5. /\ sets \in [Kinds -> ParameterSet]
      /\ \A k \in Kinds : sets[k].expected = old[k].expected /\ sets[k].got = old[k].got
  <2>1. ASSUME NEW k \in Kinds
        PROVE  /\ AskedFor(old[k]) \in ParameterSet
               /\ AskedFor(old[k]).expected = old[k].expected
               /\ AskedFor(old[k]).got = old[k].got
    <3>1. old[k] \in ParameterSet
      BY <1>3
    <3> QED  BY <3>1 DEF AskedFor, ParameterSet
  <2> QED  BY <1>3, <2>1
<1> HIDE DEF sets
<1> DEFINE new == [objects EXCEPT ![o].sets = sets]
<1>6. /\ new \in Seq(Module) /\ Len(new) = Len(objects)
      /\ \A p \in 1..Len(objects) :
           /\ new[p].addr = objects[p].addr
           /\ new[p].sets = IF p = o THEN sets ELSE objects[p].sets
  <2> HIDE DEF o
  <2> QED  BY <1>1, <1>5, ObjectReplaced
<1>7. objects' = new
  BY <1>2
<1> HIDE DEF new
<1> QED  BY <1>4, <1>5, <1>6, <1>7 DEF SameEntries, Made, old

LEMMA AnswerTyped ==
  ASSUME NEW x \in AllAnswers
  PROVE  /\ x.addr \in Addresses /\ x.kind \in Kinds
         /\ x.aux \in Lists[x.addr][x.kind] /\ x.aux \in 0..255
         /\ x.item \in 0..255 /\ (x.item = 0 \/ x.item \in 1..x.aux - 1)
<1>1. PICK a \in Addresses, k \in Kinds : x \in Answers(a, k)
  BY DEF AllAnswers
<1>2. PICK n \in Lists[a][k] :
        x \in [addr : {a}, kind : {k}, aux : {n}, item : {i \in 0..n : i = 0 \/ i < n}]
  BY <1>1 DEF Answers
<1>3. n \in 0..255
  <2>1. Lists[a] \in [Kinds -> SUBSET (0..255)]
    BY <1>1, LifecycleAssumption
  <2> QED  BY <1>1, <1>2, <2>1
<1> QED  BY <1>1, <1>2, <1>3

LEMMA AppliedTyped ==
  ASSUME NEW x \in AllAnswers, NEW set \in ParameterSet
  PROVE  Applied(set, x) \in ParameterSet
<1>1. x.aux \in 0..255 /\ x.item \in 0..255
  BY AnswerTyped
<1> DEFINE e == ExpectedFrom(x.aux)
           got == set.got \cup {x.item}
<1>2. e \in 0..255
  BY <1>1 DEF ExpectedFrom
<1>3. x.item # 0 => got \in SUBSET (1..255)
  BY <1>1 DEF ParameterSet
<1>4. x.item = 0 => [set EXCEPT !.expected = e, !.busy = FALSE, !.quiet = FALSE] \in ParameterSet
  <2> HIDE DEF e
  <2> QED  BY <1>2 DEF ParameterSet
<1>5. x.item # 0 => [set EXCEPT !.got = got, !.quiet = FALSE] \in ParameterSet
  <2> HIDE DEF got
  <2> QED  BY <1>3 DEF ParameterSet
<1>6. x.item # 0 => Applied(set, x) = [set EXCEPT !.got = got, !.quiet = FALSE]
  BY DEF Applied, ParameterSet
<1>7. x.item = 0 => Applied(set, x) = [set EXCEPT !.expected = e, !.busy = FALSE, !.quiet = FALSE]
  BY DEF Applied
<1> HIDE DEF e, got
<1> QED  BY <1>4, <1>5, <1>6, <1>7

LEMMA NewObjectTyped ==
  ASSUME NEW a \in Addresses
  PROVE  /\ NewObject(a) \in Module /\ NewObject(a).addr = a
         /\ \A k \in Kinds : /\ NewObject(a).sets[k].expected = Unknown
                             /\ NewObject(a).sets[k].got = {}
<1>1. [expected |-> Unknown, got |-> {}, busy |-> TRUE, quiet |-> FALSE] \in ParameterSet
  BY DEF ParameterSet, Unknown
<1> QED  BY <1>1 DEF NewObject, Module

\* The object of a packet: that of the address, or a new one.
LEMMA Receiving ==
  ASSUME TypeOK, ListsHoldObjects, NEW a \in Addresses, Known(a) <= MaxObjects
  PROVE  /\ ObjectsWith(a) \in Seq(Module) /\ Len(ObjectsWith(a)) <= MaxObjects
         /\ 1..Len(ObjectsWith(a)) = Made \cup {Known(a)}
         /\ Known(a) \in Object /\ Known(a) # None
         /\ ObjectsWith(a)[Known(a)].addr = a
         /\ \A o \in Made : ObjectsWith(a)[o] = objects[o]
         /\ IF list[a] = None
            THEN /\ Known(a) \notin Made /\ Known(a) = Len(objects) + 1
                 /\ \A k \in Kinds : /\ ObjectsWith(a)[Known(a)].sets[k].expected = Unknown
                                     /\ ObjectsWith(a)[Known(a)].sets[k].got = {}
            ELSE Known(a) = list[a] /\ Known(a) \in Made
<1>1. objects \in Seq(Module) /\ Len(objects) <= MaxObjects
  BY DEF TypeOK
<1>2. CASE list[a] = None
  <2> DEFINE new == NewObject(a)
  <2>1. new \in Module /\ new.addr = a
    BY NewObjectTyped
  <2>2. Known(a) = Len(objects) + 1 /\ ObjectsWith(a) = Append(objects, new)
    BY <1>2 DEF Known, ObjectsWith
  <2>3. \A k \in Kinds : new.sets[k].expected = Unknown /\ new.sets[k].got = {}
    BY NewObjectTyped
  <2> HIDE DEF new
  <2>4. /\ Append(objects, new) \in Seq(Module)
        /\ Len(Append(objects, new)) = Len(objects) + 1
        /\ Append(objects, new)[Len(objects) + 1] = new
        /\ \A o \in 1..Len(objects) : Append(objects, new)[o] = objects[o]
    BY <1>1, <2>1, AppendProperties
  <2>5. 1..Len(objects) + 1 = Made \cup {Known(a)} /\ Known(a) \notin Made
    BY <1>1, <2>2 DEF Made
  <2>6. Known(a) \in Object /\ Known(a) # None
    BY <1>1, <2>2 DEF Object, None
  <2> QED  BY <1>2, <2>1, <2>2, <2>3, <2>4, <2>5, <2>6 DEF Made
<1>3. CASE list[a] # None
  <2>1. Known(a) = list[a] /\ ObjectsWith(a) = objects
    BY <1>3 DEF Known, ObjectsWith
  <2>2. list[a] \in Made /\ Home[list[a]] = a
    BY <1>3 DEF ListsHoldObjects
  <2>3. objects[list[a]].addr = a
    BY <2>2 DEF Home
  <2> QED  BY <1>1, <1>3, <2>1, <2>2, <2>3 DEF Made, Object
<1> QED  BY <1>2, <1>3

\* What a packet from an address changes of what the lists depend on.
Received(a) ==
  /\ Known(a) \in Object /\ Known(a) # None
  /\ Made' = Made \cup {Known(a)}
  /\ \A o \in Made : Home'[o] = Home[o]
  /\ Home'[Known(a)] = a
  /\ \A o \in Made \ {Known(a)} : o \in ValidObjects' <=> o \in ValidObjects
  /\ IF list[a] = None THEN Known(a) \notin Made /\ Known(a) \notin ValidObjects'
     ELSE Known(a) = list[a] /\ Known(a) \in Made

LEMMA HearReceives ==
  ASSUME TypeOK, ListsHoldObjects, NEW a \in Addresses, Hear(a)
  PROVE  /\ Received(a)
         /\ list[a] # None => ValidObjects' = ValidObjects
         /\ objects' \in Seq(Module) /\ Len(objects') <= MaxObjects
<1>1. Known(a) <= MaxObjects /\ objects' = ObjectsWith(a)
  BY DEF Hear, AddModule
<1>2. /\ objects' \in Seq(Module) /\ Len(objects') <= MaxObjects
      /\ 1..Len(objects') = Made \cup {Known(a)}
      /\ Known(a) \in Object /\ Known(a) # None
      /\ objects'[Known(a)].addr = a
      /\ \A o \in Made : objects'[o] = objects[o]
      /\ IF list[a] = None
         THEN /\ Known(a) \notin Made /\ Known(a) = Len(objects) + 1
              /\ \A k \in Kinds : objects'[Known(a)].sets[k].expected = Unknown
         ELSE Known(a) = list[a] /\ Known(a) \in Made
  BY <1>1, Receiving
<1>3. Made' = Made \cup {Known(a)}
  BY <1>2 DEF Made
<1>4. (\A o \in Made : Home'[o] = Home[o]) /\ Home'[Known(a)] = a
  BY <1>2, <1>3 DEF Home
<1>5. \A o \in Made : o \in ValidObjects' <=> o \in ValidObjects
  <2> SUFFICES ASSUME NEW o \in Made  PROVE  o \in ValidObjects' <=> o \in ValidObjects
    OBVIOUS
  <2>1. Valid(o)' <=> Valid(o)
    BY <1>2 DEF Valid
  <2> QED  BY <1>3, <2>1 DEF ValidObjects
<1>6. list[a] = None => Known(a) \notin ValidObjects'
  <2>1. ASSUME NEW o \in Made', o = Known(a), list[a] = None  PROVE  ~Valid(o)'
    BY <1>2, <2>1 DEF Valid, SetValid, Kinds
  <2> QED  BY <1>3, <2>1 DEF ValidObjects
<1>7. list[a] # None => ValidObjects' = ValidObjects
  BY <1>2, <1>3, <1>5 DEF ValidObjects
<1> QED  BY <1>2, <1>3, <1>4, <1>5, <1>6, <1>7 DEF Received

LEMMA ArriveReceives ==
  ASSUME TypeOK, ListsHoldObjects, NEW x \in inflight, NEW again, Arrive(x, again)
  PROVE  /\ x \in AllAnswers /\ Received(x.addr)
         /\ objects' \in Seq(Module) /\ Len(objects') <= MaxObjects
         /\ Known(x.addr) <= MaxObjects
         /\ LET old == ObjectsWith(x.addr)[Known(x.addr)].sets[x.kind] IN
              /\ old \in ParameterSet
              /\ objects'[Known(x.addr)].sets[x.kind] = Applied(old, x)
         /\ \A l \in Kinds \ {x.kind} :
              objects'[Known(x.addr)].sets[l] = ObjectsWith(x.addr)[Known(x.addr)].sets[l]
         /\ \A o \in Made \ {Known(x.addr)} : objects'[o].sets = objects[o].sets
<1> DEFINE a == x.addr
           k == x.kind
           o == Known(a)
           objs == ObjectsWith(a)
           old == objs[o].sets[k]
           set == Applied(old, x)
           new == WithSet(objs, o, k, set)
<1>1. x \in AllAnswers /\ a \in Addresses /\ k \in Kinds
  BY AnswerTyped DEF TypeOK
<1>2. Known(a) <= MaxObjects /\ objects' = new
  BY DEF Arrive, AddModule, WithSet
<1>3. /\ objs \in Seq(Module) /\ Len(objs) <= MaxObjects
      /\ 1..Len(objs) = Made \cup {o}
      /\ o \in Object /\ o # None
      /\ objs[o].addr = a
      /\ \A p \in Made : objs[p] = objects[p]
      /\ IF list[a] = None
         THEN /\ o \notin Made
              /\ \A l \in Kinds : objs[o].sets[l].expected = Unknown
         ELSE o = list[a] /\ o \in Made
  <2> HIDE DEF a
  <2> QED  BY <1>1, <1>2, Receiving
<1> HIDE DEF objs
<1>4. o \in 1..Len(objs) /\ old \in ParameterSet
  <2>1. o \in 1..Len(objs)
    BY <1>3
  <2>2. objs[o] \in Module
    BY <1>3, <2>1
  <2> QED  BY <1>1, <2>1, <2>2 DEF Module
<1>5. set \in ParameterSet
  BY <1>1, <1>4, AppliedTyped
<1> HIDE DEF o, a, k, old, set
<1>6. /\ new \in Seq(Module) /\ Len(new) = Len(objs)
      /\ \A p \in 1..Len(objs) :
           /\ new[p].addr = objs[p].addr
           /\ p # o => new[p].sets = objs[p].sets
      /\ \A l \in Kinds : new[o].sets[l] = IF l = k THEN set ELSE objs[o].sets[l]
  <2>1. objs \in Seq(Module) /\ o \in 1..Len(objs) /\ k \in Kinds /\ set \in ParameterSet
    BY <1>1, <1>3, <1>4, <1>5
  <2>2. new \in Seq(Module) /\ Len(new) = Len(objs)
    BY ONLY <2>1, SetReplaced DEF new
  <2>3. ASSUME NEW p \in 1..Len(objs)
        PROVE  new[p].addr = objs[p].addr /\ (p # o => new[p].sets = objs[p].sets)
    BY ONLY <2>1, SetReplaced DEF new
  <2>4. ASSUME NEW l \in Kinds
        PROVE  new[o].sets[l] = IF l = k THEN set ELSE objs[o].sets[l]
    BY ONLY <2>1, SetReplaced DEF new
  <2> QED  BY ONLY <2>2, <2>3, <2>4
<1> HIDE DEF new
<1>7. Made' = Made \cup {o}
  BY <1>2, <1>3, <1>6 DEF Made
<1>8. (\A p \in Made : Home'[p] = Home[p]) /\ Home'[o] = a
  BY <1>2, <1>3, <1>6, <1>7 DEF Home
<1>9. \A p \in Made \ {o} : objects'[p].sets = objects[p].sets
  BY <1>2, <1>3, <1>6
<1>10. \A p \in Made \ {o} : p \in ValidObjects' <=> p \in ValidObjects
  <2> SUFFICES ASSUME NEW p \in Made \ {o}  PROVE  p \in ValidObjects' <=> p \in ValidObjects
    OBVIOUS
  <2>1. Valid(p)' <=> Valid(p)
    BY <1>9 DEF Valid
  <2> QED  BY <1>7, <2>1 DEF ValidObjects
<1>11. list[a] = None => o \notin ValidObjects'
  <2>1. PICK l \in Kinds : l # k
    BY <1>1 DEF Kinds
  <2>2. list[a] = None => objects'[o].sets[l].expected = Unknown
    BY <1>2, <1>3, <1>6, <2>1
  <2>3. ASSUME NEW p \in Made', p = o, list[a] = None  PROVE  ~Valid(p)'
    BY <2>1, <2>2, <2>3 DEF Valid, SetValid
  <2> QED  BY <1>7, <2>3 DEF ValidObjects
<1>12. Received(a)
  BY <1>3, <1>7, <1>8, <1>10, <1>11 DEF Received, o
<1> QED
  BY <1>1, <1>2, <1>3, <1>4, <1>6, <1>9, <1>12 DEF a, k, o, objs, old, set
-----------------------------------------------------------------------------
(***************************************************************************)
(* The lists.  Each lemma is about what its actions share.                 *)
(***************************************************************************)
View == <<Made, Home, ValidObjects, list, pub, initList, aged>>

\* The steps of the service that only take it to its next phase.
Moving(from, to) ==
  /\ phase = from /\ phase' = to /\ View' = View
  /\ sweepDue' = sweepDue /\ cursor' = cursor /\ inflight' \subseteq inflight

LEMMA StayKeeps ==
  ASSUME LifeInv, View' = View, phase' = phase, cursor' = cursor,
         inflight' \subseteq inflight, sweepDue => sweepDue'
  PROVE  LifeInv'
<1>1. ListsHoldObjects'
  BY DEF LifeInv, View, ListsHoldObjects
<1>2. AgedAreForgotten'
  BY DEF LifeInv, View, AgedAreForgotten, Clearing
<1>3. SweepInOrder'
  BY DEF LifeInv, View, SweepInOrder, Sweeping, Publishing
<1>4. Doomed' = Doomed
  BY DEF View, Doomed, Unpublished
<1>5. DoomedIsMet'
  BY <1>4 DEF LifeInv, View, DoomedIsMet, Sweeping
<1>6. DoomedIsAlone'
  BY <1>4 DEF LifeInv, View, DoomedIsAlone, Sweeping
<1>7. SuccessorWaits'
  BY DEF LifeInv, View, SuccessorWaits
<1> QED  BY <1>1, <1>2, <1>3, <1>5, <1>6, <1>7 DEF LifeInv

\* From a call of the service to the packets, and on to the first clear_old.
LEMMA MoveKeeps ==
  ASSUME LifeInv,
         \/ Moving("idle", "send") \/ Moving("idle", "receive")
         \/ Moving("receive", "clearPub")
         \/ Moving("poll", "receive") /\ ~sweepDue
  PROVE  LifeInv'
<1>1. ListsHoldObjects'
  BY DEF LifeInv, View, Moving, ListsHoldObjects
<1>2. AgedAreForgotten'
  BY DEF LifeInv, View, Moving, AgedAreForgotten, Clearing
<1>3. SweepInOrder'
  BY DEF LifeInv, View, Moving, SweepInOrder, Sweeping, Publishing
<1>4. Doomed' = Doomed
  BY DEF View, Moving, Doomed, Unpublished
<1>5. DoomedIsMet'
  BY <1>4 DEF LifeInv, View, Moving, DoomedIsMet, Sweeping
<1>6. DoomedIsAlone'
  BY <1>4 DEF LifeInv, View, Moving, DoomedIsAlone, DoomedIsMet, Sweeping
<1>7. SuccessorWaits'
  BY DEF LifeInv, View, Moving, SuccessorWaits
<1> QED  BY <1>1, <1>2, <1>3, <1>5, <1>6, <1>7 DEF LifeInv

\* Sending may put answers on the bus.
LEMMA SendKeeps ==
  ASSUME LifeInv, View' = View, phase = "send", phase' = "poll",
         sweepDue' = sweepDue, cursor' = cursor
  PROVE  LifeInv'
<1>1. ListsHoldObjects'
  BY DEF LifeInv, View, ListsHoldObjects
<1>2. AgedAreForgotten'
  BY DEF LifeInv, View, AgedAreForgotten, Clearing
<1>3. SweepInOrder'
  BY DEF LifeInv, View, SweepInOrder, Sweeping, Publishing
<1>4. Doomed' = Doomed
  BY DEF View, Doomed, Unpublished
<1>5. DoomedIsMet'
  BY <1>4 DEF LifeInv, View, DoomedIsMet, Sweeping
<1>6. DoomedIsAlone'
  BY <1>4 DEF LifeInv, View, DoomedIsAlone, Sweeping
<1>7. SuccessorWaits'
  BY DEF LifeInv, View, SuccessorWaits
<1> QED  BY <1>1, <1>2, <1>3, <1>5, <1>6, <1>7 DEF LifeInv

\* What else the type invariant says of the addresses of objects.
LEMMA HomeTyped ==
  ASSUME TypeOK
  PROVE  /\ \A o \in Made : Home[o] \in Addresses /\ o # None
         /\ ValidObjects \subseteq Made
         /\ initList \in Seq(Object) /\ Len(initList) \in Nat /\ cursor \in 1..Len(initList) + 1
<1>1. \A o \in Made : objects[o] \in Module
  BY DEF TypeOK, Made
<1>2. \A o \in Made : objects[o].addr \in Addresses
  BY <1>1 DEF Module
<1> QED  BY <1>2 DEF TypeOK, Made, Home, ValidObjects, None

\* A sweep begins, passes an object that is not valid, or ends.
LEMMA SweepKeeps ==
  ASSUME TypeOK, LifeInv, View' = View, inflight' \subseteq inflight,
         \/ /\ phase = "poll" /\ phase' = "sweep" /\ cursor' = cursor
         \/ /\ phase = "sweep" /\ phase' = "sweep" /\ cursor' = cursor + 1
            /\ cursor <= Len(initList) /\ ~Valid(initList[cursor])
         \/ /\ phase = "sweep" /\ phase' = "receive" /\ cursor' = 1
            /\ cursor > Len(initList)
  PROVE  LifeInv'
<1>1. ListsHoldObjects'
  BY DEF LifeInv, View, ListsHoldObjects
<1>2. AgedAreForgotten'
  BY DEF LifeInv, View, AgedAreForgotten, Clearing
<1>3. SweepInOrder'
  BY DEF LifeInv, View, SweepInOrder, Sweeping, Publishing
<1>4. Doomed' = Doomed
  BY DEF View, Doomed, Unpublished
<1>5. \A o \in Doomed : Valid(o) /\ \E j \in 1..Len(initList) : initList[j] = o
  BY DEF Doomed, ValidObjects, Unpublished
<1>6. initList' = initList /\ Len(initList) \in Nat /\ cursor \in Nat
  BY HomeTyped DEF View
<1>7. DoomedIsMet'
  <2>1. CASE phase = "poll"
    BY <1>4, <1>6, <2>1 DEF LifeInv, SweepInOrder, DoomedIsMet, Sweeping
  <2>2. CASE phase = "sweep" /\ phase' = "sweep"
    <3>1. \A j \in 1..cursor - 1 : initList[j] \notin Doomed
      BY <2>2 DEF LifeInv, DoomedIsMet, Sweeping
    <3>2. initList[cursor] \notin Doomed
      BY <1>5, <2>2
    <3>3. \A j \in 1..cursor' - 1 : initList[j] \notin Doomed
      BY <1>6, <2>2, <3>1, <3>2
    <3> QED  BY <1>4, <1>6, <2>2, <3>3 DEF DoomedIsMet, Sweeping
  <2>3. CASE phase = "sweep" /\ phase' = "receive"
    <3>1. \A j \in 1..cursor - 1 : initList[j] \notin Doomed
      BY <2>3 DEF LifeInv, DoomedIsMet, Sweeping
    <3>2. Doomed = {}
      BY <1>5, <1>6, <2>3, <3>1
    <3> QED  BY <1>4, <2>3, <3>2 DEF DoomedIsMet, Sweeping
  <2> QED  BY <2>1, <2>2, <2>3
<1>8. phase' = "receive" => Doomed = {}
  <2> SUFFICES ASSUME phase' = "receive"  PROVE  Doomed = {}
    OBVIOUS
  <2>1. \A j \in 1..cursor - 1 : initList[j] \notin Doomed
    BY DEF LifeInv, DoomedIsMet, Sweeping
  <2> QED  BY <1>5, <1>6, <2>1
<1>9. DoomedIsAlone'
  BY <1>4, <1>8 DEF LifeInv, View, DoomedIsAlone, Sweeping
<1>10. SuccessorWaits'
  BY DEF LifeInv, View, SuccessorWaits
<1> QED  BY <1>1, <1>2, <1>3, <1>7, <1>9, <1>10 DEF LifeInv

\* A sweep never meets a valid object whose address is taken in module_list_pub_,
\* so that insert publishes the object it is given.
LEMMA PublishesToEmpty ==
  ASSUME TypeOK, LifeInv, phase = "sweep", AtValid
  PROVE  pub[Home[initList[cursor]]] = None
<1> DEFINE o == initList[cursor]
           a == Home[o]
<1>1. /\ cursor \in 1..Len(initList) /\ o \in Made /\ a \in Addresses /\ Unpublished(o)
      /\ o \in ValidObjects
  BY HomeTyped DEF LifeInv, ListsHoldObjects, AtValid, Unpublished, ValidObjects
<1>2. SUFFICES ASSUME pub[a] # None  PROVE  FALSE
  OBVIOUS
<1>3. pub[a] # o
  BY <1>1 DEF LifeInv, SweepInOrder, Publishing
<1>4. CASE o \in aged
  <2>1. o \in Doomed
    BY <1>1, <1>4 DEF Doomed
  <2> QED  BY <1>2, <1>3, <2>1 DEF LifeInv, DoomedIsAlone
<1>5. CASE o \notin aged
  <2>1. list[a] = o
    BY <1>1, <1>5 DEF LifeInv, AgedAreForgotten
  <2>2. pub[a] \in Made /\ Home[pub[a]] = a
    BY <1>1, <1>2 DEF LifeInv, ListsHoldObjects
  <2>3. pub[a] \in aged
    BY <1>3, <2>1, <2>2 DEF LifeInv, AgedAreForgotten
  <2> QED  BY <1>1, <1>3, <2>1, <2>3 DEF LifeInv, SuccessorWaits
<1> QED  BY <1>4, <1>5

LEMMA InsertKeeps ==
  ASSUME TypeOK, LifeInv, PublishInsert
  PROVE  /\ LifeInv'
         /\ initList[cursor] \in Made /\ Home[initList[cursor]] \in Addresses
         /\ pub' = [pub EXCEPT ![Home[initList[cursor]]] = initList[cursor]]
         /\ pub[Home[initList[cursor]]] = None
<1> DEFINE o == initList[cursor]
           a == Home[o]
<1>1. /\ cursor \in 1..Len(initList) /\ o \in Made /\ a \in Addresses /\ Unpublished(o)
      /\ o \in ValidObjects /\ pub[a] = None
  BY HomeTyped, PublishesToEmpty
     DEF LifeInv, ListsHoldObjects, PublishInsert, Go, AtValid, Unpublished, ValidObjects
<1>2. pub' = [pub EXCEPT ![a] = o]
  BY <1>1 DEF PublishInsert, Inserted, Home
<1>3. /\ phase = "sweep" /\ phase' = "announce" /\ cursor' = cursor /\ list' = list
      /\ initList' = initList /\ aged' = aged /\ sweepDue' = sweepDue /\ inflight' = inflight
      /\ objects' = objects
  BY DEF PublishInsert, Go, objectVars
<1>4. Made' = Made /\ Home' = Home
  BY <1>3 DEF Made, Home
<1>5. ValidObjects' = ValidObjects
  BY <1>3, <1>4 DEF ValidObjects, Valid
<1>6. Doomed' = Doomed
  BY <1>3, <1>5 DEF Doomed, Unpublished
<1>7. pub \in [Addresses -> Object \cup {None}] /\ \A p \in Made : Home[p] \in Addresses
  BY HomeTyped DEF TypeOK
<1> HIDE DEF a
<1>8. ListsHoldObjects'
  BY <1>1, <1>2, <1>3, <1>4, <1>7 DEF LifeInv, ListsHoldObjects, a
<1>9. AgedAreForgotten'
  BY <1>3, <1>4 DEF LifeInv, AgedAreForgotten, Clearing
<1>10. SweepInOrder'
  <2>1. \A j \in 1..Len(initList) : pub'[Home[initList[j]]] = initList[j] => j = cursor
    BY <1>1, <1>2, <1>3, <1>7 DEF LifeInv, ListsHoldObjects, SweepInOrder, Publishing
  <2>2. pub'[a] = o /\ cursor <= Len(initList)
    BY <1>1, <1>2, <1>7
  <2> QED  BY <1>3, <1>4, <2>1, <2>2 DEF SweepInOrder, Sweeping, Publishing, a
<1>11. DoomedIsMet'
  BY <1>3, <1>6 DEF LifeInv, DoomedIsMet, Sweeping
<1>12. \A p \in Doomed : Home[p] = a => p = o
  <2>1. CASE o \in aged
    <3>1. o \in Doomed
      BY <1>1, <2>1 DEF Doomed
    <3> QED  BY <3>1 DEF LifeInv, DoomedIsAlone, a
  <2>2. CASE o \notin aged
    <3>1. list[a] = o
      BY <1>1, <2>2 DEF LifeInv, AgedAreForgotten, a
    <3> QED  BY <1>1, <3>1 DEF LifeInv, DoomedIsAlone
  <2> QED  BY <2>1, <2>2
<1>13. DoomedIsAlone'
  <2>1. \A p \in Doomed : pub'[Home[p]] \in {None, p}
    <3> SUFFICES ASSUME NEW p \in Doomed  PROVE  pub'[Home[p]] \in {None, p}
      OBVIOUS
    <3>1. pub[Home[p]] \in {None, p} /\ Home[p] \in Addresses
      BY <1>3, <1>7, HomeTyped DEF LifeInv, DoomedIsAlone, Doomed
    <3> QED  BY <1>1, <1>2, <1>7, <1>12, <3>1
  <2> QED  BY <1>3, <1>4, <1>5, <1>6, <2>1 DEF LifeInv, DoomedIsAlone, Sweeping
<1>14. SuccessorWaits'
  <2>1. o \in aged /\ list[a] \in ValidObjects => list[a] = o
    <3>1. o \in aged => o \in Doomed
      BY <1>1 DEF Doomed
    <3> QED  BY <3>1 DEF LifeInv, DoomedIsAlone, a
  <2> QED  BY <1>1, <1>2, <1>3, <1>5, <1>7, <2>1 DEF LifeInv, SuccessorWaits
<1> QED
  BY <1>1, <1>2, <1>8, <1>9, <1>10, <1>11, <1>13, <1>14 DEF LifeInv, a

\* What is behind the place in a sequence moves to it.
LEMMA RemovedAt ==
  ASSUME NEW S, NEW s \in Seq(S), NEW p \in 1..Len(s)
  PROVE  /\ RemoveAt(s, p) \in Seq(S) /\ Len(RemoveAt(s, p)) = Len(s) - 1
         /\ \A i \in 1..Len(s) - 1 : RemoveAt(s, p)[i] = IF i < p THEN s[i] ELSE s[i + 1]
<1> DEFINE front == SubSeq(s, 1, p - 1)
           back == SubSeq(s, p + 1, Len(s))
<1>1. /\ front \in Seq(S) /\ Len(front) = p - 1
      /\ \A i \in 1..p - 1 : front[i] = s[i]
  OBVIOUS
<1>2. /\ back \in Seq(S) /\ Len(back) = Len(s) - p
      /\ \A i \in 1..Len(s) - p : back[i] = s[i + p]
  OBVIOUS
<1>3. RemoveAt(s, p) = front \o back
  BY DEF RemoveAt
<1> HIDE DEF front, back
<1>4. /\ front \o back \in Seq(S) /\ Len(front \o back) = Len(front) + Len(back)
      /\ \A i \in 1..Len(front) + Len(back) :
           (front \o back)[i] = IF i <= Len(front) THEN front[i] ELSE back[i - Len(front)]
  <2>1. front \in Seq(S) /\ back \in Seq(S)
    BY <1>1, <1>2
  <2> QED  BY <2>1, SMTT(30)
<1>5. Len(front) + Len(back) = Len(s) - 1 /\ Len(s) \in Nat
  BY <1>1, <1>2
<1>6. ASSUME NEW i \in 1..Len(s) - 1
      PROVE  (front \o back)[i] = IF i < p THEN s[i] ELSE s[i + 1]
  <2>1. CASE i < p
    BY <1>1, <1>4, <1>5, <2>1
  <2>2. CASE i >= p
    <3>1. (front \o back)[i] = back[i - (p - 1)]
      BY <1>1, <1>4, <1>5, <2>2
    <3>2. i - (p - 1) \in 1..Len(s) - p /\ i - (p - 1) + p = i + 1
      BY <1>5, <2>2
    <3>3. back[i - (p - 1)] = s[i - (p - 1) + p]
      BY <1>2, <3>2
    <3> QED  BY <2>2, <3>1, <3>2, <3>3
  <2> QED  BY <1>5, <2>1, <2>2
<1> QED  BY <1>3, <1>4, <1>5, <1>6

LEMMA AnnounceKeeps ==
  ASSUME TypeOK, LifeInv, PublishAnnounce
  PROVE  /\ LifeInv'
         /\ initList' \in Seq(Object) /\ cursor' \in 1..Len(initList') + 1
         /\ cursor <= Len(initList) /\ initList[cursor] \in Made
         /\ pub[Home[initList[cursor]]] = initList[cursor]
         /\ \A o \in Made : Unpublished(o) => Unpublished(o)' \/ o = initList[cursor]
<1>1. /\ phase = "announce" /\ phase' = "sweep" /\ cursor' = cursor /\ list' = list
      /\ pub' = pub /\ aged' = aged /\ sweepDue' = sweepDue /\ inflight' = inflight
      /\ objects' = objects /\ initList' = RemoveAt(initList, cursor)
  BY DEF PublishAnnounce, Go, objectVars
<1>2. Made' = Made /\ Home' = Home
  BY <1>1 DEF Made, Home
<1>3. ValidObjects' = ValidObjects
  BY <1>1, <1>2 DEF ValidObjects, Valid
<1>4. /\ cursor \in 1..Len(initList) /\ initList \in Seq(Object) /\ Len(initList) \in Nat
      /\ pub[Home[initList[cursor]]] = initList[cursor] /\ initList[cursor] \in Made
  BY <1>1, HomeTyped DEF LifeInv, SweepInOrder, Publishing, ListsHoldObjects
<1>5. /\ initList' \in Seq(Object) /\ Len(initList') = Len(initList) - 1
      /\ \A j \in 1..Len(initList') :
           initList'[j] = IF j < cursor THEN initList[j] ELSE initList[j + 1]
  BY <1>1, <1>4, RemovedAt
<1>6. \A j \in 1..Len(initList') : \E i \in 1..Len(initList) :
        i # cursor /\ initList'[j] = initList[i]
  BY <1>4, <1>5
<1>7. ListsHoldObjects'
  <2>1. \A i, j \in 1..Len(initList') : initList'[i] = initList'[j] => i = j
    BY <1>4, <1>5 DEF LifeInv, ListsHoldObjects
  <2>2. \A j \in 1..Len(initList') : initList'[j] \in Made
    BY <1>6 DEF LifeInv, ListsHoldObjects
  <2> QED  BY <1>1, <1>2, <2>1, <2>2 DEF LifeInv, ListsHoldObjects
<1>8. AgedAreForgotten'
  BY <1>1, <1>2 DEF LifeInv, AgedAreForgotten, Clearing
<1>9. SweepInOrder'
  BY <1>1, <1>2, <1>6 DEF LifeInv, SweepInOrder, Sweeping, Publishing
<1>10. Doomed' \subseteq Doomed
  BY <1>1, <1>3, <1>6 DEF Doomed, Unpublished
<1>11. DoomedIsMet'
  <2>1. \A j \in 1..cursor - 1 : initList'[j] = initList[j]
    BY <1>4, <1>5
  <2> QED  BY <1>1, <1>10, <2>1 DEF LifeInv, DoomedIsMet, Sweeping
<1>12. DoomedIsAlone'
  BY <1>1, <1>2, <1>3, <1>10 DEF LifeInv, DoomedIsAlone, Sweeping
<1>13. SuccessorWaits'
  BY <1>1, <1>3 DEF LifeInv, SuccessorWaits
<1>14. \A o \in Made : Unpublished(o) => Unpublished(o)' \/ o = initList[cursor]
  <2> SUFFICES ASSUME NEW i \in 1..Len(initList), i # cursor
               PROVE  \E j \in 1..Len(initList') : initList'[j] = initList[i]
    BY <1>1 DEF Unpublished
  <2>1. CASE i < cursor
    BY <1>4, <1>5, <2>1
  <2>2. CASE i > cursor
    <3>1. i - 1 \in 1..Len(initList') /\ initList'[i - 1] = initList[i - 1 + 1]
      BY <1>4, <1>5, <2>2
    <3> QED  BY <1>4, <3>1
  <2> QED  BY <1>4, <2>1, <2>2
<1> QED
  BY <1>1, <1>4, <1>5, <1>7, <1>8, <1>9, <1>11, <1>12, <1>13, <1>14 DEF LifeInv

\* A packet: an object that waits, doomed, for its address hears nothing more, and
\* its successor stays as it is until the sweep.
LEMMA ReceiveKeeps ==
  ASSUME TypeOK, LifeInv, NEW a \in Addresses, phase = "receive", AddModule(a), Received(a),
         \/ \E x \in inflight : x.addr = a
         \/ list[a] # None => ValidObjects' = ValidObjects,
         inflight' \subseteq inflight, pub' = pub, loopVars' = loopVars
  PROVE  LifeInv' /\ aged' = aged /\ initList' \in Seq(Object) /\ Len(initList) <= Len(initList')
<1> DEFINE o == Known(a)
<1>1. /\ phase' = "receive" /\ cursor' = cursor /\ sweepDue' = sweepDue
      /\ initList \in Seq(Object) /\ \A p \in Made : Home[p] \in Addresses /\ p # None
      /\ list \in [Addresses -> Object \cup {None}] /\ ValidObjects \subseteq Made
      /\ aged \subseteq Made /\ o # None /\ o \in Object
  BY HomeTyped DEF loopVars, TypeOK, LifeInv, ListsHoldObjects, Received
<1>2. /\ aged' = aged \ {o}
      /\ IF list[a] = None
         THEN list' = [list EXCEPT ![a] = o] /\ initList' = Append(initList, o)
         ELSE list' = list /\ initList' = initList
  BY DEF AddModule
<1>3. /\ Made' = Made \cup {o}
      /\ \A p \in Made : Home'[p] = Home[p]
      /\ Home'[o] = a
      /\ \A p \in Made \ {o} : p \in ValidObjects' <=> p \in ValidObjects
      /\ IF list[a] = None THEN o \notin Made /\ o \notin ValidObjects'
         ELSE o = list[a] /\ o \in Made
  BY DEF Received
<1> HIDE DEF o
<1>4. o \notin aged /\ aged' = aged
  <2>1. list[a] \notin aged
    BY DEF LifeInv, AgedAreForgotten, Clearing
  <2> QED  BY <1>1, <1>2, <1>3, <2>1
<1>5. /\ initList' \in Seq(Object) /\ Len(initList') \in {Len(initList), Len(initList) + 1}
      /\ \A j \in 1..Len(initList) : initList'[j] = initList[j]
      /\ \A j \in 1..Len(initList') :
           j \in 1..Len(initList) \/ (j = Len(initList) + 1 /\ initList'[j] = o /\ o \notin Made)
  <2>1. CASE list[a] = None
    <3>1. /\ Append(initList, o) \in Seq(Object)
          /\ Len(Append(initList, o)) = Len(initList) + 1
          /\ Append(initList, o)[Len(initList) + 1] = o
          /\ \A j \in 1..Len(initList) : Append(initList, o)[j] = initList[j]
      BY <1>1, AppendProperties
    <3> QED  BY <1>1, <1>2, <1>3, <2>1, <3>1
  <2>2. CASE list[a] # None
    BY <1>1, <1>2, <2>2
  <2> QED  BY <2>1, <2>2
<1>6. \A b \in Addresses : list'[b] = IF b = a THEN o ELSE list[b]
  BY <1>1, <1>2, <1>3
<1>7. ListsHoldObjects'
  BY <1>1, <1>3, <1>4, <1>5, <1>6 DEF LifeInv, ListsHoldObjects
<1>8. AgedAreForgotten'
  <2>1. \A p \in Made' : list'[Home'[p]] = p \/ p \in aged'
    BY <1>1, <1>3, <1>4, <1>6 DEF LifeInv, AgedAreForgotten
  <2>2. \A b \in Addresses : list'[b] \notin aged'
    BY <1>1, <1>4, <1>6 DEF LifeInv, AgedAreForgotten, Clearing
  <2> QED  BY <2>1, <2>2 DEF AgedAreForgotten
<1>9. SweepInOrder'
  BY <1>1, <1>3, <1>5 DEF LifeInv, ListsHoldObjects, SweepInOrder, Sweeping, Publishing
<1>10. Doomed' \subseteq Doomed
  <2> SUFFICES ASSUME NEW p \in Doomed'  PROVE  p \in Doomed
    OBVIOUS
  <2>1. p \in ValidObjects' /\ p \in aged /\ p # o /\ p \in Made
    BY <1>1, <1>4 DEF Doomed
  <2>2. PICK j \in 1..Len(initList') : initList'[j] = p
    BY DEF Doomed, Unpublished
  <2>3. j \in 1..Len(initList) /\ initList[j] = p
    BY <1>5, <2>1, <2>2
  <2> QED  BY <1>3, <2>1, <2>3 DEF Doomed, Unpublished
<1>11. DoomedIsMet'
  BY <1>1, <1>10 DEF LifeInv, DoomedIsMet, Sweeping
<1>12. DoomedIsAlone'
  <2>1. ASSUME NEW p \in Doomed  PROVE  list'[Home[p]] \in ValidObjects' => list'[Home[p]] = p
    <3> DEFINE b == Home[p]
    <3>1. p \in Made /\ b \in Addresses
      BY <1>1 DEF Doomed
    <3>2. /\ list[b] \in ValidObjects => list[b] = p
          /\ \A x \in inflight : x.addr # b
      BY <1>1, <3>1 DEF LifeInv, DoomedIsAlone, Sweeping
    <3>3. CASE b = a
      BY <1>3, <1>6, <3>1, <3>2, <3>3
    <3>4. CASE b # a
      <4>1. list'[b] = list[b] /\ (list[b] # None => list[b] \in Made /\ list[b] # o)
        BY <1>3, <1>6, <3>1, <3>4 DEF LifeInv, ListsHoldObjects
      <4>2. list[b] = None => list[b] \notin ValidObjects'
        <5>1. ValidObjects' \subseteq Made'
          BY DEF ValidObjects
        <5> QED  BY <1>1, <1>3, <5>1
      <4> QED  BY <1>3, <3>2, <4>1, <4>2
    <3> QED  BY <3>3, <3>4
  <2>2. \A p \in Doomed : p \in Made
    BY <1>1 DEF Doomed
  <2> QED  BY <1>1, <1>3, <1>4, <1>10, <2>1, <2>2 DEF LifeInv, DoomedIsAlone, Sweeping
<1>13. SuccessorWaits'
  BY <1>1 DEF SuccessorWaits
<1> QED  BY <1>1, <1>4, <1>5, <1>7, <1>8, <1>9, <1>11, <1>12, <1>13 DEF LifeInv

LEMMA ClearPubKeeps ==
  ASSUME TypeOK, LifeInv, ClearPub
  PROVE  LifeInv'
<1>1. /\ phase = "clearPub" /\ phase' = "clearList" /\ cursor' = cursor /\ list' = list
      /\ aged' = aged /\ sweepDue' = sweepDue /\ inflight' = inflight
      /\ objects' = objects /\ initList' = initList
  BY DEF ClearPub, Go, objectVars
<1>2. \A a \in Addresses : pub'[a] = IF pub[a] \in aged THEN None ELSE pub[a]
  BY DEF ClearPub, Cleared
<1>3. Made' = Made /\ Home' = Home
  BY <1>1 DEF Made, Home
<1>4. ValidObjects' = ValidObjects
  BY <1>1, <1>3 DEF ValidObjects, Valid
<1>5. Doomed' = Doomed
  BY <1>1, <1>4 DEF Doomed, Unpublished
<1>6. (\A o \in Made : Home[o] \in Addresses /\ o # None) /\ ValidObjects \subseteq Made
  BY HomeTyped
<1>7. ListsHoldObjects'
  BY <1>1, <1>2, <1>3 DEF LifeInv, ListsHoldObjects
<1>8. AgedAreForgotten'
  BY <1>1, <1>3 DEF LifeInv, AgedAreForgotten, Clearing
<1>9. SweepInOrder'
  BY <1>1, <1>2, <1>3, <1>6 DEF LifeInv, ListsHoldObjects, SweepInOrder, Sweeping, Publishing
<1>10. DoomedIsMet'
  BY <1>1, <1>5 DEF LifeInv, DoomedIsMet, Sweeping
<1>11. DoomedIsAlone'
  <2>1. \A o \in Doomed : o \in Made
    BY <1>6 DEF Doomed
  <2> QED
    BY <1>1, <1>2, <1>3, <1>4, <1>5, <1>6, <2>1 DEF LifeInv, DoomedIsAlone, Sweeping
<1>12. SuccessorWaits'
  <2>1. \A a \in Addresses : pub'[a] \notin aged
    BY <1>2, <1>6 DEF LifeInv, ListsHoldObjects
  <2> QED  BY <1>1, <2>1 DEF SuccessorWaits
<1> QED  BY <1>7, <1>8, <1>9, <1>10, <1>11, <1>12 DEF LifeInv

LEMMA ClearListKeeps ==
  ASSUME TypeOK, LifeInv, ClearList
  PROVE  LifeInv'
<1>1. /\ phase = "clearList" /\ phase' = "idle" /\ cursor' = cursor /\ pub' = pub
      /\ aged' = aged /\ sweepDue' = sweepDue /\ inflight' = inflight
      /\ objects' = objects /\ initList' = initList
  BY DEF ClearList, Go, objectVars
<1>2. \A a \in Addresses : list'[a] = IF list[a] \in aged THEN None ELSE list[a]
  BY DEF ClearList, Cleared
<1>3. Made' = Made /\ Home' = Home
  BY <1>1 DEF Made, Home
<1>4. ValidObjects' = ValidObjects
  BY <1>1, <1>3 DEF ValidObjects, Valid
<1>5. Doomed' = Doomed
  BY <1>1, <1>4 DEF Doomed, Unpublished
<1>6. (\A o \in Made : Home[o] \in Addresses /\ o # None) /\ ValidObjects \subseteq Made
  BY HomeTyped
<1>7. ListsHoldObjects'
  BY <1>1, <1>2, <1>3 DEF LifeInv, ListsHoldObjects
<1>8. AgedAreForgotten'
  <2>1. \A a \in Addresses : list'[a] \notin aged
    BY <1>2, <1>6 DEF LifeInv, ListsHoldObjects
  <2>2. \A o \in Made : list'[Home[o]] = o \/ o \in aged
    BY <1>2, <1>6 DEF LifeInv, AgedAreForgotten
  <2> QED  BY <1>1, <1>3, <2>1, <2>2 DEF AgedAreForgotten
<1>9. SweepInOrder'
  BY <1>1, <1>3 DEF LifeInv, SweepInOrder, Sweeping, Publishing
<1>10. DoomedIsMet'
  BY <1>1, <1>5 DEF LifeInv, DoomedIsMet, Sweeping
<1>11. DoomedIsAlone'
  <2>1. \A o \in Doomed : o \in Made
    BY <1>6 DEF Doomed
  <2> QED
    BY <1>1, <1>2, <1>3, <1>4, <1>5, <1>6, <2>1 DEF LifeInv, DoomedIsAlone, Sweeping
<1>12. SuccessorWaits'
  BY <1>1, <1>2, <1>4, <1>6 DEF LifeInv, SuccessorWaits
<1> QED  BY <1>7, <1>8, <1>9, <1>10, <1>11, <1>12 DEF LifeInv

\* An object becomes too old, and with it doomed if it waits to be published.
LEMMA AgeKeeps ==
  ASSUME TypeOK, LifeInv, NEW o \in Made, Age(o)
  PROVE  LifeInv'
<1> DEFINE a == Home[o]
<1>1. /\ phase \in {"clearPub", "clearList"} /\ phase' = phase /\ cursor' = cursor
      /\ list' = list /\ pub' = pub /\ initList' = initList /\ inflight' = inflight
      /\ objects' = objects /\ aged' = aged \cup {o} /\ o \notin aged
      /\ sweepDue' = (sweepDue \/ (Unpublished(o) /\ Valid(o)))
      /\ \A x \in inflight : x.addr # objects[o].addr
  BY DEF Age, listVars
<1>2. Made' = Made /\ Home' = Home
  BY <1>1 DEF Made, Home
<1>3. ValidObjects' = ValidObjects
  BY <1>1, <1>2 DEF ValidObjects, Valid
<1>4. /\ \A p \in Made : Home[p] \in Addresses /\ p # None
      /\ ValidObjects \subseteq Made
  BY HomeTyped
<1>5. a \in Addresses /\ list[a] = o
  BY <1>1, <1>4 DEF LifeInv, AgedAreForgotten
<1>6. \A x \in inflight : x.addr # a
  BY <1>1 DEF Home
<1> HIDE DEF a
<1>7. /\ \A p \in Doomed' : p \in Doomed \/ p = o
      /\ Doomed \subseteq Doomed'
      /\ \A p \in Doomed' : p \in Made
      /\ o \in Doomed' => o \in ValidObjects /\ Unpublished(o) /\ Valid(o)
  BY <1>1, <1>3, <1>4 DEF Doomed, Unpublished, ValidObjects
<1>8. ListsHoldObjects'
  BY <1>1, <1>2 DEF LifeInv, ListsHoldObjects
<1>9. AgedAreForgotten'
  BY <1>1, <1>2 DEF LifeInv, AgedAreForgotten, Clearing
<1>10. SweepInOrder'
  BY <1>1, <1>2 DEF LifeInv, SweepInOrder, Sweeping, Publishing
<1>11. DoomedIsMet'
  BY <1>1, <1>7 DEF LifeInv, DoomedIsMet, Sweeping
<1>12. ASSUME o \in Doomed', NEW p \in Doomed  PROVE  Home[p] # a
  <2>1. Home[p] = a => o = p
    BY <1>5, <1>7, <1>12 DEF LifeInv, DoomedIsAlone
  <2> QED  BY <1>1, <2>1 DEF Doomed
<1>13. ASSUME o \in Doomed'
       PROVE  pub[a] \in {None, o} \/ (phase = "clearPub" /\ pub[a] \in aged)
  <2> SUFFICES ASSUME pub[a] \notin {None, o}
               PROVE  phase = "clearPub" /\ pub[a] \in aged
    OBVIOUS
  <2>1. pub[a] \in Made /\ Home[pub[a]] = a
    BY <1>5 DEF LifeInv, ListsHoldObjects
  <2>2. pub[a] \in aged
    BY <1>5, <2>1 DEF LifeInv, AgedAreForgotten
  <2> QED  BY <1>1, <1>5, <1>7, <1>13, <2>2 DEF LifeInv, SuccessorWaits
<1>14. DoomedIsAlone'
  <2>1. ASSUME NEW p \in Doomed
        PROVE  /\ list[Home[p]] \in ValidObjects => list[Home[p]] = p
               /\ \A x \in inflight : x.addr # Home[p]
               /\ pub[Home[p]] \in {None, p} \/ (phase = "clearPub" /\ pub[Home[p]] \in aged')
               /\ \A q \in Doomed' : Home[q] = Home[p] => q = p
    BY <1>1, <1>7, <1>12 DEF LifeInv, DoomedIsAlone, Sweeping, a
  <2>2. ASSUME o \in Doomed'
        PROVE  \A q \in Doomed' : Home[q] = a => q = o
    BY <1>7, <1>12, <2>2
  <2> QED
    BY <1>1, <1>2, <1>3, <1>5, <1>6, <1>7, <1>13, <2>1, <2>2 DEF DoomedIsAlone, a
<1>15. SuccessorWaits'
  <2>1. \A b \in Addresses : pub[b] = o => b = a
    BY <1>4 DEF LifeInv, ListsHoldObjects, a
  <2> QED  BY <1>1, <1>3, <1>5, <2>1 DEF LifeInv, SuccessorWaits
<1> QED  BY <1>8, <1>9, <1>10, <1>11, <1>14, <1>15 DEF LifeInv

LEMMA InitLife == Init => TypeOK /\ LifeInv
<1> SUFFICES ASSUME Init  PROVE  TypeOK /\ LifeInv
  OBVIOUS
<1>1. TypeOK
  <2>1. \A S : <<>> \in Seq(S) /\ Len(<<>>) = 0
    OBVIOUS
  <2>2. /\ objects \in Seq(Module) /\ Len(objects) <= MaxObjects
        /\ initList \in Seq(Object) /\ slow \in Seq(Addresses \X Kinds)
        /\ updates \in Seq([type : {"added", "removed"}, addr : Addresses])
        /\ cursor \in 1..Len(initList) + 1
    BY <2>1, LifecycleAssumption DEF Init
  <2> QED  BY <2>2 DEF Init, TypeOK, Phases
<1>2. Made = {} /\ ValidObjects = {} /\ Doomed = {}
  BY DEF Init, Made, ValidObjects, Doomed
<1>3. ListsHoldObjects /\ AgedAreForgotten /\ SweepInOrder
  BY <1>2 DEF Init, ListsHoldObjects, AgedAreForgotten, SweepInOrder, Sweeping, Publishing
<1>4. DoomedIsMet /\ DoomedIsAlone /\ SuccessorWaits
  BY <1>2 DEF Init, DoomedIsMet, DoomedIsAlone, SuccessorWaits, Sweeping
<1> QED  BY <1>1, <1>3, <1>4 DEF LifeInv
-----------------------------------------------------------------------------
(***************************************************************************)
(* The updates that clear_old appends.                                     *)
(***************************************************************************)
Update == [type : {"added", "removed"}, addr : Addresses]

\* A finite set is listed by SetToSeq, each member once.
LEMMA SetToSeqListsSet ==
  ASSUME NEW S, IsFiniteSet(S)
  PROVE  /\ SetToSeq(S) \in Seq(S)
         /\ \A i, j \in 1..Len(SetToSeq(S)) : SetToSeq(S)[i] = SetToSeq(S)[j] => i = j
         /\ \A x \in S : \E i \in 1..Len(SetToSeq(S)) : SetToSeq(S)[i] = x
<1> DEFINE n == Cardinality(S)
           f == SetToSeq(S)
<1>1. n \in Nat /\ ExistsBijection(1..n, S)
  BY FS_CardinalityType
<1>2. \E g \in [1..n -> S] : IsInjective(g)
  BY <1>1 DEF ExistsBijection, Bijection, Injection
<1>3. f \in [1..n -> S] /\ IsInjective(f)
  BY <1>2 DEF SetToSeq
<1>4. IsFiniteSet(1..n) /\ Cardinality(1..n) = n
  BY <1>1, FS_Interval
<1> HIDE DEF f
<1>5. f \in Injection(1..n, S)
  BY <1>3 DEF Injection
<1>6. f \in Surjection(1..n, S)
  BY <1>4, <1>5, FS_Injection
<1>7. \A x \in S : \E i \in 1..n : f[i] = x
  BY <1>6 DEF Surjection
<1>8. f \in Seq(S) /\ Len(f) = n
  BY <1>1, <1>3
<1>9. \A i, j \in 1..n : f[i] = f[j] => i = j
  BY <1>3 DEF IsInjective
<1> QED  BY <1>7, <1>8, <1>9 DEF f

\* clear_old reports each module it takes from module_list_pub_ once.
LEMMA RemovalsListed ==
  ASSUME TypeOK, LifeInv
  PROVE  LET removed == SetToSeq(Removals(pub)) IN
         /\ removed \in Seq(Update)
         /\ \A i \in 1..Len(removed) :
              /\ removed[i].type = "removed" /\ removed[i].addr \in Addresses
              /\ pub[removed[i].addr] \in aged
         /\ \A i, j \in 1..Len(removed) : removed[i].addr = removed[j].addr => i = j
         /\ \A a \in Addresses :
              pub[a] \in aged => \E i \in 1..Len(removed) : removed[i].addr = a
<1> DEFINE S == Removals(pub)
           removed == SetToSeq(S)
           f == [u \in S |-> pub[u.addr]]
<1>1. \A u \in S : /\ u \in Update /\ u.type = "removed" /\ u.addr \in Addresses
                   /\ pub[u.addr] \in aged /\ u = [type |-> "removed", addr |-> u.addr]
  BY DEF Removals, Update
<1>2. \A a \in Addresses : pub[a] \in aged =>
        [type |-> "removed", addr |-> a] \in S
  BY DEF Removals
<1> HIDE DEF S
<1>3. \A u \in S : pub[u.addr] \in Made /\ Home[pub[u.addr]] = u.addr
  BY <1>1, HomeTyped DEF LifeInv, ListsHoldObjects
<1>4. f \in Injection(S, Made)
  <2>1. f \in [S -> Made]
    BY <1>3
  <2>2. ASSUME NEW u \in S, NEW v \in S, f[u] = f[v]  PROVE  u = v
    BY <1>1, <1>3, <2>2
  <2> QED  BY <2>1, <2>2 DEF Injection, IsInjective
<1>5. IsFiniteSet(Made)
  BY FS_Interval DEF TypeOK, Made
<1>6. IsFiniteSet(S)
  BY <1>4, <1>5, FS_Injection
<1>7. /\ removed \in Seq(S)
      /\ \A i, j \in 1..Len(removed) : removed[i] = removed[j] => i = j
      /\ \A u \in S : \E i \in 1..Len(removed) : removed[i] = u
  BY <1>6, SetToSeqListsSet
<1> HIDE DEF removed
<1>8. \A i \in 1..Len(removed) : removed[i] \in S
  BY <1>7
<1>9. removed \in Seq(Update)
  <2>1. S \subseteq Update
    BY <1>1
  <2> QED  BY <1>7, <2>1
<1>10. \A i, j \in 1..Len(removed) : removed[i].addr = removed[j].addr => i = j
  BY <1>1, <1>7, <1>8
<1>11. \A a \in Addresses :
         pub[a] \in aged => \E i \in 1..Len(removed) : removed[i].addr = a
  <2> SUFFICES ASSUME NEW a \in Addresses, pub[a] \in aged
               PROVE  \E i \in 1..Len(removed) : removed[i].addr = a
    OBVIOUS
  <2>1. PICK i \in 1..Len(removed) : removed[i] = [type |-> "removed", addr |-> a]
    BY <1>2, <1>7
  <2> QED  BY <2>1
<1> QED  BY <1>1, <1>8, <1>9, <1>10, <1>11 DEF S, removed
-----------------------------------------------------------------------------
(***************************************************************************)
(* Every action keeps the types and the lists.                             *)
(***************************************************************************)
LEMMA SameObjects ==
  ASSUME objects' = objects
  PROVE  Made' = Made /\ Home' = Home /\ ValidObjects' = ValidObjects
<1>1. Made' = Made /\ Home' = Home
  BY DEF Made, Home
<1>2. ValidObjects' = ValidObjects
  BY <1>1 DEF ValidObjects, Valid
<1> QED  BY <1>1, <1>2

LEMMA QuietSteps ==
  ASSUME TypeOK, LifeInv,
         \/ BeginService \/ BeginServiceBootloading \/ SendNoSlow \/ BeginSweep \/ SkipSweep
         \/ SweepDone \/ ReceiveDone \/ SweepTimer
         \/ \E x \in inflight : Lose(x)
         \/ UNCHANGED vars
  PROVE  TypeOK' /\ LifeInv' /\ View' = View /\ objects' = objects
<1>1. View' = View /\ objects' = objects
  BY SameObjects
     DEF View, vars, objectVars, listVars, BeginService, BeginServiceBootloading, SendNoSlow,
         BeginSweep, SkipSweep, SweepDone, ReceiveDone, SweepTimer, Lose
<1>2. CASE \/ BeginService \/ BeginServiceBootloading \/ SkipSweep \/ ReceiveDone
  <2>1. TypeOK'
    BY <1>2 DEF TypeOK, BeginService, BeginServiceBootloading, SkipSweep,
                ReceiveDone, Go, Phases, objectVars, listVars, appVars
  <2>2. LifeInv'
    BY <1>1, <1>2, MoveKeeps
       DEF Moving, BeginService, BeginServiceBootloading, SkipSweep, ReceiveDone, Go
  <2> QED  BY <1>1, <2>1, <2>2
<1>3. CASE SendNoSlow
  <2>1. TypeOK'
    BY <1>3 DEF TypeOK, SendNoSlow, Go, Phases, objectVars, listVars, appVars
  <2> QED  BY <1>1, <1>3, <2>1, SendKeeps DEF SendNoSlow, Go
<1>4. CASE BeginSweep \/ SweepDone
  <2>1. cursor' \in 1..Len(initList') + 1 /\ phase' \in Phases /\ sweepDue' \in BOOLEAN
    <3>1. CASE BeginSweep
      BY <3>1 DEF TypeOK, BeginSweep, Go, Phases, listVars
    <3>2. CASE SweepDone
      <4>1. cursor' = 1 /\ initList' = initList /\ phase' = "receive" /\ sweepDue' = sweepDue
        BY <3>2 DEF SweepDone, Go, listVars
      <4>2. 1 \in 1..Len(initList) + 1
        BY HomeTyped
      <4> QED  BY <4>1, <4>2 DEF TypeOK, Phases
    <3> QED  BY <1>4, <3>1, <3>2
  <2>2. TypeOK'
    BY <1>4, <2>1 DEF TypeOK, BeginSweep, SweepDone, objectVars, listVars, appVars
  <2> QED  BY <1>1, <1>4, <2>2, SweepKeeps DEF BeginSweep, SweepDone, Go
<1>5. CASE SweepTimer \/ \E x \in inflight : Lose(x)
  <2>1. TypeOK'
    BY <1>5 DEF TypeOK, SweepTimer, Lose, objectVars, listVars, appVars, loopVars
  <2> QED  BY <1>1, <1>5, <2>1, StayKeeps DEF SweepTimer, Lose, loopVars
<1>6. CASE UNCHANGED vars
  <2>1. TypeOK'
    BY <1>6 DEF TypeOK, vars
  <2> QED
    BY <1>1, <1>6, <2>1, StayKeeps DEF vars
<1> QED  BY <1>2, <1>3, <1>4, <1>5, <1>6

LEMMA EntrySteps ==
  ASSUME TypeOK, LifeInv,
         SendSlow \/ SweepRefresh \/ \E o \in Made : \E k \in Kinds : FallQuiet(o, k)
  PROVE  TypeOK' /\ LifeInv' /\ View' = View /\ SameEntries
<1>1. ListsHoldObjects
  BY DEF LifeInv
<1>2. CASE SendSlow
  <2>1. SameEntries /\ slow' \in Seq(Addresses \X Kinds) /\ inflight' \subseteq AllAnswers
    BY <1>1, <1>2, SendKeepsEntries
  <2>2. View' = View
    BY <1>2, <2>1, SameView DEF View, SendSlow, listVars
  <2>3. TypeOK'
    BY <1>2, <2>1 DEF TypeOK, SameEntries, SendSlow, Go, Phases, listVars, appVars
  <2> QED  BY <1>2, <2>1, <2>2, <2>3, SendKeeps DEF SendSlow, Go
<1>3. CASE SweepRefresh
  <2>1. SameEntries /\ slow' \in Seq(Addresses \X Kinds)
    BY <1>1, <1>3, RefreshKeepsEntries
  <2>2. View' = View
    BY <1>3, <2>1, SameView DEF View, SweepRefresh, listVars
  <2>3. /\ phase = "sweep" /\ phase' = phase /\ cursor <= Len(initList) /\ cursor' = cursor + 1
        /\ ~Valid(initList[cursor]) /\ inflight' = inflight
    BY <1>3 DEF SweepRefresh
  <2>4. TypeOK'
    BY <1>3, <2>1, <2>3 DEF TypeOK, SameEntries, SweepRefresh, listVars, appVars
  <2> QED  BY <2>1, <2>2, <2>3, <2>4, SweepKeeps
<1>4. ASSUME NEW o \in Made, NEW k \in Kinds, FallQuiet(o, k)
      PROVE  TypeOK' /\ LifeInv' /\ View' = View /\ SameEntries
  <2>1. SameEntries
    BY <1>4, QuietKeepsEntries
  <2>2. View' = View
    BY <1>4, <2>1, SameView DEF View, FallQuiet, listVars
  <2>3. TypeOK'
    BY <1>4, <2>1 DEF TypeOK, SameEntries, FallQuiet, listVars, loopVars, appVars
  <2> QED  BY <1>4, <2>1, <2>2, <2>3, StayKeeps DEF FallQuiet, loopVars
<1> QED  BY <1>2, <1>3, <1>4

LEMMA ReceiveTyped ==
  ASSUME TypeOK, NEW a \in Addresses, Received(a), AddModule(a)
  PROVE  list' \in [Addresses -> Object \cup {None}] /\ slow' \in Seq(Addresses \X Kinds)
<1>1. Known(a) \in Object
  BY DEF Received
<1>2. Requests(a, Kinds) \in Seq(Addresses \X Kinds)
  BY RequestsTyped
<1>3. \A r \in Seq(Addresses \X Kinds) : slow \o r \in Seq(Addresses \X Kinds)
  BY DEF TypeOK
<1>4. CASE list[a] = None
  <2>1. list' = [list EXCEPT ![a] = Known(a)] /\ slow' = slow \o Requests(a, Kinds)
    BY <1>4 DEF AddModule
  <2> QED  BY <1>1, <1>2, <1>3, <2>1 DEF TypeOK
<1>5. CASE list[a] # None
  BY <1>5 DEF TypeOK, AddModule
<1> QED  BY <1>4, <1>5

LEMMA ReceiveSteps ==
  ASSUME TypeOK, LifeInv, NEW a \in Addresses, AddModule(a),
         \/ Hear(a)
         \/ \E x \in inflight : x.addr = a /\ \E again \in BOOLEAN : Arrive(x, again)
  PROVE  TypeOK' /\ LifeInv' /\ Received(a) /\ aged' = aged
<1>1. ListsHoldObjects
  BY DEF LifeInv
<1>2. /\ Received(a) /\ objects' \in Seq(Module) /\ Len(objects') <= MaxObjects
      /\ \/ \E x \in inflight : x.addr = a
         \/ list[a] # None => ValidObjects' = ValidObjects
      /\ inflight' \subseteq inflight /\ pub' = pub /\ loopVars' = loopVars
      /\ phase = "receive" /\ appVars' = appVars
  <2>1. CASE Hear(a)
    BY <1>1, <2>1, HearReceives DEF Hear, loopVars, appVars
  <2>2. ASSUME NEW x \in inflight, x.addr = a, NEW again \in BOOLEAN, Arrive(x, again)
        PROVE  /\ Received(a) /\ objects' \in Seq(Module) /\ Len(objects') <= MaxObjects
               /\ inflight' \subseteq inflight /\ pub' = pub /\ loopVars' = loopVars
               /\ phase = "receive" /\ appVars' = appVars
    <3>1. Received(a) /\ objects' \in Seq(Module) /\ Len(objects') <= MaxObjects
      BY <1>1, <2>2, ArriveReceives
    <3> QED  BY <2>2, <3>1 DEF Arrive, loopVars, appVars
  <2> QED  BY <2>1, <2>2
<1>3. LifeInv' /\ aged' = aged /\ initList' \in Seq(Object) /\ Len(initList) <= Len(initList')
  BY <1>2, ReceiveKeeps
<1>4. TypeOK'
  <2>1. cursor' \in 1..Len(initList') + 1
    BY <1>2, <1>3 DEF TypeOK, loopVars
  <2> QED
    BY <1>2, <1>3, <2>1, ReceiveTyped DEF TypeOK, loopVars, appVars
<1> QED  BY <1>2, <1>3, <1>4

LEMMA UpdateTyped ==
  ASSUME TypeOK, NEW u \in Seq(Update)
  PROVE  updates \o u \in Seq(Update) /\ \A x \in Update : Append(updates, x) \in Seq(Update)
<1> DEFINE T == [type : {"added", "removed"}, addr : Addresses]
<1>1. updates \in Seq(T) /\ T = Update
  BY DEF TypeOK, Update
<1> HIDE DEF T
<1> QED  BY <1>1

LEMMA ListSteps ==
  ASSUME TypeOK, LifeInv,
         PublishInsert \/ PublishAnnounce \/ ClearPub \/ ClearList \/ \E o \in Made : Age(o)
  PROVE  TypeOK' /\ LifeInv' /\ objects' = objects
<1>1. CASE PublishInsert
  <2>1. pub' \in [Addresses -> Object \cup {None}]
    <3>1. initList[cursor] \in Object
      BY <1>1, HomeTyped DEF PublishInsert, AtValid
    <3> QED  BY <1>1, <3>1, InsertKeeps DEF TypeOK
  <2>2. TypeOK'
    BY <1>1, <2>1 DEF TypeOK, PublishInsert, Go, Phases, objectVars, appVars
  <2> QED  BY <1>1, <2>2, InsertKeeps DEF PublishInsert, objectVars
<1>2. CASE PublishAnnounce
  <2>1. [type |-> "added", addr |-> objects[initList[cursor]].addr] \in Update
    BY <1>2, AnnounceKeeps, HomeTyped DEF Update, Home
  <2>2. updates' \in Seq(Update)
    BY <1>2, <2>1 DEF PublishAnnounce, TypeOK, Update
  <2>3. TypeOK'
    BY <1>2, <2>2, AnnounceKeeps
       DEF TypeOK, PublishAnnounce, Go, Phases, objectVars, appVars, Update
  <2> QED  BY <1>2, <2>3, AnnounceKeeps DEF PublishAnnounce, objectVars
<1>3. CASE ClearPub
  <2>1. SetToSeq(Removals(pub)) \in Seq(Update)
    BY RemovalsListed
  <2>2. updates' \in Seq(Update)
    BY <1>3, <2>1, UpdateTyped DEF ClearPub
  <2>3. pub' \in [Addresses -> Object \cup {None}]
    BY <1>3 DEF ClearPub, Cleared, TypeOK
  <2>4. TypeOK'
    BY <1>3, <2>2, <2>3 DEF TypeOK, ClearPub, Go, Phases, objectVars, appVars, Update
  <2> QED  BY <1>3, <2>4, ClearPubKeeps DEF ClearPub, objectVars
<1>4. CASE ClearList
  <2>1. list' \in [Addresses -> Object \cup {None}]
    BY <1>4 DEF ClearList, Cleared, TypeOK
  <2>2. TypeOK'
    BY <1>4, <2>1 DEF TypeOK, ClearList, Go, Phases, objectVars, appVars
  <2> QED  BY <1>4, <2>2, ClearListKeeps DEF ClearList, objectVars
<1>5. ASSUME NEW o \in Made, Age(o)  PROVE  TypeOK' /\ LifeInv' /\ objects' = objects
  <2>1. o \in Object
    BY LifecycleAssumption DEF TypeOK, Made, Object
  <2>2. TypeOK'
    BY <1>5, <2>1 DEF TypeOK, Age, listVars, appVars
  <2> QED  BY <1>5, <2>2, AgeKeeps DEF Age
<1> QED  BY <1>1, <1>2, <1>3, <1>4, <1>5

LEMMA UpdateTaken ==
  ASSUME TypeOK, LifeInv, GetModuleUpdate
  PROVE  TypeOK' /\ LifeInv' /\ View' = View /\ objects' = objects
<1>1. updates' \in Seq(Update) /\ Head(updates) \in Update
  <2>1. updates \in Seq(Update) /\ updates # <<>> /\ updates' = Tail(updates)
    BY DEF TypeOK, Update, GetModuleUpdate
  <2> QED  BY <2>1
<1>2. TypeOK'
  BY <1>1 DEF TypeOK, Update, GetModuleUpdate, objectVars, listVars, loopVars
<1>3. View' = View /\ objects' = objects
  BY SameObjects DEF View, GetModuleUpdate, objectVars, listVars
<1> QED  BY <1>2, <1>3, StayKeeps DEF GetModuleUpdate, loopVars

\* The actions, in the groups that the lemmas are about.
LEMMA StepCases ==
  ASSUME TypeOK, [Next]_vars
  PROVE  \/ \/ BeginService \/ BeginServiceBootloading \/ SendNoSlow \/ BeginSweep \/ SkipSweep
            \/ SweepDone \/ ReceiveDone \/ SweepTimer
            \/ \E x \in inflight : Lose(x)
            \/ UNCHANGED vars
         \/ SendSlow \/ SweepRefresh \/ \E o \in Made : \E k \in Kinds : FallQuiet(o, k)
         \/ \E a \in Addresses :
              /\ AddModule(a)
              /\ \/ Hear(a)
                 \/ \E x \in inflight : x.addr = a /\ \E again \in BOOLEAN : Arrive(x, again)
         \/ PublishInsert \/ PublishAnnounce \/ ClearPub \/ ClearList
         \/ \E o \in Made : Age(o)
         \/ GetModuleUpdate
<1>1. ASSUME NEW a \in Addresses, Hear(a)  PROVE  AddModule(a)
  BY <1>1 DEF Hear
<1>2. ASSUME NEW x \in inflight, NEW again \in BOOLEAN, Arrive(x, again)
      PROVE  x.addr \in Addresses /\ AddModule(x.addr)
  BY <1>2, AnswerTyped DEF Arrive, TypeOK
<1> QED  BY <1>1, <1>2 DEF Next, Service, Environment, Made

LEMMA LifeStep ==
  ASSUME TypeOK, LifeInv, [Next]_vars
  PROVE  TypeOK' /\ LifeInv'
BY StepCases, QuietSteps, EntrySteps, ReceiveSteps, ListSteps, UpdateTaken

(* Every variable has its type; the iterator of the sweep stays within the *)
(* list that it erases from, and never is more than one behind it.         *)
THEOREM TypesHold == Spec => []TypeOK
<1>1. Init => TypeOK /\ LifeInv
  BY InitLife
<1>2. (TypeOK /\ LifeInv) /\ [Next]_vars => (TypeOK /\ LifeInv)'
  BY LifeStep
<1> QED  BY <1>1, <1>2, PTL DEF Spec

(* A published object is the one the service keeps up to date, or is about *)
(* to be removed (eigen_comms.cpp:437-438, eigen_vector_map.cpp:113-128).  *)
THEOREM PublishedAreLive == Spec => []PublishedIsLive
<1>1. Init => TypeOK /\ LifeInv
  BY InitLife
<1>2. (TypeOK /\ LifeInv) /\ [Next]_vars => (TypeOK /\ LifeInv)'
  BY LifeStep
<1>3. LifeInv => PublishedIsLive
  BY DEF LifeInv, ListsHoldObjects, AgedAreForgotten, PublishedIsLive
<1> QED  BY <1>1, <1>2, <1>3, PTL DEF Spec
-----------------------------------------------------------------------------
(***************************************************************************)
(* No module is lost, and no addition is missed.                           *)
(***************************************************************************)
LEMMA ReceiveLosesNone ==
  ASSUME TypeOK, LifeInv, NoModuleLost, NEW a \in Addresses, AddModule(a), Received(a),
         aged' = aged, pub' = pub
  PROVE  NoModuleLost'
<1>1. CASE list[a] # None
  BY <1>1 DEF AddModule, NoModuleLost, Unpublished
<1>2. CASE list[a] = None
  <2> DEFINE o == Known(a)
  <2>1. list' = [list EXCEPT ![a] = o] /\ initList' = Append(initList, o) /\ o \in Object
    BY <1>2 DEF AddModule, Received
  <2> HIDE DEF o
  <2>2. /\ Len(initList') = Len(initList) + 1 /\ initList'[Len(initList) + 1] = o
        /\ \A j \in 1..Len(initList) : initList'[j] = initList[j]
        /\ Len(initList) \in Nat
    BY <2>1, HomeTyped, AppendProperties
  <2>3. ASSUME NEW p, p = o \/ Unpublished(p)
        PROVE  \E j \in 1..Len(initList') : initList'[j] = p
    BY <2>2, <2>3 DEF Unpublished
  <2>4. \A b \in Addresses : list'[b] = IF b = a THEN o ELSE list[b]
    BY <2>1 DEF TypeOK
  <2> QED  BY <2>3, <2>4 DEF NoModuleLost, Unpublished
<1> QED  BY <1>1, <1>2

LEMMA ListStepsLoseNone ==
  ASSUME TypeOK, LifeInv, NoModuleLost,
         PublishInsert \/ PublishAnnounce \/ ClearPub \/ ClearList \/ \E o \in Made : Age(o)
  PROVE  NoModuleLost'
<1>1. CASE PublishInsert
  <2>1. list' = list /\ initList' = initList /\ aged' = aged
    BY <1>1 DEF PublishInsert, objectVars
  <2> QED  BY <1>1, <2>1, InsertKeeps DEF NoModuleLost, Unpublished, TypeOK
<1>2. CASE PublishAnnounce
  <2>1. list' = list /\ pub' = pub /\ aged' = aged
    BY <1>2 DEF PublishAnnounce, objectVars
  <2>2. /\ pub[Home[initList[cursor]]] = initList[cursor]
        /\ \A o \in Made : Unpublished(o) => Unpublished(o)' \/ o = initList[cursor]
    BY <1>2, AnnounceKeeps
  <2>3. \A a \in Addresses : list[a] # None => list[a] \in Made /\ Home[list[a]] = a
    BY DEF LifeInv, ListsHoldObjects
  <2> SUFFICES ASSUME NEW a \in Addresses, list[a] # None
               PROVE  \/ pub[a] = list[a] \/ list[a] \in aged
                      \/ \E j \in 1..Len(initList') : initList'[j] = list[a]
    BY <2>1 DEF NoModuleLost, Unpublished
  <2>4. PICK o \in Made : o = list[a]
    BY <2>3
  <2>5. Unpublished(o) => Unpublished(o)' \/ o = initList[cursor]
    BY <2>2
  <2>6. Unpublished(o)' => \E j \in 1..Len(initList') : initList'[j] = list[a]
    BY <2>4 DEF Unpublished
  <2> QED  BY <2>2, <2>3, <2>4, <2>5, <2>6 DEF NoModuleLost
<1>3. CASE ClearPub
  <2>1. list' = list /\ initList' = initList /\ aged' = aged
    BY <1>3 DEF ClearPub, objectVars
  <2> QED  BY <1>3, <2>1 DEF ClearPub, Cleared, NoModuleLost, Unpublished
<1>4. CASE ClearList
  <2>1. pub' = pub /\ initList' = initList /\ aged' = aged
    BY <1>4 DEF ClearList, objectVars
  <2> QED  BY <1>4, <2>1 DEF ClearList, Cleared, NoModuleLost, Unpublished
<1>5. CASE \E o \in Made : Age(o)
  BY <1>5 DEF Age, listVars, NoModuleLost, Unpublished
<1> QED  BY <1>1, <1>2, <1>3, <1>4, <1>5

LEMMA LoseNoneStep ==
  ASSUME TypeOK, LifeInv, NoModuleLost, [Next]_vars
  PROVE  NoModuleLost'
<1>1. View' = View => NoModuleLost'
  BY DEF View, NoModuleLost, Unpublished
<1>2. ASSUME NEW a \in Addresses, AddModule(a),
             \/ Hear(a)
             \/ \E x \in inflight : x.addr = a /\ \E again \in BOOLEAN : Arrive(x, again)
      PROVE  NoModuleLost'
  <2>1. Received(a) /\ aged' = aged
    BY <1>2, ReceiveSteps
  <2>2. pub' = pub
    BY <1>2 DEF Hear, Arrive
  <2> QED  BY <1>2, <2>1, <2>2, ReceiveLosesNone
<1> QED  BY <1>1, <1>2, StepCases, QuietSteps, EntrySteps, ListStepsLoseNone, UpdateTaken

(* Whatever the order of the sweep, the two clear_old calls, time and the  *)
(* packets: a module the service knows is published, or waits for the      *)
(* sweep, or is about to be forgotten (eigen_comms.cpp:393-417, 437-438).  *)
THEOREM NoneIsLost == Spec => []NoModuleLost
<1>1. Init => TypeOK /\ LifeInv /\ NoModuleLost
  BY InitLife DEF Init, NoModuleLost
<1>2. (TypeOK /\ LifeInv /\ NoModuleLost) /\ [Next]_vars => (TypeOK /\ LifeInv /\ NoModuleLost)'
  BY LifeStep, LoseNoneStep
<1> QED  BY <1>1, <1>2, PTL DEF Spec

-----------------------------------------------------------------------------
(***************************************************************************)
(* A valid set is complete.                                                *)
(***************************************************************************)
LEMMA EntriesStay ==
  ASSUME SetsHoldEntries, SameEntries, Made' = Made, Home' = Home
  PROVE  SetsHoldEntries'
BY DEF SetsHoldEntries, SameEntries

\* The length that an answer brings is of a list that was reported.
LEMMA LengthReported ==
  ASSUME NEW x \in AllAnswers, ExpectedFrom(x.aux) # Unknown
  PROVE  ExpectedFrom(x.aux) + 1 \in Lists[x.addr][x.kind]
<1>1. x.aux \in Lists[x.addr][x.kind] /\ x.aux \in 0..255
  BY AnswerTyped
<1>2. x.aux = 0 => ExpectedFrom(x.aux) = 255
  BY DEF ExpectedFrom
<1>3. x.aux \in 1..255 => ExpectedFrom(x.aux) = x.aux - 1
  BY DEF ExpectedFrom
<1> QED  BY <1>1, <1>2, <1>3 DEF Unknown

LEMMA HearEntries ==
  ASSUME TypeOK, LifeInv, SetsHoldEntries, NEW a \in Addresses, Hear(a)
  PROVE  SetsHoldEntries'
<1>1. Known(a) <= MaxObjects /\ objects' = ObjectsWith(a) /\ ListsHoldObjects
  BY DEF Hear, AddModule, LifeInv
<1>2. /\ Made' = Made \cup {Known(a)} /\ \A o \in Made : Home'[o] = Home[o]
      /\ list[a] # None => Known(a) \in Made
  BY <1>1, HearReceives DEF Received
<1>3. /\ \A o \in Made : objects'[o] = objects[o]
      /\ list[a] = None =>
           \A k \in Kinds : /\ objects'[Known(a)].sets[k].expected = Unknown
                            /\ objects'[Known(a)].sets[k].got = {}
  BY <1>1, Receiving
<1> QED  BY <1>2, <1>3 DEF SetsHoldEntries

LEMMA ArriveEntries ==
  ASSUME TypeOK, LifeInv, SetsHoldEntries, NEW x \in inflight, NEW again, Arrive(x, again)
  PROVE  SetsHoldEntries'
<1> DEFINE a == x.addr
           k == x.kind
           o == Known(a)
           old == ObjectsWith(a)[o].sets[k]
<1>1. ListsHoldObjects
  BY DEF LifeInv
<1>2. /\ x \in AllAnswers /\ o <= MaxObjects
      /\ old \in ParameterSet /\ objects'[o].sets[k] = Applied(old, x)
      /\ \A l \in Kinds \ {k} : objects'[o].sets[l] = ObjectsWith(a)[o].sets[l]
      /\ \A p \in Made \ {o} : objects'[p].sets = objects[p].sets
  BY <1>1, ArriveReceives
<1>3. /\ Made' = Made \cup {o} /\ \A p \in Made : Home'[p] = Home[p]
      /\ Home'[o] = a
      /\ list[a] # None => o \in Made
  BY <1>1, ArriveReceives DEF Received
<1>4. /\ a \in Addresses /\ k \in Kinds /\ x.aux \in Lists[a][k] /\ x.aux \in 0..255
      /\ x.item # 0 => x.item \in 1..x.aux - 1
  BY <1>2, AnswerTyped
<1>5. /\ \A p \in Made : ObjectsWith(a)[p] = objects[p]
      /\ list[a] = None =>
           \A l \in Kinds : /\ ObjectsWith(a)[o].sets[l].expected = Unknown
                            /\ ObjectsWith(a)[o].sets[l].got = {}
  BY <1>1, <1>2, <1>4, Receiving
\* What the set of the packet's object held before.
<1>6. \A l \in Kinds :
        LET set == ObjectsWith(a)[o].sets[l] IN
          /\ \A i \in set.got : \E n \in Lists[a][l] : i \in 1..n - 1
          /\ set.expected # Unknown => set.expected + 1 \in Lists[a][l]
  <2>1. CASE list[a] = None
    BY <1>5, <2>1
  <2>2. CASE list[a] # None
    <3>1. o \in Made /\ Home[o] = a /\ ObjectsWith(a)[o] = objects[o]
      BY <1>1, <1>3, <1>4, <1>5, <2>2 DEF Known, ListsHoldObjects
    <3> HIDE DEF o, a
    <3> QED  BY <3>1 DEF SetsHoldEntries
  <2> QED  BY <2>1, <2>2
<1>7. ExpectedFrom(x.aux) # Unknown => ExpectedFrom(x.aux) + 1 \in Lists[a][k]
  BY <1>2, LengthReported
<1> DEFINE new == Applied(old, x)
<1>8. /\ \A i \in new.got : i \in old.got \/ (i = x.item /\ x.item # 0)
      /\ new.expected = old.expected \/ new.expected = ExpectedFrom(x.aux)
  <2> HIDE DEF old
  <2>1. CASE x.item = 0
    BY <1>2, <2>1 DEF Applied, ParameterSet
  <2>2. CASE x.item # 0
    BY <1>2, <2>2 DEF Applied, ParameterSet
  <2> QED  BY <2>1, <2>2
<1>9. /\ \A i \in new.got : \E n \in Lists[a][k] : i \in 1..n - 1
      /\ new.expected # Unknown => new.expected + 1 \in Lists[a][k]
  <2> HIDE DEF new
  <2> QED  BY <1>4, <1>6, <1>7, <1>8
<1> HIDE DEF new, old
<1>10. \A l \in Kinds :
         /\ \A i \in objects'[o].sets[l].got : \E n \in Lists[a][l] : i \in 1..n - 1
         /\ objects'[o].sets[l].expected # Unknown =>
              objects'[o].sets[l].expected + 1 \in Lists[a][l]
  <2> SUFFICES ASSUME NEW l \in Kinds
               PROVE  /\ \A i \in objects'[o].sets[l].got : \E n \in Lists[a][l] : i \in 1..n - 1
                      /\ objects'[o].sets[l].expected # Unknown =>
                           objects'[o].sets[l].expected + 1 \in Lists[a][l]
    OBVIOUS
  <2>1. CASE l = k
    BY <1>2, <1>9, <2>1 DEF new
  <2>2. CASE l # k
    BY <1>2, <1>6, <2>2
  <2> QED  BY <2>1, <2>2
<1> HIDE DEF o, a, k
<1>11. \A p \in Made' : \A l \in Kinds :
         /\ \A i \in objects'[p].sets[l].got : \E n \in Lists[Home'[p]][l] : i \in 1..n - 1
         /\ objects'[p].sets[l].expected # Unknown =>
              objects'[p].sets[l].expected + 1 \in Lists[Home'[p]][l]
  <2> SUFFICES ASSUME NEW p \in Made', NEW l \in Kinds
               PROVE  /\ \A i \in objects'[p].sets[l].got :
                           \E n \in Lists[Home'[p]][l] : i \in 1..n - 1
                      /\ objects'[p].sets[l].expected # Unknown =>
                           objects'[p].sets[l].expected + 1 \in Lists[Home'[p]][l]
    OBVIOUS
  <2>1. CASE p = o
    <3>1. Home'[p] = a /\ objects'[p] = objects'[o]
      BY <1>3, <2>1
    <3> QED  BY <1>10, <3>1
  <2>2. CASE p # o
    BY <1>2, <1>3, <2>2 DEF SetsHoldEntries
  <2> QED  BY <2>1, <2>2
<1> QED  BY <1>11 DEF SetsHoldEntries

LEMMA EntriesStep ==
  ASSUME TypeOK, LifeInv, SetsHoldEntries, [Next]_vars
  PROVE  SetsHoldEntries'
<1>1. ASSUME objects' = objects  PROVE  SetsHoldEntries'
  BY <1>1, SameObjects DEF SetsHoldEntries
<1>2. ASSUME SameEntries  PROVE  SetsHoldEntries'
  BY <1>2, SameView, EntriesStay
<1>3. ASSUME NEW a \in Addresses,
             \/ Hear(a)
             \/ \E x \in inflight : x.addr = a /\ \E again \in BOOLEAN : Arrive(x, again)
      PROVE  SetsHoldEntries'
  BY <1>3, HearEntries, ArriveEntries
<1> QED  BY <1>1, <1>2, <1>3, StepCases, QuietSteps, EntrySteps, ListSteps, UpdateTaken

\* A set that has as many entries as it expects has them all.
LEMMA CountedAreAll ==
  ASSUME NEW got, NEW n \in Nat, got \subseteq 1..n, Cardinality(got) >= n
  PROVE  got = 1..n
<1>1. IsFiniteSet(1..n) /\ Cardinality(1..n) = n
  BY FS_Interval
<1>2. got \in SUBSET (1..n) /\ IsFiniteSet(got) /\ Cardinality(got) <= n
  BY <1>1, FS_Subset
<1>3. Cardinality(got) = Cardinality(1..n)
  BY <1>1, <1>2, FS_CardinalityType
<1> QED  BY <1>1, <1>2, <1>3, FS_Subset

LEMMA EntriesComplete ==
  ASSUME OneLength, TypeOK, LifeInv, SetsHoldEntries
  PROVE  ValidMeansComplete
<1> SUFFICES ASSUME NEW o \in Made, NEW k \in Kinds, SetValid(objects[o].sets[k])
             PROVE  1..objects[o].sets[k].expected \subseteq objects[o].sets[k].got
  BY DEF ValidMeansComplete, Made
<1> DEFINE set == objects[o].sets[k]
           n == set.expected
<1>1. objects[o] \in Module
  BY DEF TypeOK, Made
<1>2. set \in ParameterSet /\ Home[o] \in Addresses
  BY <1>1, HomeTyped DEF Module
<1>3. n \in 0..255 /\ n # Unknown /\ set.got \subseteq 1..255
  BY <1>2 DEF ParameterSet, SetValid
<1>4. n + 1 \in Lists[Home[o]][k] /\ \A i \in set.got : \E m \in Lists[Home[o]][k] : i \in 1..m - 1
  BY <1>3 DEF SetsHoldEntries
<1>5. \A m \in Lists[Home[o]][k] : m = n + 1
  BY <1>2, <1>4 DEF OneLength
<1> HIDE DEF n
<1>6. set.got \subseteq 1..n
  BY <1>3, <1>4, <1>5
<1>7. IsFiniteSet(set.got) /\ Cardinality(set.got) \in Nat
  <2>1. IsFiniteSet(1..n)
    BY <1>3, FS_Interval
  <2>2. set.got \in SUBSET (1..n)
    BY <1>6
  <2> HIDE DEF set
  <2>3. IsFiniteSet(set.got)
    BY <2>1, <2>2, FS_Subset
  <2> QED  BY <2>3, FS_CardinalityType
<1>8. Cardinality(set.got) >= n
  <2>1. Cardinality(set.got) > n \/ n - Cardinality(set.got) = 0
    BY DEF SetValid, ParametersLeft, n
  <2> QED  BY <1>3, <1>7, <2>1
<1>9. set.got = 1..n
  BY <1>3, <1>6, <1>8, CountedAreAll
<1> QED  BY <1>9 DEF n

(* When modules never change the length they report, a set that says it is *)
(* valid has every entry of its list: counting the entries received is     *)
(* enough, whatever answers are lost, repeated or overtake each other      *)
(* (eigen_parameters.h:192-196).                                           *)
THEOREM ValidAreComplete ==
  ASSUME OneLength
  PROVE  Spec => []ValidMeansComplete
<1>1. Init => TypeOK /\ LifeInv /\ SetsHoldEntries
  <2>1. Init => Made = {}
    BY DEF Init, Made
  <2> QED  BY <2>1, InitLife DEF SetsHoldEntries
<1>2. (TypeOK /\ LifeInv /\ SetsHoldEntries) /\ [Next]_vars
        => (TypeOK /\ LifeInv /\ SetsHoldEntries)'
  BY LifeStep, EntriesStep
<1>3. TypeOK /\ LifeInv /\ SetsHoldEntries => ValidMeansComplete
  BY EntriesComplete
<1> QED  BY <1>1, <1>2, <1>3, PTL DEF Spec
-----------------------------------------------------------------------------
(***************************************************************************)
(* The updates tell the list.                                              *)
(***************************************************************************)
\* What an update of its own says of the story.
LEMMA StoryNext ==
  ASSUME NEW u \in Seq(Update), NEW m, NEW a \in Addresses, NEW n \in Nat, n + 1 \in 1..Len(u)
  PROVE  Story(u, m, a, n + 1)
           <=> IF u[n + 1].addr = a THEN u[n + 1].type = "added" ELSE Story(u, m, a, n)
<1>1. u[n + 1] \in Update
  OBVIOUS
<1>2. \A i : i \in 1..n + 1 <=> i \in 1..n \/ i = n + 1
  OBVIOUS
<1>3. CASE u[n + 1].addr = a
  <2>1. Story(u, m, a, n + 1) <=> u[n + 1] = [type |-> "added", addr |-> a]
    <3>1. \A j \in 1..n : n + 1 \in j + 1..n + 1
      OBVIOUS
    <3>2. \A i : i \notin n + 1 + 1..n + 1
      OBVIOUS
    <3> QED  BY <1>2, <1>3, <3>1, <3>2 DEF Story
  <2> QED  BY <1>1, <1>3, <2>1 DEF Update
<1>4. CASE u[n + 1].addr # a
  <2>1. u[n + 1] # [type |-> "added", addr |-> a]
    BY <1>4
  <2>2. \A j \in 1..n : \A i : i \in j + 1..n + 1 <=> i \in j + 1..n \/ i = n + 1
    OBVIOUS
  <2>3. (\E j \in 1..n + 1 : /\ u[j] = [type |-> "added", addr |-> a]
                             /\ \A i \in j + 1..n + 1 : u[i].addr # a)
          <=> \E j \in 1..n : /\ u[j] = [type |-> "added", addr |-> a]
                              /\ \A i \in j + 1..n : u[i].addr # a
    BY <1>2, <1>4, <2>1, <2>2
  <2>4. (\A j \in 1..n + 1 : u[j].addr # a) <=> \A j \in 1..n : u[j].addr # a
    BY <1>2, <1>4
  <2> QED  BY <1>4, <2>3, <2>4 DEF Story
<1> QED  BY <1>3, <1>4

\* The story up to n depends on the first n updates only.
LEMMA StoryPrefix ==
  ASSUME NEW u, NEW v, NEW m, NEW a, NEW n \in Nat, \A i \in 1..n : u[i] = v[i]
  PROVE  Story(u, m, a, n) <=> Story(v, m, a, n)
<1>1. \A j \in 1..n : \A i \in j + 1..n : i \in 1..n
  OBVIOUS
<1> QED  BY <1>1 DEF Story

\* One update more.
LEMMA StoryAppended ==
  ASSUME NEW u \in Seq(Update), NEW m, NEW x \in Update, Consistent(u, m),
         x.type = "added" <=> ~Story(u, m, x.addr, Len(u))
  PROVE  LET v == Append(u, x) IN
         /\ Consistent(v, m)
         /\ \A a \in Addresses :
              Story(v, m, a, Len(v))
                <=> IF x.addr = a THEN x.type = "added" ELSE Story(u, m, a, Len(u))
<1> DEFINE v == Append(u, x)
           n == Len(u)
<1>1. /\ v \in Seq(Update) /\ n \in Nat /\ Len(v) = n + 1 /\ v[n + 1] = x
      /\ \A i \in 1..n : u[i] = v[i]
  BY AppendProperties
<1> HIDE DEF v, n
<1>2. \A a, k : k \in 0..n => (Story(u, m, a, k) <=> Story(v, m, a, k))
  BY <1>1, StoryPrefix
<1>3. Consistent(v, m)
  <2> SUFFICES ASSUME NEW j \in 1..n + 1
               PROVE  v[j].type = "added" <=> ~Story(v, m, v[j].addr, j - 1)
    BY <1>1 DEF Consistent
  <2>1. j - 1 \in 0..n
    BY <1>1
  <2>2. CASE j = n + 1
    BY <1>1, <1>2, <2>1, <2>2 DEF n
  <2>3. CASE j \in 1..n
    BY <1>1, <1>2, <2>1, <2>3 DEF Consistent, n
  <2> QED  BY <1>1, <2>2, <2>3
<1>4. \A a \in Addresses :
        Story(v, m, a, n + 1) <=> IF x.addr = a THEN x.type = "added" ELSE Story(v, m, a, n)
  BY <1>1, StoryNext
<1>5. \A a : Story(v, m, a, n) <=> Story(u, m, a, n)
  BY <1>1, <1>2
<1> QED  BY <1>1, <1>3, <1>4, <1>5 DEF v, n

\* The application takes the first update.
LEMMA StoryTaken ==
  ASSUME NEW u \in Seq(Update), u # <<>>, NEW m,
         NEW n \in Nat, n + 1 \in 1..Len(u), NEW a \in Addresses
  PROVE  LET taken == IF Head(u).type = "added" THEN m \cup {Head(u).addr}
                      ELSE m \ {Head(u).addr}
         IN  Story(Tail(u), taken, a, n) <=> Story(u, m, a, n + 1)
<1> DEFINE taken == IF Head(u).type = "added" THEN m \cup {Head(u).addr}
                    ELSE m \ {Head(u).addr}
           v == Tail(u)
           added == [type |-> "added", addr |-> a]
<1>1. /\ Head(u) = u[1] /\ u[1] \in Update /\ \A i \in 1..n : v[i] = u[i + 1]
      /\ 1 \in 1..n + 1
  OBVIOUS
<1>2. a \in taken <=> u[1] = added \/ (a \in m /\ u[1].addr # a)
  BY <1>1 DEF Update
<1> HIDE DEF taken, v, added
<1>3. /\ \A j \in 1..n : j + 1 \in 1..n + 1 /\ v[j] = u[j + 1]
      /\ \A i \in 1..n + 1 : i = 1 \/ (i - 1 \in 1..n /\ v[i - 1] = u[i])
      /\ \A j \in 1..n : \A i \in j + 1..n : i + 1 \in (j + 1) + 1..n + 1 /\ i \in 1..n
      /\ \A j \in 1..n : \A i \in (j + 1) + 1..n + 1 : i - 1 \in j + 1..n /\ i \in 1..n + 1 /\ i # 1
      /\ \A i : i \in 1 + 1..n + 1 => i - 1 \in 1..n /\ i \in 1..n + 1 /\ i # 1
      /\ \A i \in 1..n : i + 1 \in 1 + 1..n + 1
  BY <1>1
<1>4. (\A j \in 1..n : v[j].addr # a) <=> \A i \in 1 + 1..n + 1 : u[i].addr # a
  BY <1>3
<1>5. (\A j \in 1..n + 1 : u[j].addr # a) <=> u[1].addr # a /\ \A j \in 1..n : v[j].addr # a
  BY <1>1, <1>3
<1>6. ASSUME NEW j \in 1..n
      PROVE  (\A i \in j + 1..n : v[i].addr # a)
               <=> \A i \in (j + 1) + 1..n + 1 : u[i].addr # a
  BY <1>3
<1>7. (\E j \in 1..n + 1 : u[j] = added /\ \A i \in j + 1..n + 1 : u[i].addr # a)
        <=> \/ u[1] = added /\ \A j \in 1..n : v[j].addr # a
            \/ \E j \in 1..n : v[j] = added /\ \A i \in j + 1..n : v[i].addr # a
  <2>1. ASSUME NEW j \in 1..n + 1, u[j] = added, \A i \in j + 1..n + 1 : u[i].addr # a
        PROVE  \/ u[1] = added /\ \A l \in 1..n : v[l].addr # a
               \/ \E l \in 1..n : v[l] = added /\ \A i \in l + 1..n : v[i].addr # a
    <3>1. CASE j = 1
      BY <1>4, <2>1, <3>1
    <3>2. CASE j # 1
      <4>1. PICK l \in 1..n : l = j - 1 /\ l + 1 = j /\ v[l] = u[j]
        BY <1>3, <3>2
      <4> QED  BY <1>6, <2>1, <4>1
    <3> QED  BY <3>1, <3>2
  <2>2. ASSUME NEW l \in 1..n, v[l] = added, \A i \in l + 1..n : v[i].addr # a
        PROVE  \E j \in 1..n + 1 : u[j] = added /\ \A i \in j + 1..n + 1 : u[i].addr # a
    BY <1>3, <1>6, <2>2
  <2>3. ASSUME u[1] = added, \A l \in 1..n : v[l].addr # a
        PROVE  \E j \in 1..n + 1 : u[j] = added /\ \A i \in j + 1..n + 1 : u[i].addr # a
    BY <1>1, <1>4, <2>3
  <2> QED  BY <2>1, <2>2, <2>3
<1> QED  BY <1>2, <1>5, <1>7 DEF Story, taken, v, added

\* Removals, one for each of several modules that the story knows.
LEMMA StoryRemoved ==
  ASSUME NEW u \in Seq(Update), NEW r \in Seq(Update), NEW m, Consistent(u, m),
         \A i \in 1..Len(r) : r[i].type = "removed" /\ Story(u, m, r[i].addr, Len(u)),
         \A i, j \in 1..Len(r) : r[i].addr = r[j].addr => i = j
  PROVE  /\ Consistent(u \o r, m)
         /\ \A a \in Addresses :
              Story(u \o r, m, a, Len(u \o r))
                <=> Story(u, m, a, Len(u)) /\ \A i \in 1..Len(r) : r[i].addr # a
<1> DEFINE v == u \o r
           n == Len(u)
<1>1. /\ v \in Seq(Update) /\ n \in Nat /\ Len(r) \in Nat /\ Len(v) = n + Len(r)
      /\ \A i \in 1..n : v[i] = u[i]
      /\ \A i \in 1..Len(r) : v[n + i] = r[i]
  OBVIOUS
<1> HIDE DEF v, n
<1>2. ASSUME NEW a, NEW k \in 0..Len(r)
      PROVE  Story(v, m, a, n + k) <=> Story(u, m, a, n) /\ \A i \in 1..k : r[i].addr # a
  <2> DEFINE added == [type |-> "added", addr |-> a]
  <2>1. \A i \in 1..k : v[n + i] = r[i] /\ v[n + i].addr = r[i].addr /\ v[n + i] # added
    <3> SUFFICES ASSUME NEW i \in 1..k
                 PROVE  v[n + i] = r[i] /\ v[n + i].addr = r[i].addr /\ v[n + i] # added
      OBVIOUS
    <3>1. i \in 1..Len(r)
      BY <1>1
    <3> QED  BY <1>1, <3>1
  <2> HIDE DEF added
  <2>2. \A i \in 1..n + k : i \in 1..n \/ \E l \in 1..k : i = n + l
    <3> SUFFICES ASSUME NEW i \in 1..n + k, i \notin 1..n
                 PROVE  i - n \in 1..k /\ i = n + (i - n)
      OBVIOUS
    <3> QED  BY <1>1
  <2>3. ASSUME NEW j \in 0..n
        PROVE  (\A i \in j + 1..n + k : v[i].addr # a)
                 <=> (\A i \in j + 1..n : u[i].addr # a) /\ \A i \in 1..k : r[i].addr # a
    <3>1. ASSUME \A i \in j + 1..n + k : v[i].addr # a
          PROVE  (\A i \in j + 1..n : u[i].addr # a) /\ \A i \in 1..k : r[i].addr # a
      <4>1. \A i \in j + 1..n : i \in 1..n /\ i \in j + 1..n + k
        BY <1>1
      <4>2. \A l \in 1..k : n + l \in j + 1..n + k
        BY <1>1
      <4> QED  BY <1>1, <2>1, <3>1, <4>1, <4>2
    <3>2. ASSUME \A i \in j + 1..n : u[i].addr # a, \A i \in 1..k : r[i].addr # a,
                 NEW i \in j + 1..n + k
          PROVE  v[i].addr # a
      <4>1. i \in 1..n + k /\ (i \in 1..n => i \in j + 1..n)
        BY <1>1
      <4>2. CASE i \in 1..n
        <5>1. v[i] = u[i] /\ i \in j + 1..n
          BY <1>1, <4>1, <4>2
        <5> QED  BY <3>2, <5>1
      <4>3. CASE i \notin 1..n
        <5>1. PICK l \in 1..k : i = n + l
          BY <2>2, <4>1, <4>3
        <5> QED  BY <2>1, <3>2, <5>1
      <4> QED  BY <4>2, <4>3
    <3> QED  BY <3>1, <3>2
  <2>4. 0 \in 0..n /\ 0 + 1 = 1 /\ \A j \in 1..n : j \in 0..n /\ j \in 1..n + k
    BY <1>1
  <2>5. (\A i \in 0 + 1..n + k : v[i].addr # a)
          <=> (\A i \in 0 + 1..n : u[i].addr # a) /\ \A i \in 1..k : r[i].addr # a
    BY <2>3, <2>4
  <2>6. (\E j \in 1..n + k : v[j] = added /\ \A i \in j + 1..n + k : v[i].addr # a)
          <=> /\ \E j \in 1..n : u[j] = added /\ \A i \in j + 1..n : u[i].addr # a
              /\ \A i \in 1..k : r[i].addr # a
    <3>1. ASSUME NEW j \in 1..n + k, v[j] = added, \A i \in j + 1..n + k : v[i].addr # a
          PROVE  /\ j \in 1..n /\ u[j] = added /\ \A i \in j + 1..n : u[i].addr # a
                 /\ \A i \in 1..k : r[i].addr # a
      <4>1. j \in 1..n
        BY <2>1, <2>2, <3>1
      <4>2. u[j] = added
        BY <1>1, <3>1, <4>1
      <4> QED  BY <2>3, <2>4, <3>1, <4>1, <4>2
    <3>2. ASSUME NEW j \in 1..n, u[j] = added, \A i \in j + 1..n : u[i].addr # a,
                 \A i \in 1..k : r[i].addr # a
          PROVE  j \in 1..n + k /\ v[j] = added /\ \A i \in j + 1..n + k : v[i].addr # a
      <4>1. v[j] = added
        BY <1>1, <3>2
      <4> QED  BY <2>3, <2>4, <3>2, <4>1
    <3> QED  BY <3>1, <3>2
  <2> QED  BY <2>4, <2>5, <2>6 DEF Story, added
<1>3. Consistent(v, m)
  <2> SUFFICES ASSUME NEW j \in 1..n + Len(r)
               PROVE  v[j].type = "added" <=> ~Story(v, m, v[j].addr, j - 1)
    BY <1>1 DEF Consistent
  <2>1. CASE j \in 1..n
    <3>1. /\ v[j] = u[j] /\ j - 1 \in Nat /\ \A i \in 1..j - 1 : v[i] = u[i]
          /\ u[j].type = "added" <=> ~Story(u, m, u[j].addr, j - 1)
      BY <1>1, <2>1 DEF Consistent, n
    <3>2. Story(v, m, u[j].addr, j - 1) <=> Story(u, m, u[j].addr, j - 1)
      BY <3>1, StoryPrefix
    <3> QED  BY <3>1, <3>2
  <2>2. CASE j \notin 1..n
    <3> DEFINE k == j - n - 1
    <3>1. k \in 0..Len(r) /\ n + k = j - 1 /\ k + 1 \in 1..Len(r) /\ v[j] = r[k + 1]
      <4>1. j - n \in 1..Len(r) /\ n + (j - n) = j /\ k + 1 = j - n
        BY <1>1, <2>2
      <4>2. v[n + (j - n)] = r[j - n]
        BY <1>1, <4>1
      <4> QED  BY <1>1, <4>1, <4>2
    <3> HIDE DEF k
    <3>2. Story(u, m, r[k + 1].addr, n) /\ r[k + 1].type = "removed"
      BY <3>1 DEF n
    <3>3. \A i \in 1..k : r[i].addr # r[k + 1].addr
      BY <1>1, <3>1
    <3>4. Story(v, m, r[k + 1].addr, n + k)
      BY <1>2, <3>1, <3>2, <3>3
    <3> QED  BY <3>1, <3>2, <3>4
  <2> QED  BY <2>1, <2>2
<1>4. \A a : Story(v, m, a, Len(v)) <=> Story(u, m, a, n) /\ \A i \in 1..Len(r) : r[i].addr # a
  <2> SUFFICES ASSUME NEW a
               PROVE  Story(v, m, a, Len(v))
                        <=> Story(u, m, a, n) /\ \A i \in 1..Len(r) : r[i].addr # a
    OBVIOUS
  <2>1. Len(r) \in 0..Len(r) /\ Len(v) = n + Len(r)
    BY <1>1
  <2> QED  BY ONLY <1>2, <2>1
<1> QED  BY ONLY <1>3, <1>4 DEF v, n

LEMMA StoryIsBelieved ==
  ASSUME TypeOK, LifeInv, UpdatesInv
  PROVE  UpdatesTellTheList
<1>1. \A a, n : Believed(a, n) <=> Story(updates, mirror, a, n)
  BY DEF Believed, Story
<1>2. \A j \in 1..Len(updates) :
        updates[j].type = "added" <=> ~Believed(updates[j].addr, j - 1)
  BY <1>1 DEF UpdatesInv, Consistent
<1>3. phase # "announce"
        => \A a \in Addresses : Believed(a, Len(updates)) <=> a \in Published
  BY <1>1 DEF UpdatesInv, Announcing, Publishing
<1> QED  BY <1>2, <1>3 DEF UpdatesTellTheList

\* What the other steps must leave alone.
LEMMA StorySame ==
  ASSUME UpdatesInv, updates' = updates, mirror' = mirror,
         \A a \in Addresses : pub'[a] = None <=> pub[a] = None,
         /\ Publishing' <=> Publishing
         /\ Publishing => cursor' = cursor /\ initList' = initList /\ Home' = Home
  PROVE  UpdatesInv'
<1>1. \A a : Publishing' /\ a = Home'[initList'[cursor']]
               <=> Publishing /\ a = Home[initList[cursor]]
  OBVIOUS
<1> QED  BY <1>1 DEF UpdatesInv, Announcing, Published

LEMMA InsertTells ==
  ASSUME TypeOK, LifeInv, UpdatesInv, PublishInsert
  PROVE  UpdatesInv'
<1> DEFINE o == initList[cursor]
           a == Home[o]
<1>1. /\ o \in Made /\ a \in Addresses /\ pub' = [pub EXCEPT ![a] = o] /\ pub[a] = None
      /\ o # None
  BY InsertKeeps, HomeTyped
<1>2. /\ updates' = updates /\ mirror' = mirror /\ cursor' = cursor /\ initList' = initList
      /\ phase = "sweep" /\ phase' = "announce" /\ objects' = objects
  BY DEF PublishInsert, Go, appVars, objectVars
<1>3. Home' = Home
  BY <1>2, SameObjects
<1>4. \A b \in Addresses : pub'[b] = IF b = a THEN o ELSE pub[b]
  BY <1>1 DEF TypeOK
<1>5. \A b \in Addresses : b \in Published' /\ ~(Publishing' /\ b = Home'[initList'[cursor']])
                            <=> b \in Published /\ ~(Publishing /\ b = Home[initList[cursor]])
  <2> HIDE DEF a
  <2> QED  BY <1>1, <1>2, <1>3, <1>4 DEF Published, Publishing, a
<1> QED  BY <1>2, <1>5 DEF UpdatesInv, Announcing

LEMMA AnnounceTells ==
  ASSUME TypeOK, LifeInv, UpdatesInv, PublishAnnounce
  PROVE  UpdatesInv'
<1> DEFINE o == initList[cursor]
           a == Home[o]
           x == [type |-> "added", addr |-> a]
<1>1. o \in Made /\ o # None /\ a \in Addresses /\ pub[a] = o
  BY AnnounceKeeps, HomeTyped
<1>2. /\ updates' = Append(updates, x) /\ mirror' = mirror /\ pub' = pub
      /\ phase = "announce" /\ phase' = "sweep"
  BY <1>1 DEF PublishAnnounce, Go, appVars, Home
<1>3. x \in Update /\ updates \in Seq(Update) /\ x.type = "added" /\ x.addr = a
  BY <1>1 DEF Update, TypeOK
<1>4. \A b \in Addresses : Story(updates, mirror, b, Len(updates)) <=> b \in Published /\ b # a
  BY <1>2 DEF UpdatesInv, Announcing, Publishing
<1>5. Consistent(updates, mirror)
  BY DEF UpdatesInv
<1> HIDE DEF x
<1>6. /\ Consistent(updates', mirror')
      /\ \A b \in Addresses :
           Story(updates', mirror', b, Len(updates'))
             <=> IF a = b THEN TRUE ELSE Story(updates, mirror, b, Len(updates))
  BY <1>1, <1>2, <1>3, <1>4, <1>5, StoryAppended
<1>7. \A b \in Addresses : Story(updates', mirror', b, Len(updates')) <=> b \in Published'
  BY <1>1, <1>2, <1>4, <1>6 DEF Published
<1> QED  BY <1>2, <1>6, <1>7 DEF UpdatesInv, Announcing, Publishing

LEMMA ClearPubTells ==
  ASSUME TypeOK, LifeInv, UpdatesInv, ClearPub
  PROVE  UpdatesInv'
<1> DEFINE r == SetToSeq(Removals(pub))
<1>1. /\ updates' = updates \o r /\ mirror' = mirror /\ phase = "clearPub" /\ phase' = "clearList"
  BY DEF ClearPub, Go, appVars
<1>2. \A a \in Addresses : pub'[a] = IF pub[a] \in aged THEN None ELSE pub[a]
  BY DEF ClearPub, Cleared
<1>3. /\ r \in Seq(Update) /\ updates \in Seq(Update)
      /\ \A i \in 1..Len(r) : /\ r[i].type = "removed" /\ r[i].addr \in Addresses
                              /\ pub[r[i].addr] \in aged
      /\ \A i, j \in 1..Len(r) : r[i].addr = r[j].addr => i = j
      /\ \A a \in Addresses : pub[a] \in aged => \E i \in 1..Len(r) : r[i].addr = a
  BY RemovalsListed DEF TypeOK, Update
<1> HIDE DEF r
<1>4. \A a \in Addresses : Story(updates, mirror, a, Len(updates)) <=> pub[a] # None
  BY <1>1 DEF UpdatesInv, Announcing, Publishing, Published
<1>5. None \notin aged
  BY HomeTyped DEF LifeInv, ListsHoldObjects
<1>6. Consistent(updates, mirror)
  BY DEF UpdatesInv
<1>7. \A i \in 1..Len(r) : Story(updates, mirror, r[i].addr, Len(updates))
  BY <1>3, <1>4, <1>5
<1>8. /\ Consistent(updates', mirror')
      /\ \A a \in Addresses :
           Story(updates', mirror', a, Len(updates'))
             <=> Story(updates, mirror, a, Len(updates)) /\ \A i \in 1..Len(r) : r[i].addr # a
  BY <1>1, <1>3, <1>6, <1>7, StoryRemoved
<1>9. \A a \in Addresses : Story(updates', mirror', a, Len(updates')) <=> a \in Published'
  BY <1>2, <1>3, <1>4, <1>5, <1>8 DEF Published
<1> QED  BY <1>1, <1>8, <1>9 DEF UpdatesInv, Announcing, Publishing

LEMMA TakenTells ==
  ASSUME TypeOK, LifeInv, UpdatesInv, GetModuleUpdate
  PROVE  UpdatesInv'
<1>1. /\ updates \in Seq(Update) /\ updates # <<>> /\ updates' = Tail(updates)
      /\ mirror' = IF Head(updates).type = "added" THEN mirror \cup {Head(updates).addr}
                   ELSE mirror \ {Head(updates).addr}
      /\ View' = View /\ phase' = phase /\ cursor' = cursor
  BY UpdateTaken DEF TypeOK, Update, GetModuleUpdate, loopVars
<1>2. /\ Len(updates') \in Nat /\ Len(updates) = Len(updates') + 1
      /\ \A j \in 1..Len(updates') : updates'[j] = updates[j + 1] /\ updates'[j] \in Update
  BY <1>1
<1>3. ASSUME NEW a \in Addresses, NEW n \in 0..Len(updates')
      PROVE  Story(updates', mirror', a, n) <=> Story(updates, mirror, a, n + 1)
  <2>1. n \in Nat /\ n + 1 \in 1..Len(updates)
    BY <1>2
  <2> QED  BY <1>1, <2>1, StoryTaken
<1>4. Consistent(updates', mirror')
  <2> SUFFICES ASSUME NEW j \in 1..Len(updates')
               PROVE  updates'[j].type = "added" <=> ~Story(updates', mirror', updates'[j].addr, j - 1)
    BY DEF Consistent
  <2>1. /\ j + 1 \in 1..Len(updates) /\ j - 1 \in 0..Len(updates') /\ j + 1 - 1 = j - 1 + 1
        /\ updates'[j] = updates[j + 1] /\ updates'[j].addr \in Addresses
    BY <1>2 DEF Update
  <2>2. updates[j + 1].type = "added" <=> ~Story(updates, mirror, updates[j + 1].addr, j - 1 + 1)
    BY <2>1 DEF UpdatesInv, Consistent
  <2> QED  BY <1>3, <2>1, <2>2
<1>5. \A a \in Addresses :
        Story(updates', mirror', a, Len(updates')) <=> Story(updates, mirror, a, Len(updates))
  BY <1>2, <1>3
<1> QED
  BY <1>1, <1>4, <1>5 DEF UpdatesInv, Announcing, Publishing, Published, View

LEMMA TellsStep ==
  ASSUME TypeOK, LifeInv, UpdatesInv, [Next]_vars
  PROVE  UpdatesInv'
<1>1. CASE PublishInsert \/ PublishAnnounce \/ ClearPub \/ GetModuleUpdate
  BY <1>1, InsertTells, AnnounceTells, ClearPubTells, TakenTells
<1>2. CASE \/ BeginService \/ BeginServiceBootloading \/ SendNoSlow \/ BeginSweep \/ SkipSweep
           \/ SweepDone \/ ReceiveDone \/ ClearList
  BY <1>2, StorySame
     DEF BeginService, BeginServiceBootloading, SendNoSlow, BeginSweep, SkipSweep, SweepDone,
         ReceiveDone, ClearList, Go, Publishing, listVars, appVars
<1>3. CASE SendSlow \/ SweepRefresh
  BY <1>3, StorySame DEF SendSlow, SweepRefresh, Go, Publishing, listVars, appVars
<1>4. CASE \/ \E a \in Addresses : Hear(a)
           \/ \E x \in inflight : \E again \in BOOLEAN : Arrive(x, again)
  BY <1>4, StorySame DEF Hear, Arrive, Publishing, loopVars, appVars
<1>5. CASE \/ SweepTimer \/ UNCHANGED vars
           \/ \E x \in inflight : Lose(x)
           \/ \E o \in 1..Len(objects) : Age(o)
  <2>1. objects' = objects /\ phase' = phase /\ cursor' = cursor /\ initList' = initList
        /\ pub' = pub /\ updates' = updates /\ mirror' = mirror
    BY <1>5 DEF SweepTimer, vars, Lose, Age,
                objectVars, listVars, loopVars, appVars
  <2> QED  BY <2>1, SameObjects, StorySame DEF Publishing
<1>6. CASE \E o \in 1..Len(objects) : \E k \in Kinds : FallQuiet(o, k)
  <2>1. phase = "poll" /\ phase' = phase /\ updates' = updates /\ mirror' = mirror /\ pub' = pub
    BY <1>6 DEF FallQuiet, listVars, loopVars, appVars
  <2> QED  BY <2>1, StorySame DEF Publishing
<1> QED
  BY <1>1, <1>2, <1>3, <1>4, <1>5, <1>6 DEF Next, Service, Environment

(* Who replays MODULE_ADDED and MODULE_REMOVED from the beginning sees each *)
(* module added when it is unknown and removed when it is known, and ends  *)
(* with the published list: although the same module can be published,     *)
(* forgotten and found again while the application reads no update, and    *)
(* insert keeps silent when the address is taken (eigen_comms.cpp:402-406, *)
(* 437).                                                                   *)
THEOREM UpdatesTell == Spec => []UpdatesTellTheList
<1>1. Init => TypeOK /\ LifeInv /\ UpdatesInv
  <2>1. Init => updates = <<>> /\ Len(updates) = 0 /\ mirror = {} /\ Published = {}
    BY DEF Init, Published
  <2>2. ASSUME updates = <<>>, Len(updates) = 0, mirror = {}, Published = {}
        PROVE  UpdatesInv
    BY <2>2 DEF UpdatesInv, Consistent, Story
  <2> QED  BY <2>1, <2>2, InitLife
<1>2. (TypeOK /\ LifeInv /\ UpdatesInv) /\ [Next]_vars => (TypeOK /\ LifeInv /\ UpdatesInv)'
  BY LifeStep, TellsStep
<1>3. TypeOK /\ LifeInv /\ UpdatesInv => UpdatesTellTheList
  BY StoryIsBelieved
<1> QED  BY <1>1, <1>2, <1>3, PTL DEF Spec
=============================================================================
