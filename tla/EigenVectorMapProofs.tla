------------------------ MODULE EigenVectorMapProofs ------------------------
(***************************************************************************)
(* Proofs about EigenVectorMap, for any modules and any number of bytes:   *)
(* the map and the vector agree, a sweep leaves no stale module behind,    *)
(* and the container implements EigenModuleSet.                            *)
(*                                                                         *)
(* The inductive invariant joins three facts.  The map and the vector      *)
(* agree only because the vector is sorted, since remove() searches it by  *)
(* address; and that a sweep is complete needs that the positions it has   *)
(* passed hold fresh modules, which erasing at the counter must not break. *)
(*                                                                         *)
(* The reader of the published list needs a fourth: the modules it has     *)
(* passed are those at the indices it has asked for, unless one of them    *)
(* left the list or an insertion still has to raise the flag.              *)
(***************************************************************************)
EXTENDS EigenModuleReader, WellFoundedInduction, FiniteSetTheorems, TLAPS

IInv == TypeOK /\ MapAndVectorAgree /\ SweptAreFresh

-----------------------------------------------------------------------------
(***************************************************************************)
(* The operators on sequences, element by element.                         *)
(***************************************************************************)

\* InsertAt moves what was at position p and behind it by one.
LEMMA InsertAtElements ==
  ASSUME NEW S, NEW s \in Seq(S), NEW e \in S, NEW p \in 1 .. Len(s) + 1
  PROVE  LET t == InsertAt(s, p, e) IN
         /\ t \in Seq(S)
         /\ Len(t) = Len(s) + 1
         /\ \A i \in 1 .. p - 1 : t[i] = s[i]
         /\ t[p] = e
         /\ \A i \in p + 1 .. Len(s) + 1 : t[i] = s[i - 1]
<1> DEFINE a == SubSeq(s, 1, p - 1)
           b == SubSeq(s, p, Len(s))
<1>1. /\ a \in Seq(S) /\ Len(a) = p - 1
      /\ \A i \in 1 .. p - 1 : a[i] = s[i]
  OBVIOUS
<1>2. /\ b \in Seq(S) /\ Len(b) = Len(s) - p + 1
      /\ \A i \in 1 .. Len(s) - p + 1 : b[i] = s[i + p - 1]
  OBVIOUS
<1>3. /\ a \o <<e>> \in Seq(S) /\ Len(a \o <<e>>) = p
      /\ \A i \in 1 .. p - 1 : (a \o <<e>>)[i] = s[i]
      /\ (a \o <<e>>)[p] = e
  BY <1>1
<1>4. InsertAt(s, p, e) = (a \o <<e>>) \o b
  BY DEF InsertAt
<1> HIDE DEF a, b
<1> DEFINE c == a \o <<e>>
<1>5. c \in Seq(S) /\ Len(c) = p
  BY <1>3
<1>6. /\ c \o b \in Seq(S) /\ Len(c \o b) = Len(s) + 1
      /\ \A i \in 1 .. p : (c \o b)[i] = c[i]
      /\ \A i \in p + 1 .. Len(s) + 1 : (c \o b)[i] = b[i - p]
  <2> HIDE DEF c
  <2> QED  BY <1>2, <1>5
<1>7. \A i \in p + 1 .. Len(s) + 1 : b[i - p] = s[i - 1]
  BY <1>2
<1> QED  BY <1>3, <1>4, <1>6, <1>7

\* RemoveAt moves what was behind position p by one.
LEMMA RemoveAtElements ==
  ASSUME NEW S, NEW s \in Seq(S), NEW p \in 1 .. Len(s)
  PROVE  LET t == RemoveAt(s, p) IN
         /\ t \in Seq(S)
         /\ Len(t) = Len(s) - 1
         /\ \A i \in 1 .. p - 1 : t[i] = s[i]
         /\ \A i \in p .. Len(s) - 1 : t[i] = s[i + 1]
<1> DEFINE a == SubSeq(s, 1, p - 1)
           b == SubSeq(s, p + 1, Len(s))
<1>1. /\ a \in Seq(S) /\ Len(a) = p - 1
      /\ \A i \in 1 .. p - 1 : a[i] = s[i]
  OBVIOUS
<1>2. /\ b \in Seq(S) /\ Len(b) = Len(s) - p
      /\ \A i \in 1 .. Len(s) - p : b[i] = s[i + p]
  OBVIOUS
<1>3. RemoveAt(s, p) = a \o b
  BY DEF RemoveAt
<1> HIDE DEF a, b
<1>4. /\ a \o b \in Seq(S) /\ Len(a \o b) = Len(s) - 1
      /\ \A i \in 1 .. p - 1 : (a \o b)[i] = a[i]
      /\ \A i \in p .. Len(s) - 1 : (a \o b)[i] = b[i - p + 1]
  <2>1. /\ a \o b \in Seq(S) /\ Len(a \o b) = Len(a) + Len(b)
        /\ \A i \in 1 .. Len(a) + Len(b) :
             (a \o b)[i] = IF i <= Len(a) THEN a[i] ELSE b[i - Len(a)]
    <3>1. a \in Seq(S) /\ b \in Seq(S)
      BY <1>1, <1>2
    <3> QED  BY <3>1, SMTT(30)
  <2>2. /\ Len(a) + Len(b) = Len(s) - 1 /\ Len(s) \in Nat
        /\ \A i \in 1 .. p - 1 : i \in 1 .. Len(s) - 1 /\ i <= Len(a)
        /\ \A i \in p .. Len(s) - 1 : ~ (i <= Len(a)) /\ i - Len(a) = i - p + 1
                                     /\ i \in 1 .. Len(s) - 1
    BY <1>1, <1>2
  <2> QED  BY <2>1, <2>2
<1>5. \A i \in p .. Len(s) - 1 : b[i - p + 1] = s[i + 1]
  BY <1>2
<1> QED  BY <1>1, <1>3, <1>4, <1>5

\* std::lower_bound finds a position: the first whose address is not below k.
LEMMA LowerBoundIsFirst ==
  ASSUME vector_ \in Seq(Modules), NEW k \in Int
  PROVE  /\ LowerBound(k) \in 1 .. Len(vector_) + 1
         /\ LowerBound(k) \in DOMAIN vector_
              => Address[vector_[LowerBound(k)]] >= k
         /\ \A i \in 1 .. LowerBound(k) - 1 : Address[vector_[i]] < k
<1> DEFINE T == {p \in 1 .. Len(vector_) + 1 :
                   p \in DOMAIN vector_ => Address[vector_[p]] >= k}
<1>1. Len(vector_) \in Nat /\ DOMAIN vector_ = 1 .. Len(vector_)
  OBVIOUS
<1>2. T \subseteq Nat /\ Len(vector_) + 1 \in T
  BY <1>1
<1>3. PICK p \in T : \A q \in T : ~ (<<q, p>> \in OpToRel(<, Nat))
  BY <1>2, WFMin, NatLessThanWellFounded
<1>4. \A q \in T : ~ (q < p)
  BY <1>2, <1>3 DEF OpToRel
<1>5. \A i \in 1 .. p - 1 : Address[vector_[i]] < k
  <2> SUFFICES ASSUME NEW i \in 1 .. p - 1
               PROVE  Address[vector_[i]] < k
    OBVIOUS
  <2>1. i \notin T /\ i \in DOMAIN vector_
    BY <1>1, <1>4
  <2>2. Address[vector_[i]] \in Int
    BY <2>1, <1>1, AddressAssumption, BytesAssumption DEF AddressAssumption, BytesAssumption
  <2> QED  BY <1>1, <2>1, <2>2
<1>6. p \in 1 .. Len(vector_) + 1 /\ (p \in DOMAIN vector_ => Address[vector_[p]] >= k)
  OBVIOUS
<1> QED  BY <1>5, <1>6 DEF LowerBound
-----------------------------------------------------------------------------
(***************************************************************************)
(* Every action keeps the invariant.                                       *)
(***************************************************************************)

\* The addresses are bytes below the one that means every module.
LEMMA AddressType ==
  /\ Bytes \in Nat \ {0}
  /\ \A m \in Modules : Address[m] \in 0 .. Bytes - 2
  /\ \A m \in Modules : Address[m] \in Int /\ Address[m] \in Addresses
BY BytesAssumption, AddressAssumption DEF BytesAssumption, AddressAssumption, Addresses

\* A module under a new address is put where the vector stays sorted.
LEMMA InsertKeepsIInv ==
  ASSUME IInv, NEW m \in Modules, Insert(m)
  PROVE  IInv'
<1> DEFINE k == Address[m]
<1>1. vector_ \in Seq(Modules) /\ Len(vector_) \in Nat /\ DOMAIN vector_ = 1 .. Len(vector_)
  BY DEF IInv, TypeOK
<1>2. k \in Int /\ k \in Addresses /\ k \notin DOMAIN map_
  BY AddressType DEF Insert
<1>3. PICK p \in 1 .. Len(vector_) + 1 :
        /\ p = LowerBound(k)
        /\ p \in DOMAIN vector_ => Address[vector_[p]] >= k
        /\ \A i \in 1 .. p - 1 : Address[vector_[i]] < k
  BY <1>1, <1>2, LowerBoundIsFirst
<1>4. vector_' = InsertAt(vector_, p, m)
  BY <1>3 DEF Insert
<1>5. /\ vector_' \in Seq(Modules)
      /\ Len(vector_') = Len(vector_) + 1
      /\ \A i \in 1 .. p - 1 : vector_'[i] = vector_[i]
      /\ vector_'[p] = m
      /\ \A i \in p + 1 .. Len(vector_) + 1 : vector_'[i] = vector_[i - 1]
  <2>1. m \in Modules /\ vector_ \in Seq(Modules) /\ p \in 1 .. Len(vector_) + 1
    BY <1>1, <1>3
  <2>2. LET t == InsertAt(vector_, p, m) IN
          /\ t \in Seq(Modules)
          /\ Len(t) = Len(vector_) + 1
          /\ \A i \in 1 .. p - 1 : t[i] = vector_[i]
          /\ t[p] = m
          /\ \A i \in p + 1 .. Len(vector_) + 1 : t[i] = vector_[i - 1]
    <3> HIDE DEF k
    <3> QED  BY <2>1, InsertAtElements, SMTT(60)
  <2> QED  BY <1>4, <2>2
<1>6. DOMAIN vector_' = 1 .. Len(vector_) + 1
  BY <1>5
<1>7. \A i \in 1 .. Len(vector_) :
        /\ vector_[i] \in Modules /\ Address[vector_[i]] \in Int
        /\ Address[vector_[i]] \in DOMAIN map_ /\ Address[vector_[i]] # k
        /\ map_[Address[vector_[i]]] = vector_[i]
  BY <1>1, <1>2, AddressType DEF IInv, MapAndVectorAgree
<1>8. \A i \in p .. Len(vector_) : k < Address[vector_[i]]
  <2> SUFFICES ASSUME NEW i \in p .. Len(vector_)
               PROVE  k < Address[vector_[i]]
    OBVIOUS
  <2>1. i \in 1 .. Len(vector_) /\ p \in 1 .. Len(vector_)
    BY <1>1, <1>3
  <2>2. Address[vector_[p]] >= k /\ Address[vector_[p]] # k /\ Address[vector_[p]] \in Int
    BY <1>1, <1>3, <1>7, <2>1
  <2>3. i = p \/ Address[vector_[p]] < Address[vector_[i]]
    BY <1>1, <1>3, <2>1 DEF IInv, MapAndVectorAgree
  <2> QED  BY <1>2, <1>7, <2>1, <2>2, <2>3
<1>9. map_' = [a \in DOMAIN map_ \cup {k} |-> IF a = k THEN m ELSE map_[a]]
  BY DEF Insert
<1> HIDE DEF k
<1>10. TypeOK'
  BY <1>2, <1>5, <1>9 DEF IInv, TypeOK, Insert
<1>11. \A i, j \in DOMAIN vector_' : i < j => Address[vector_'[i]] < Address[vector_'[j]]
  <2> SUFFICES ASSUME NEW i \in 1 .. Len(vector_) + 1, NEW j \in 1 .. Len(vector_) + 1, i < j
               PROVE  Address[vector_'[i]] < Address[vector_'[j]]
    BY <1>6
  <2>1. CASE j < p
    <3>1. vector_'[i] = vector_[i] /\ vector_'[j] = vector_[j]
      BY <2>1, <1>1, <1>3, <1>5
    <3>2. i \in 1 .. Len(vector_) /\ j \in 1 .. Len(vector_)
      BY <2>1, <1>1, <1>3
    <3> QED  BY <3>1, <3>2, <1>1 DEF IInv, MapAndVectorAgree
  <2>2. CASE j = p
    BY <2>2, <1>1, <1>3, <1>5 DEF k
  <2>3. CASE i < p /\ p < j
    <3>1. vector_'[i] = vector_[i] /\ vector_'[j] = vector_[j - 1]
      BY <2>3, <1>1, <1>3, <1>5
    <3>2. i \in DOMAIN vector_ /\ j - 1 \in DOMAIN vector_ /\ i < j - 1
      BY <2>3, <1>1, <1>3
    <3>3. Address[vector_[i]] < Address[vector_[j - 1]]
      BY <3>2 DEF IInv, MapAndVectorAgree
    <3> QED  BY <3>1, <3>3
  <2>4. CASE i = p
    <3>1. vector_'[i] = m /\ vector_'[j] = vector_[j - 1]
      BY <2>4, <1>1, <1>3, <1>5
    <3>2. j - 1 \in p .. Len(vector_)
      BY <2>4, <1>1, <1>3
    <3> QED  BY <3>1, <3>2, <1>8 DEF k
  <2>5. CASE p < i
    <3>1. vector_'[i] = vector_[i - 1] /\ vector_'[j] = vector_[j - 1]
      BY <2>5, <1>1, <1>3, <1>5
    <3>2. i - 1 \in 1 .. Len(vector_) /\ j - 1 \in 1 .. Len(vector_) /\ i - 1 < j - 1
      BY <2>5, <1>1, <1>3
    <3> QED  BY <3>1, <3>2, <1>1 DEF IInv, MapAndVectorAgree
  <2> QED  BY <2>1, <2>2, <2>3, <2>4, <2>5, <1>1, <1>3
<1>12. \A i \in DOMAIN vector_' :
         Address[vector_'[i]] \in DOMAIN map_' /\ map_'[Address[vector_'[i]]] = vector_'[i]
  <2> SUFFICES ASSUME NEW i \in 1 .. Len(vector_) + 1
               PROVE  Address[vector_'[i]] \in DOMAIN map_' /\ map_'[Address[vector_'[i]]] = vector_'[i]
    BY <1>6
  <2>1. CASE i = p
    BY <2>1, <1>5, <1>9 DEF k
  <2>2. CASE i # p
    <3>1. \E j \in 1 .. Len(vector_) : vector_'[i] = vector_[j]
      BY <2>2, <1>1, <1>3, <1>5
    <3> QED  BY <3>1, <1>7, <1>9
  <2> QED  BY <2>1, <2>2
<1>13. \A a \in DOMAIN map_' :
         Address[map_'[a]] = a /\ \E i \in DOMAIN vector_' : vector_'[i] = map_'[a]
  <2> SUFFICES ASSUME NEW a \in DOMAIN map_ \cup {k}
               PROVE  /\ Address[map_'[a]] = a
                      /\ \E i \in 1 .. Len(vector_) + 1 : vector_'[i] = map_'[a]
    BY <1>6, <1>9
  <2>1. CASE a = k
    BY <2>1, <1>1, <1>3, <1>5, <1>9 DEF k
  <2>2. CASE a # k
    <3>1. PICK j \in 1 .. Len(vector_) : vector_[j] = map_[a]
      BY <2>2, <1>1 DEF IInv, MapAndVectorAgree
    <3>2. map_'[a] = map_[a] /\ Address[map_[a]] = a
      BY <2>2, <1>9 DEF IInv, MapAndVectorAgree
    <3>3. CASE j < p
      <4>1. vector_'[j] = vector_[j] /\ j \in 1 .. Len(vector_) + 1
        BY <3>1, <3>3, <1>1, <1>3, <1>5
      <4> QED  BY <3>1, <3>2, <4>1
    <3>4. CASE j >= p
      <4>1. j + 1 \in p + 1 .. Len(vector_) + 1 /\ j + 1 - 1 = j /\ j + 1 \in 1 .. Len(vector_) + 1
        BY <3>1, <3>4, <1>1, <1>3
      <4>2. vector_'[j + 1] = vector_[j]
        BY <4>1, <1>5
      <4> QED  BY <3>1, <3>2, <4>1, <4>2
    <3> QED  BY <3>3, <3>4, <3>1, <1>3
  <2> QED  BY <2>1, <2>2
<1>14. MapAndVectorAgree'
  BY <1>11, <1>12, <1>13 DEF MapAndVectorAgree, Insert, IInv
<1>15. SweptAreFresh'
  BY DEF SweptAreFresh, Insert
<1> QED  BY <1>10, <1>14, <1>15 DEF IInv

\* Erasing the position of a module, and its address from the map, keeps the
\* map and the vector in agreement: what remove() and remove_ind share.
LEMMA ErasingKeepsAgreement ==
  ASSUME TypeOK, MapAndVectorAgree, NEW p \in DOMAIN vector_,
         map_' = Without(Address[vector_[p]]),
         vector_' = RemoveAt(vector_, p),
         pc' # "mismatch"
  PROVE  /\ MapAndVectorAgree'
         /\ DOMAIN map_' \subseteq Addresses /\ map_' \in [DOMAIN map_' -> Modules]
         /\ vector_' \in Seq(Modules) /\ Len(vector_') = Len(vector_) - 1
         /\ \A i \in 1 .. p - 1 : vector_'[i] = vector_[i]
<1> DEFINE k == Address[vector_[p]]
<1>1. vector_ \in Seq(Modules) /\ Len(vector_) \in Nat /\ DOMAIN vector_ = 1 .. Len(vector_)
  BY DEF TypeOK
<1>2. p \in 1 .. Len(vector_)
  BY <1>1
<1>3. /\ vector_' \in Seq(Modules)
      /\ Len(vector_') = Len(vector_) - 1
      /\ \A i \in 1 .. p - 1 : vector_'[i] = vector_[i]
      /\ \A i \in p .. Len(vector_) - 1 : vector_'[i] = vector_[i + 1]
  BY <1>1, <1>2, RemoveAtElements, Zenon
<1>4. DOMAIN vector_' = 1 .. Len(vector_) - 1
  BY <1>1, <1>3
<1>5. \A i \in 1 .. Len(vector_) :
        /\ Address[vector_[i]] \in DOMAIN map_ /\ Address[vector_[i]] \in Int
        /\ map_[Address[vector_[i]]] = vector_[i]
  BY <1>1, AddressType DEF MapAndVectorAgree
<1>6. \A i, j \in 1 .. Len(vector_) : i < j => Address[vector_[i]] < Address[vector_[j]]
  BY <1>1 DEF MapAndVectorAgree
<1>7. \A i \in 1 .. Len(vector_) : i # p => Address[vector_[i]] # k
  <2> SUFFICES ASSUME NEW i \in 1 .. Len(vector_), i # p
               PROVE  Address[vector_[i]] # k
    OBVIOUS
  <2>1. i < p \/ p < i
    BY <1>1, <1>2
  <2>2. Address[vector_[i]] < k \/ k < Address[vector_[i]]
    BY <1>2, <1>6, <2>1
  <2> QED  BY <2>2, <1>2, <1>5
<1>8. map_' = [a \in DOMAIN map_ \ {k} |-> map_[a]]
  BY DEF Without
<1>9. DOMAIN map_' \subseteq Addresses /\ map_' \in [DOMAIN map_' -> Modules]
  BY <1>8 DEF TypeOK
<1> HIDE DEF k
\* What was at position j is now at j, or at j - 1.
<1>10. \A i \in 1 .. Len(vector_) - 1 :
         \E j \in 1 .. Len(vector_) :
           j # p /\ vector_'[i] = vector_[j] /\ j = IF i < p THEN i ELSE i + 1
  <2> SUFFICES ASSUME NEW i \in 1 .. Len(vector_) - 1
               PROVE  \E j \in 1 .. Len(vector_) :
                        j # p /\ vector_'[i] = vector_[j] /\ j = IF i < p THEN i ELSE i + 1
    OBVIOUS
  <2>1. CASE i < p
    <3>1. i \in 1 .. p - 1 /\ i \in 1 .. Len(vector_) /\ i # p
      BY <2>1, <1>1, <1>2
    <3> QED  BY <2>1, <3>1, <1>3
  <2>2. CASE ~ (i < p)
    <3>1. i \in p .. Len(vector_) - 1 /\ i + 1 \in 1 .. Len(vector_) /\ i + 1 # p
      BY <2>2, <1>1, <1>2
    <3> QED  BY <2>2, <3>1, <1>3
  <2> QED  BY <2>1, <2>2
<1>11. \A i, j \in DOMAIN vector_' : i < j => Address[vector_'[i]] < Address[vector_'[j]]
  <2> SUFFICES ASSUME NEW i \in 1 .. Len(vector_) - 1, NEW j \in 1 .. Len(vector_) - 1, i < j
               PROVE  Address[vector_'[i]] < Address[vector_'[j]]
    BY <1>4
  <2>1. PICK x \in 1 .. Len(vector_) : vector_'[i] = vector_[x] /\ x = IF i < p THEN i ELSE i + 1
    BY <1>10
  <2>2. PICK y \in 1 .. Len(vector_) : vector_'[j] = vector_[y] /\ y = IF j < p THEN j ELSE j + 1
    BY <1>10
  <2>3. x < y
    BY <2>1, <2>2, <1>1, <1>2
  <2> QED  BY <2>1, <2>2, <2>3, <1>6
<1>12. \A i \in DOMAIN vector_' :
         Address[vector_'[i]] \in DOMAIN map_' /\ map_'[Address[vector_'[i]]] = vector_'[i]
  <2> SUFFICES ASSUME NEW i \in 1 .. Len(vector_) - 1
               PROVE  Address[vector_'[i]] \in DOMAIN map_' /\ map_'[Address[vector_'[i]]] = vector_'[i]
    BY <1>4
  <2>1. PICK x \in 1 .. Len(vector_) : x # p /\ vector_'[i] = vector_[x]
    BY <1>10
  <2> QED  BY <2>1, <1>5, <1>7, <1>8
<1>13. \A a \in DOMAIN map_' :
         Address[map_'[a]] = a /\ \E i \in DOMAIN vector_' : vector_'[i] = map_'[a]
  <2> SUFFICES ASSUME NEW a \in DOMAIN map_ \ {k}
               PROVE  /\ Address[map_[a]] = a
                      /\ \E i \in 1 .. Len(vector_) - 1 : vector_'[i] = map_[a]
    BY <1>4, <1>8
  <2>1. Address[map_[a]] = a
    BY DEF MapAndVectorAgree
  <2>2. PICK j \in 1 .. Len(vector_) : vector_[j] = map_[a]
    BY <1>1 DEF MapAndVectorAgree
  <2>3. j # p
    BY <2>1, <2>2 DEF k
  <2>4. CASE j < p
    <3>1. j \in 1 .. p - 1 /\ j \in 1 .. Len(vector_) - 1
      BY <2>4, <1>1, <1>2
    <3> QED  BY <2>1, <2>2, <3>1, <1>3
  <2>5. CASE p < j
    <3>1. j - 1 \in p .. Len(vector_) - 1 /\ j - 1 + 1 = j /\ j - 1 \in 1 .. Len(vector_) - 1
      BY <2>5, <1>1, <1>2
    <3>2. vector_'[j - 1] = vector_[j]
      BY <3>1, <1>3
    <3> QED  BY <2>1, <2>2, <3>1, <3>2
  <2> QED  BY <2>3, <2>4, <2>5, <1>2
<1>14. MapAndVectorAgree'
  BY <1>11, <1>12, <1>13 DEF MapAndVectorAgree
<1> QED  BY <1>3, <1>9, <1>14

\* remove() finds the position of the module it takes out of the map.
LEMMA RemoveFinds ==
  ASSUME IInv, NEW k \in Addresses, RemoveKey(k)
  PROVE  \E p \in DOMAIN vector_ :
           /\ Address[vector_[p]] = k
           /\ map_' = Without(Address[vector_[p]])
           /\ vector_' = RemoveAt(vector_, p)
           /\ pc' = "idle"
<1>1. vector_ \in Seq(Modules) /\ Len(vector_) \in Nat /\ DOMAIN vector_ = 1 .. Len(vector_)
  BY DEF IInv, TypeOK
<1>2. k \in Int
  BY AddressType DEF Addresses
<1>3. PICK p : /\ p = LowerBound(k)
               /\ p \in 1 .. Len(vector_) + 1
               /\ p \in DOMAIN vector_ => Address[vector_[p]] >= k
               /\ \A i \in 1 .. p - 1 : Address[vector_[i]] < k
  BY <1>1, <1>2, LowerBoundIsFirst
<1>4. PICK i \in 1 .. Len(vector_) : Address[vector_[i]] = k
  <2>1. PICK i \in DOMAIN vector_ : vector_[i] = map_[k] /\ Address[map_[k]] = k
    BY DEF IInv, MapAndVectorAgree, RemoveKey
  <2> QED  BY <1>1, <2>1
<1>5. ~ (i < p)
  <2> SUFFICES ASSUME i < p PROVE FALSE
    OBVIOUS
  <2>1. i \in 1 .. p - 1
    BY <1>1, <1>3
  <2> QED  BY <1>2, <1>3, <1>4, <2>1
<1>6. p \in 1 .. Len(vector_)
  BY <1>1, <1>3, <1>5
<1>7. ~ (p < i)
  <2> SUFFICES ASSUME p < i PROVE FALSE
    OBVIOUS
  <2>1. Address[vector_[p]] < Address[vector_[i]]
    BY <1>1, <1>6 DEF IInv, MapAndVectorAgree
  <2>2. Address[vector_[p]] \in Int /\ Address[vector_[p]] >= k
    BY <1>1, <1>3, <1>6, AddressType
  <2> QED  BY <1>2, <1>4, <2>1, <2>2
<1>8. p = i
  BY <1>1, <1>3, <1>5, <1>7
<1>9. p \in DOMAIN vector_ /\ Address[vector_[p]] = k
  BY <1>1, <1>4, <1>6, <1>8
<1> QED  BY <1>3, <1>9 DEF RemoveKey

\* In a sweep, the module at the counter is the stale one with the lowest
\* address, and the map has it: remove_ind_no_lock does not throw.
LEMMA RemoveOldFinds ==
  ASSUME IInv, RemoveOld
  PROVE  /\ ind + 1 \in DOMAIN vector_
         /\ map_' = Without(Address[vector_[ind + 1]])
         /\ vector_' = RemoveAt(vector_, ind + 1)
         /\ retval' = Append(retval, Address[vector_[ind + 1]])
         /\ pc' = "sweep" /\ ind' = ind /\ aged' = aged
         /\ \A k \in DOMAIN map_ : map_[k] \in aged => Address[vector_[ind + 1]] <= k
<1>1. vector_ \in Seq(Modules) /\ Len(vector_) \in Nat /\ DOMAIN vector_ = 1 .. Len(vector_)
  BY DEF IInv, TypeOK
<1>2. ind \in Nat
  BY BytesAssumption DEF IInv, TypeOK, BytesAssumption
<1>3. ind + 1 \in 1 .. Len(vector_) /\ ind + 1 \in DOMAIN vector_
  BY <1>1, <1>2 DEF RemoveOld
<1>4. Address[vector_[ind + 1]] \in DOMAIN map_
  BY <1>3 DEF IInv, MapAndVectorAgree
<1>5. ASSUME NEW k \in DOMAIN map_, map_[k] \in aged
      PROVE  Address[vector_[ind + 1]] <= k
  <2>1. PICK i \in 1 .. Len(vector_) : vector_[i] = map_[k] /\ Address[map_[k]] = k
    BY <1>1 DEF IInv, MapAndVectorAgree
  <2>2. ~ (i <= ind)
    BY <1>5, <2>1, <1>1, <1>2 DEF IInv, SweptAreFresh, RemoveOld
  <2>3. i = ind + 1 \/ ind + 1 < i
    BY <1>1, <1>2, <2>2
  <2>4. Address[vector_[ind + 1]] \in Int /\ Address[vector_[i]] \in Int
    BY <1>1, <1>3, AddressType
  <2>5. ind + 1 < i => Address[vector_[ind + 1]] < Address[vector_[i]]
    BY <1>1, <1>3 DEF IInv, MapAndVectorAgree
  <2> QED  BY <2>1, <2>3, <2>4, <2>5
<1> QED  BY <1>3, <1>4, <1>5 DEF RemoveOld

\* The invariant is inductive.
LEMMA NextKeepsIInv ==
  ASSUME IInv, [Next]_vars
  PROVE  IInv'
<1>1. ASSUME NEW m \in Modules, Insert(m) PROVE IInv'
  BY <1>1, InsertKeepsIInv
<1>2. ASSUME NEW m \in Modules, Hear(m) PROVE IInv'
  <2>1. TypeOK'
    BY <1>2 DEF IInv, TypeOK, Hear
  <2>2. MapAndVectorAgree'
    BY <1>2 DEF IInv, MapAndVectorAgree, Hear
  <2>3. SweptAreFresh'
    BY <1>2 DEF SweptAreFresh, Hear
  <2> QED  BY <2>1, <2>2, <2>3 DEF IInv
<1>3. ASSUME NEW k \in Addresses, RemoveKey(k) PROVE IInv'
  <2>1. PICK p \in DOMAIN vector_ :
          /\ map_' = Without(Address[vector_[p]])
          /\ vector_' = RemoveAt(vector_, p)
          /\ pc' = "idle"
    BY <1>3, RemoveFinds
  <2>2. /\ MapAndVectorAgree'
        /\ DOMAIN map_' \subseteq Addresses /\ map_' \in [DOMAIN map_' -> Modules]
        /\ vector_' \in Seq(Modules)
    BY <2>1, ErasingKeepsAgreement DEF IInv
  <2>3. TypeOK'
    BY <1>3, <2>1, <2>2 DEF IInv, TypeOK, RemoveKey
  <2>4. SweptAreFresh'
    BY <2>1 DEF SweptAreFresh
  <2> QED  BY <2>2, <2>3, <2>4 DEF IInv
<1>4. ASSUME Clear PROVE IInv'
  <2>1. map_' = [a \in {} |-> {}] /\ vector_' = <<>> /\ pc' = "idle"
    BY <1>4 DEF Clear
  <2>2. TypeOK'
    BY <1>4, <2>1 DEF IInv, TypeOK, Clear
  <2>3. MapAndVectorAgree'
    BY <2>1 DEF MapAndVectorAgree
  <2>4. SweptAreFresh'
    BY <2>1 DEF SweptAreFresh
  <2> QED  BY <2>2, <2>3, <2>4 DEF IInv
<1>5. ASSUME ClearOld PROVE IInv'
  <2>1. TypeOK'
    BY <1>5, BytesAssumption DEF IInv, TypeOK, ClearOld, BytesAssumption
  <2>2. MapAndVectorAgree'
    BY <1>5 DEF IInv, MapAndVectorAgree, ClearOld
  <2>3. SweptAreFresh'
    BY <1>5 DEF SweptAreFresh, ClearOld
  <2> QED  BY <2>1, <2>2, <2>3 DEF IInv
<1>6. ASSUME RemoveOld PROVE IInv'
  <2>1. /\ ind + 1 \in DOMAIN vector_
        /\ map_' = Without(Address[vector_[ind + 1]])
        /\ vector_' = RemoveAt(vector_, ind + 1)
        /\ retval' = Append(retval, Address[vector_[ind + 1]])
        /\ pc' = "sweep" /\ ind' = ind /\ aged' = aged
    BY <1>6, RemoveOldFinds
  <2>2. /\ MapAndVectorAgree'
        /\ DOMAIN map_' \subseteq Addresses /\ map_' \in [DOMAIN map_' -> Modules]
        /\ vector_' \in Seq(Modules) /\ Len(vector_') = Len(vector_) - 1
        /\ \A i \in 1 .. (ind + 1) - 1 : vector_'[i] = vector_[i]
    BY <2>1, ErasingKeepsAgreement DEF IInv
  <2>3. TypeOK'
    <3>1. Address[vector_[ind + 1]] \in Addresses
      BY <2>1, AddressType DEF IInv, TypeOK
    <3> QED  BY <2>1, <2>2, <3>1 DEF IInv, TypeOK
  <2>4. SweptAreFresh'
    <3>1. ind \in Nat /\ ind + 1 <= Len(vector_) /\ Len(vector_) \in Nat
      BY <2>1, BytesAssumption DEF IInv, TypeOK, BytesAssumption
    <3>2. \A i \in 1 .. ind : i \in DOMAIN vector_' /\ vector_'[i] = vector_[i]
      BY <2>2, <3>1
    <3> QED  BY <1>6, <2>1, <3>2 DEF IInv, SweptAreFresh, RemoveOld
  <2> QED  BY <2>2, <2>3, <2>4 DEF IInv
<1>7. ASSUME KeepFresh PROVE IInv'
  <2>1. ind \in 0 .. Bytes - 1 /\ Bytes \in Nat \ {0}
    BY BytesAssumption DEF IInv, TypeOK, BytesAssumption
  <2>2. ind' \in 0 .. Bytes - 1 /\ ind' = (IF ind + 1 = Bytes THEN 0 ELSE ind + 1)
    BY <1>7, <2>1 DEF KeepFresh
  <2>3. TypeOK'
    BY <1>7, <2>2 DEF IInv, TypeOK, KeepFresh
  <2>4. MapAndVectorAgree'
    BY <1>7 DEF IInv, MapAndVectorAgree, KeepFresh
  <2>5. SweptAreFresh'
    <3>1. vector_' = vector_ /\ aged' = aged /\ ind + 1 \in DOMAIN vector_
          /\ vector_[ind + 1] \notin aged
      BY <1>7, <2>1 DEF KeepFresh, IInv, TypeOK
    <3>2. \A i \in 1 .. ind' : i \in 1 .. ind \/ i = ind + 1
      BY <2>1, <2>2
    <3> QED  BY <1>7, <3>1, <3>2 DEF IInv, SweptAreFresh, KeepFresh
  <2> QED  BY <2>3, <2>4, <2>5 DEF IInv
<1>8. ASSUME ClearOldReturns PROVE IInv'
  <2>1. TypeOK'
    BY <1>8 DEF IInv, TypeOK, ClearOldReturns
  <2>2. MapAndVectorAgree'
    BY <1>8 DEF IInv, MapAndVectorAgree, ClearOldReturns
  <2>3. SweptAreFresh'
    BY <1>8 DEF SweptAreFresh, ClearOldReturns
  <2> QED  BY <2>1, <2>2, <2>3 DEF IInv
<1>9. ASSUME UNCHANGED vars PROVE IInv'
  BY <1>9 DEF IInv, TypeOK, MapAndVectorAgree, SweptAreFresh, vars
<1> QED  BY <1>1, <1>2, <1>3, <1>4, <1>5, <1>6, <1>7, <1>8, <1>9 DEF Next, SweepStep

\* The invariant holds from the start: the container is empty.
LEMMA InitIInv == Init => IInv
BY BytesAssumption DEF Init, IInv, TypeOK, MapAndVectorAgree, SweptAreFresh, BytesAssumption

\* In every behaviour the map and the vector agree, and a sweep has left
\* nothing stale behind its counter (eigen_vector_map.cpp).
THEOREM AlwaysIInv == Spec => []IInv
BY InitIInv, NextKeepsIInv, PTL DEF Spec

\* The counters, lists and map of the container stay in their types.
THEOREM TypeCorrect == Spec => []TypeOK
BY AlwaysIInv, PTL DEF IInv

\* The map and the sorted vector hold the same modules, and "Vector and Map
\* mismatch" is never thrown, for any addresses and any calls.
THEOREM AlwaysAgree == Spec => []MapAndVectorAgree
BY AlwaysIInv, PTL DEF IInv

\* clear_old leaves no stale module behind the place it has come to.
THEOREM AlwaysSwept == Spec => []SweptAreFresh
BY AlwaysIInv, PTL DEF IInv
-----------------------------------------------------------------------------
(***************************************************************************)
(* What users rely on.                                                     *)
(***************************************************************************)

\* The vector is never longer than a byte can count: the addresses in it
\* differ, and none is the highest.
LEMMA VectorFits ==
  ASSUME TypeOK, MapAndVectorAgree
  PROVE  /\ Len(vector_) \in Nat /\ Len(vector_) < Bytes
         /\ Cardinality(Keys) = Len(vector_)
<1>1. vector_ \in Seq(Modules) /\ Len(vector_) \in Nat /\ DOMAIN vector_ = 1 .. Len(vector_)
  BY DEF TypeOK
<1>2. Bytes \in Nat \ {0}
  BY AddressType
<1> DEFINE f == [i \in 1 .. Len(vector_) |-> Address[vector_[i]]]
<1>3. \A i, j \in 1 .. Len(vector_) : Address[vector_[i]] = Address[vector_[j]] => i = j
  <2> SUFFICES ASSUME NEW i \in 1 .. Len(vector_), NEW j \in 1 .. Len(vector_), i # j
               PROVE  Address[vector_[i]] # Address[vector_[j]]
    OBVIOUS
  <2>1. i < j \/ j < i
    BY <1>1
  <2>2. Address[vector_[i]] \in Int /\ Address[vector_[j]] \in Int
    BY <1>1, AddressType
  <2> QED  BY <2>1, <2>2, <1>1 DEF MapAndVectorAgree
<1>4. f \in Bijection(1 .. Len(vector_), Keys)
  <2>1. f \in [1 .. Len(vector_) -> Keys] /\ DOMAIN f = 1 .. Len(vector_)
    BY <1>1 DEF Keys
  <2>2. \A i, j \in DOMAIN f : f[i] = f[j] => i = j
    BY <1>3
  <2>3. \A k \in Keys : \E i \in DOMAIN f : f[i] = k
    BY <1>1 DEF Keys
  <2> HIDE DEF f
  <2> QED  BY <2>1, <2>2, <2>3 DEF Bijection, Injection, IsInjective, Surjection
<1>5. IsFiniteSet(1 .. Len(vector_)) /\ Cardinality(1 .. Len(vector_)) = Len(vector_)
  BY <1>1, FS_Interval
<1>6. Cardinality(Keys) = Len(vector_)
  <2>1. ExistsBijection(1 .. Len(vector_), Keys)
    BY <1>4 DEF ExistsBijection
  <2> QED  BY <1>5, <2>1, FS_Bijection
<1>7. Keys \in SUBSET (0 .. Bytes - 2)
  BY <1>1, AddressType DEF Keys
<1>8. IsFiniteSet(0 .. Bytes - 2) /\ Cardinality(0 .. Bytes - 2) = Bytes - 1
  BY <1>2, FS_Interval
<1>9. Cardinality(Keys) <= Bytes - 1
  BY <1>7, <1>8, FS_Subset
<1> QED  BY <1>1, <1>2, <1>6, <1>9

\* A number that fits a byte is not cut by the cast.
LEMMA SmallRemainder ==
  ASSUME NEW n \in Nat, NEW b \in Nat \ {0}, n < b
  PROVE  n % b = n
OBVIOUS

\* Counting from 0 to size() meets every module once, and the look-ups by
\* index and by address give the same.
LEMMA AgreeingMeetsAll ==
  ASSUME TypeOK, MapAndVectorAgree
  PROVE  IndexMeetsAll
<1>1. vector_ \in Seq(Modules) /\ Len(vector_) \in Nat /\ DOMAIN vector_ = 1 .. Len(vector_)
  BY DEF TypeOK
<1>2. Len(vector_) < Bytes /\ Bytes \in Nat \ {0} /\ Cardinality(Keys) = Len(vector_)
  BY VectorFits, AddressType
<1>3. Size = Len(vector_)
  BY <1>1, <1>2, SmallRemainder DEF Size
<1>4. Keys = DOMAIN map_
  <2>1. \A k \in DOMAIN map_ : \E i \in DOMAIN vector_ : Address[vector_[i]] = k
    BY DEF MapAndVectorAgree
  <2>2. \A i \in DOMAIN vector_ : Address[vector_[i]] \in DOMAIN map_
    BY DEF MapAndVectorAgree
  <2> QED  BY <2>1, <2>2 DEF Keys
<1>5. ASSUME NEW k \in Keys
      PROVE  \E i \in 0 .. Size - 1 :
               GetSharedByInd(i) = GetShared(k) /\ Address[GetShared(k)] = k
  <2>1. PICK j \in 1 .. Len(vector_) : vector_[j] = map_[k] /\ Address[map_[k]] = k
    BY <1>1, <1>4 DEF MapAndVectorAgree
  <2>2. j - 1 \in 0 .. Size - 1 /\ j - 1 < Len(vector_) /\ (j - 1) + 1 = j
    BY <1>1, <1>3, <2>1
  <2>3. GetSharedByInd(j - 1) = vector_[j] /\ GetShared(k) = map_[k]
    BY <1>4, <2>2 DEF GetSharedByInd, GetShared
  <2> QED  BY <2>1, <2>2, <2>3
<1> QED  BY <1>2, <1>3, <1>4, <1>5 DEF IndexMeetsAll

\* num_modules, get_module_by_index and get_module always tell the same.
THEOREM AlwaysMeetsAll == Spec => []IndexMeetsAll
<1>1. IInv => IndexMeetsAll
  BY AgreeingMeetsAll DEF IInv
<1> QED  BY <1>1, AlwaysIInv, PTL
-----------------------------------------------------------------------------
(***************************************************************************)
(* The container implements the set of modules.                            *)
(***************************************************************************)

\* The empty container is the empty set.
LEMMA InitRefines == Init => Promise!Init
BY DEF Init, Promise!Init

\* Every step of the container is a step of the set, or none: erasing the
\* module at the counter is the removal of the lowest stale address, and
\* clear_old returns only when no stale module is left.
LEMMA NextRefines ==
  ASSUME IInv, [Next]_vars
  PROVE  [Promise!Next]_(Promise!vars)
<1> USE DEF Promise!vars
<1>1. ASSUME NEW m \in Modules, Insert(m) PROVE Promise!Insert(m)
  BY <1>1 DEF Insert, Promise!Insert
<1>2. ASSUME NEW m \in Modules, Hear(m) PROVE Promise!Hear(m)
  BY <1>2 DEF Hear, Promise!Hear
<1>3. ASSUME NEW k \in Addresses, RemoveKey(k) PROVE Promise!Remove(k)
  <2>1. pc' = "idle" /\ map_' = Without(k)
    BY <1>3, RemoveFinds
  <2> QED  BY <1>3, <2>1 DEF RemoveKey, Promise!Remove, Without
<1>4. ASSUME Clear PROVE Promise!Clear
  BY <1>4 DEF Clear, Promise!Clear
<1>5. ASSUME ClearOld PROVE Promise!BeginSweep
  BY <1>5 DEF ClearOld, Promise!BeginSweep
<1>6. ASSUME RemoveOld PROVE \E k \in Addresses : Promise!Expire(k)
  <2> DEFINE k == Address[vector_[ind + 1]]
  <2>1. /\ ind + 1 \in DOMAIN vector_
        /\ map_' = Without(k) /\ retval' = Append(retval, k)
        /\ pc' = "sweep" /\ aged' = aged
        /\ \A a \in DOMAIN map_ : map_[a] \in aged => k <= a
    BY <1>6, RemoveOldFinds
  <2>2. k \in DOMAIN map_ /\ map_[k] = vector_[ind + 1] /\ k \in Addresses
    BY <2>1, AddressType DEF IInv, MapAndVectorAgree, TypeOK
  <2>3. pc = "sweep" /\ vector_[ind + 1] \in aged
    BY <1>6 DEF RemoveOld
  <2> HIDE DEF k
  <2>4. Promise!Expire(k)
    BY <2>1, <2>2, <2>3 DEF Promise!Expire, Promise!Stale, Without
  <2> QED  BY <2>2, <2>4
<1>7. ASSUME KeepFresh PROVE UNCHANGED Promise!vars
  BY <1>7 DEF KeepFresh
<1>8. ASSUME ClearOldReturns PROVE Promise!EndSweep
  <2>1. vector_ \in Seq(Modules) /\ Len(vector_) \in Nat /\ DOMAIN vector_ = 1 .. Len(vector_)
        /\ ind \in Nat
    BY BytesAssumption DEF IInv, TypeOK, BytesAssumption
  <2>2. \A i \in DOMAIN vector_ : vector_[i] \notin aged
    BY <1>8, <2>1 DEF IInv, SweptAreFresh, ClearOldReturns
  <2>3. \A a \in DOMAIN map_ : map_[a] \notin aged
    BY <2>2 DEF IInv, MapAndVectorAgree
  <2> QED  BY <1>8, <2>3 DEF ClearOldReturns, Promise!EndSweep, Promise!Stale
<1>9. ASSUME UNCHANGED vars PROVE UNCHANGED Promise!vars
  BY <1>9 DEF vars
<1> QED  BY <1>1, <1>2, <1>3, <1>4, <1>5, <1>6, <1>7, <1>8, <1>9
         DEF Next, SweepStep, Promise!Next, Addresses

\* For any modules and addresses, EigenVectorMap implements EigenModuleSet:
\* at most one module for each address, and complete, ordered sweeps.
THEOREM Refinement == Spec => KeepsSetPromise
<1>1. Spec => []IInv
  BY AlwaysIInv
<1>2. IInv /\ [Next]_vars => [Promise!Next]_(Promise!vars)
  BY NextRefines
<1> QED  BY <1>1, <1>2, InitRefines, PTL DEF Spec, KeepsSetPromise, Promise!Spec
-----------------------------------------------------------------------------
(***************************************************************************)
(* The reader of the published list.                                       *)
(***************************************************************************)

\* No insertion is waiting to be noticed, and nothing has moved below the reader.
Clean == ~list_update /\ service = "run" /\ ~shifted

\* What the reader has passed, it has got.
PassedAreSeen ==
  reader = "read" /\ Clean
    => \A i \in DOMAIN vector_ : i \in 1 .. index => vector_[i] \in seen

RInv == IInv /\ ReaderTypeOK /\ PassedAreSeen /\ NoMissedAddition

\* The reader and the service use the container by its own steps.
LEMMA ReaderUsesContainer ==
  ASSUME ReaderNext
  PROVE  [Next]_vars
<1>1. ASSUME NEW m \in Modules, Publish(m) PROVE [Next]_vars
  BY <1>1 DEF Publish, Next
<1>2. ASSUME Other PROVE [Next]_vars
  BY <1>2 DEF Other, Next
<1>3. ASSUME RaiseFlag \/ ReadFlag \/ ClearFlag \/ ReadModule PROVE UNCHANGED vars
  BY <1>3 DEF RaiseFlag, ReadFlag, ClearFlag, ReadModule
<1> QED  BY <1>1, <1>2, <1>3 DEF ReaderNext

\* Whatever the service does to the list but insert, what the list holds it
\* held before; and unless a module below index p is gone, the modules below p
\* are where they were.
LEMMA OtherShrinks ==
  ASSUME IInv, Other, NEW p \in Nat,
         \A i \in DOMAIN vector_ : i \in 1 .. p => Address[vector_[i]] \in DOMAIN map_'
  PROVE  /\ \A i \in DOMAIN vector_' : \E j \in DOMAIN vector_ : vector_'[i] = vector_[j]
         /\ \A i \in DOMAIN vector_' :
              i \in 1 .. p => i \in DOMAIN vector_ /\ vector_'[i] = vector_[i]
<1> DEFINE Goal ==
      /\ \A i \in DOMAIN vector_' : \E j \in DOMAIN vector_ : vector_'[i] = vector_[j]
      /\ \A i \in DOMAIN vector_' :
           i \in 1 .. p => i \in DOMAIN vector_ /\ vector_'[i] = vector_[i]
<1>1. vector_ \in Seq(Modules) /\ Len(vector_) \in Nat /\ DOMAIN vector_ = 1 .. Len(vector_)
  BY DEF IInv, TypeOK
<1>2. ASSUME NEW q \in DOMAIN vector_, vector_' = RemoveAt(vector_, q),
             Address[vector_[q]] \notin DOMAIN map_'
      PROVE  Goal
  <2>1. q \in 1 .. Len(vector_) /\ ~ (q \in 1 .. p)
    BY <1>1, <1>2
  <2>2. /\ vector_' \in Seq(Modules)
        /\ Len(vector_') = Len(vector_) - 1
        /\ \A i \in 1 .. q - 1 : vector_'[i] = vector_[i]
        /\ \A i \in q .. Len(vector_) - 1 : vector_'[i] = vector_[i + 1]
    BY <1>1, <1>2, <2>1, RemoveAtElements
  <2>3. DOMAIN vector_' = 1 .. Len(vector_) - 1
    BY <2>2
  <2>4. ASSUME NEW i \in 1 .. Len(vector_) - 1
        PROVE  \E j \in DOMAIN vector_ : vector_'[i] = vector_[j]
    <3>1. CASE i \in 1 .. q - 1
      BY <1>1, <2>2, <3>1
    <3>2. CASE i \in q .. Len(vector_) - 1
      <4>1. i + 1 \in DOMAIN vector_
        BY <1>1, <3>2, <2>1
      <4> QED  BY <2>2, <3>2, <4>1
    <3> QED  BY <1>1, <2>1, <3>1, <3>2
  <2>5. ASSUME NEW i \in 1 .. Len(vector_) - 1, i \in 1 .. p
        PROVE  i \in DOMAIN vector_ /\ vector_'[i] = vector_[i]
    <3>1. i \in 1 .. q - 1 /\ i \in DOMAIN vector_
      BY <1>1, <2>1, <2>5
    <3> QED  BY <2>2, <3>1
  <2> QED  BY <2>3, <2>4, <2>5
<1>3. ASSUME NEW m \in Modules, Hear(m) PROVE Goal
  BY <1>3 DEF Hear
<1>4. ASSUME NEW k \in Addresses, RemoveKey(k) PROVE Goal
  <2>1. PICK q \in DOMAIN vector_ :
          map_' = Without(Address[vector_[q]]) /\ vector_' = RemoveAt(vector_, q)
    BY <1>4, RemoveFinds
  <2>2. Address[vector_[q]] \notin DOMAIN map_'
    BY <2>1 DEF Without
  <2> QED  BY <2>1, <2>2, <1>2
<1>5. ASSUME Clear PROVE Goal
  <2>1. DOMAIN vector_' = {}
    BY <1>5 DEF Clear
  <2> QED  BY <2>1
<1>6. ASSUME ClearOld \/ KeepFresh \/ ClearOldReturns PROVE Goal
  BY <1>6 DEF ClearOld, KeepFresh, ClearOldReturns
<1>7. ASSUME RemoveOld PROVE Goal
  <2>1. /\ ind + 1 \in DOMAIN vector_ /\ vector_' = RemoveAt(vector_, ind + 1)
        /\ map_' = Without(Address[vector_[ind + 1]])
    BY <1>7, RemoveOldFinds
  <2>2. Address[vector_[ind + 1]] \notin DOMAIN map_'
    BY <2>1 DEF Without
  <2> QED  BY <2>1, <2>2, <1>2
<1> HIDE DEF Goal
<1>8. Goal
  BY <1>3, <1>4, <1>5, <1>6, <1>7 DEF Other, SweepStep
<1> QED  BY <1>8 DEF Goal

\* The steps of the two threads keep what the reader knows.
LEMMA ReaderNextKeepsRInv ==
  ASSUME RInv, [ReaderNext]_allVars
  PROVE  RInv'
<1>1. CASE UNCHANGED allVars
  BY <1>1 DEF allVars, readerVars, vars, RInv, IInv, TypeOK, MapAndVectorAgree, SweptAreFresh,
     ReaderTypeOK, PassedAreSeen, NoMissedAddition, Clean, Published
<1>2. CASE ReaderNext
  <2>1. IInv'
    BY <1>2, ReaderUsesContainer, NextKeepsIInv DEF RInv
  <2> HIDE DEF IInv
  <2>2. ASSUME NEW m \in Modules, Publish(m)
        PROVE  ReaderTypeOK' /\ PassedAreSeen' /\ NoMissedAddition'
    <3>1. ReaderTypeOK' /\ service' = "flag"
      BY <2>2 DEF RInv, ReaderTypeOK, Publish
    <3> QED  BY <3>1 DEF PassedAreSeen, NoMissedAddition, Clean
  <2>3. ASSUME RaiseFlag PROVE ReaderTypeOK' /\ PassedAreSeen' /\ NoMissedAddition'
    <3>1. ReaderTypeOK' /\ list_update'
      BY <2>3 DEF RInv, ReaderTypeOK, RaiseFlag
    <3> QED  BY <3>1 DEF PassedAreSeen, NoMissedAddition, Clean
  <2>4. ASSUME ReadFlag PROVE ReaderTypeOK' /\ PassedAreSeen' /\ NoMissedAddition'
    <3>1. ReaderTypeOK' /\ reader' = "clear"
      BY <2>4 DEF RInv, ReaderTypeOK, ReadFlag
    <3> QED  BY <3>1 DEF PassedAreSeen, NoMissedAddition
  <2>5. ASSUME ClearFlag PROVE ReaderTypeOK' /\ PassedAreSeen' /\ NoMissedAddition'
    <3>1. ReaderTypeOK' /\ reader' = "read" /\ index' = 0
      BY <2>5 DEF RInv, ReaderTypeOK, ClearFlag
    <3> QED  BY <3>1 DEF PassedAreSeen, NoMissedAddition
  <2>6. ASSUME ReadModule PROVE ReaderTypeOK' /\ PassedAreSeen' /\ NoMissedAddition'
    <3>1. vector_ \in Seq(Modules) /\ Len(vector_) \in Nat /\ DOMAIN vector_ = 1 .. Len(vector_)
          /\ index \in Nat /\ vector_' = vector_
      BY <2>6 DEF RInv, IInv, TypeOK, ReaderTypeOK, ReadModule, vars
    <3>2. CASE index < Len(vector_)
      <4>1. GetSharedByInd(index) = vector_[index + 1] /\ index + 1 \in DOMAIN vector_
        BY <3>1, <3>2 DEF GetSharedByInd
      <4>2. vector_[index + 1] \in Modules /\ vector_[index + 1] # NoModule
        BY <3>1, <4>1, NoModuleAssumption DEF NoModuleAssumption
      <4>3. /\ reader' = "read" /\ index' = index + 1
            /\ seen' = seen \cup {vector_[index + 1]}
            /\ Clean' = Clean
        BY <2>6, <4>1, <4>2 DEF ReadModule, Clean
      <4>4. \A i \in DOMAIN vector_ : i \in 1 .. index + 1 => i \in 1 .. index \/ i = index + 1
        BY <3>1
      <4>5. PassedAreSeen'
        BY <2>6, <3>1, <4>3, <4>4 DEF RInv, PassedAreSeen, ReadModule
      <4>6. ReaderTypeOK'
        BY <2>6, <3>1, <4>2, <4>3 DEF RInv, ReaderTypeOK, ReadModule
      <4> QED  BY <4>3, <4>5, <4>6 DEF NoMissedAddition
    <3>3. CASE ~ (index < Len(vector_))
      <4>1. /\ reader' = "idle" /\ index' = 0 /\ seen' = seen
            /\ list_update' = list_update /\ service' = service /\ shifted' = shifted
        BY <2>6, <3>3 DEF ReadModule, GetSharedByInd
      <4>2. \A i \in DOMAIN vector_ : i \in 1 .. index
        BY <3>1, <3>3
      <4>3. NoMissedAddition'
        BY <2>6, <3>1, <4>1, <4>2
           DEF RInv, PassedAreSeen, NoMissedAddition, Clean, Published, ReadModule
      <4>4. ReaderTypeOK'
        BY <4>1 DEF RInv, ReaderTypeOK
      <4> QED  BY <4>1, <4>3, <4>4 DEF PassedAreSeen
    <3> QED  BY <3>2, <3>3
  <2>7. ASSUME Other PROVE ReaderTypeOK' /\ PassedAreSeen' /\ NoMissedAddition'
    <3>1. /\ reader' = reader /\ index' = index /\ seen' = seen
          /\ list_update' = list_update /\ service' = service /\ index \in Nat
      BY <2>7 DEF Other, RInv, ReaderTypeOK
    <3>2. ReaderTypeOK'
      BY <2>7 DEF Other, RInv, ReaderTypeOK
    <3>3. /\ shifted => shifted'
          /\ \A i \in DOMAIN vector_ :
               Passed(i) /\ Address[vector_[i]] \notin DOMAIN map_' => shifted'
      BY <2>7 DEF Other
    <3>4. PassedAreSeen'
      <4> SUFFICES ASSUME reader' = "read" /\ Clean'
                   PROVE  \A i \in DOMAIN vector_' : i \in 1 .. index => vector_'[i] \in seen
        BY <3>1 DEF PassedAreSeen
      <4>1. reader = "read" /\ Clean /\ ~shifted'
        BY <3>1, <3>3 DEF Clean
      <4>2. \A i \in DOMAIN vector_ : i \in 1 .. index => Address[vector_[i]] \in DOMAIN map_'
        BY <3>3, <4>1 DEF Passed
      <4>3. \A i \in DOMAIN vector_' :
              i \in 1 .. index => i \in DOMAIN vector_ /\ vector_'[i] = vector_[i]
        BY <2>7, <3>1, <4>2, OtherShrinks DEF RInv
      <4> QED  BY <4>1, <4>3 DEF RInv, PassedAreSeen
    <3>5. NoMissedAddition'
      <4>1. \A i \in DOMAIN vector_' : \E j \in DOMAIN vector_ : vector_'[i] = vector_[j]
        <5>1. 0 \in Nat /\ \A i \in DOMAIN vector_ :
                i \in 1 .. 0 => Address[vector_[i]] \in DOMAIN map_'
          OBVIOUS
        <5> QED  BY <2>7, <5>1, OtherShrinks DEF RInv
      <4> QED  BY <3>1, <3>3, <4>1 DEF RInv, NoMissedAddition, Published
    <3> QED  BY <3>2, <3>4, <3>5
  <2> QED  BY <1>2, <2>1, <2>2, <2>3, <2>4, <2>5, <2>6, <2>7 DEF ReaderNext, RInv
<1> QED  BY <1>1, <1>2

\* At the start nothing is published and the flag is up.
LEMMA InitRInv == ReaderInit => RInv
<1> SUFFICES ASSUME ReaderInit PROVE RInv
  OBVIOUS
<1>1. IInv
  BY InitIInv DEF ReaderInit
<1>2. ReaderTypeOK
  BY DEF ReaderInit, ReaderTypeOK
<1>3. PassedAreSeen /\ NoMissedAddition
  BY DEF ReaderInit, PassedAreSeen, NoMissedAddition, Clean
<1> QED  BY <1>1, <1>2, <1>3 DEF RInv

\* With the service and the reader about it, the container is used by its own
\* operations: what was proved of it holds.
THEOREM ReaderKeepsContainer == ReaderSpec => Spec
<1>1. ReaderInit => Init
  BY DEF ReaderInit
<1>2. [ReaderNext]_allVars => [Next]_vars
  BY ReaderUsesContainer DEF allVars
<1> QED  BY <1>1, <1>2, PTL DEF ReaderSpec, Spec

\* When list_updated() would return false the application has got every module
\* of the list, unless one that it had passed was removed while it read
\* (eigen_comms.cpp:402-404, 513-515, 534-541).
THEOREM NoneIsMissed == ReaderSpec => []NoMissedAddition
<1>1. RInv => NoMissedAddition
  BY DEF RInv
<1> QED  BY <1>1, InitRInv, ReaderNextKeepsRInv, PTL DEF ReaderSpec
=============================================================================
