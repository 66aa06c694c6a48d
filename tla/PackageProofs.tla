---------------------------- MODULE PackageProofs ----------------------------
(***************************************************************************)
(* Proofs about packages, for any number of them, any namespaces, classes  *)
(* and objects, and any bound on loading.                                  *)
(***************************************************************************)
EXTENDS Packages, ListFacts

PackageSet ==
  [ns : Namespaces, classes : [ClassKeys -> Modifiers \cup {Absent}],
   objects : UNION {[os -> SUBSET FieldNames] : os \in SUBSET ObjectNames}]

PackageTypeOK ==
  /\ packages \in Seq(PackageSet)
  /\ defaultNamespace \in Namespaces
  /\ loading \in {"packages", "done", "failed"}

(* The local package is the last and has the default namespace. *)
LocalIsLast ==
  loading = "done" => Len(packages) > 0 /\ packages[Len(packages)].ns = defaultNamespace

PackageInv == PackageTypeOK /\ LocalIsLast


LEMMA Positions ==
  ASSUME PackageTypeOK
  PROVE  /\ Len(packages) \in Nat /\ DOMAIN packages = 1..Len(packages)
         /\ \A i \in DOMAIN packages : packages[i] \in PackageSet
BY DEF PackageTypeOK

LEMMA Position ==
  ASSUME PackageTypeOK, NEW i \in DOMAIN packages
  PROVE  i \in Nat /\ 1 <= i /\ i <= Len(packages) /\ Len(packages) \in Nat
<1>1. i \in 1..Len(packages) /\ Len(packages) \in Nat
  BY Positions
<1>2. QED
  BY <1>1

(* A package that is added is one of the set. *)
LEMMA PackageType ==
  ASSUME NEW ns \in Namespaces, NEW p \in Content PROVE Package(ns, p) \in PackageSet
BY DEF Package, PackageSet, Content

LEMMA AddedLast ==
  ASSUME PackageTypeOK, NEW p \in PackageSet
  PROVE  /\ Append(packages, p) \in Seq(PackageSet)
         /\ Len(Append(packages, p)) = Len(packages) + 1
         /\ Len(packages) + 1 > 0
         /\ Append(packages, p)[Len(packages) + 1] = p
BY DEF PackageTypeOK

LEMMA InitPackageInv == PackageInit => PackageInv
<1>1. <<>> \in Seq(PackageSet)
  BY EmptySeq
<1>2. QED
  BY <1>1 DEF PackageInit, PackageInv, PackageTypeOK, LocalIsLast

LEMMA StepPackageInv == PackageInv /\ [PackageNext]_packageVars => PackageInv'
<1> SUFFICES ASSUME PackageInv, [PackageNext]_packageVars PROVE PackageInv'
  OBVIOUS
<1>0. PackageTypeOK
  BY DEF PackageInv
<1>1. ASSUME NEW p \in Contents, NEW own \in Namespaces, NEW ns \in Namespaces, LoadMock(p, own, ns)
      PROVE  PackageInv'
  <2> DEFINE name == IF ns # "" THEN ns ELSE own
  <2>1. name \in Namespaces /\ p \in Content
    BY PackageAssumption
  <2>2. Package(name, p) \in PackageSet
    BY <2>1, PackageType
  <2>3. packages' = Append(packages, Package(name, p)) /\ loading' = "packages"
        /\ defaultNamespace' = defaultNamespace
    BY <1>1 DEF LoadMock
  <2> HIDE DEF name
  <2>4. packages' \in Seq(PackageSet)
    BY <1>0, <2>2, <2>3, AddedLast
  <2>5. QED
    BY <1>0, <2>3, <2>4 DEF PackageInv, PackageTypeOK, LocalIsLast
<1>2. ASSUME NEW p \in Contents, LoadLocal(p) PROVE PackageInv'
  <2>1. defaultNamespace \in Namespaces /\ p \in Content
    BY <1>0, PackageAssumption DEF PackageTypeOK
  <2> DEFINE local == Package(defaultNamespace, p)
  <2>2. local \in PackageSet /\ local.ns = defaultNamespace
    BY <2>1, PackageType DEF Package
  <2>3. packages' = Append(packages, local) /\ loading' = "done"
        /\ defaultNamespace' = defaultNamespace
    BY <1>2 DEF LoadLocal
  <2> HIDE DEF local
  <2>4. packages' \in Seq(PackageSet) /\ Len(packages') > 0 /\ packages'[Len(packages')] = local
    BY <1>0, <2>2, <2>3, AddedLast
  <2>5. QED
    BY <1>0, <2>2, <2>3, <2>4 DEF PackageInv, PackageTypeOK, LocalIsLast
<1>3. CASE LoadFails
  BY <1>0, <1>3 DEF LoadFails, PackageInv, PackageTypeOK, LocalIsLast
<1>4. CASE UNCHANGED packageVars
  BY <1>4 DEF packageVars, PackageInv, PackageTypeOK, LocalIsLast
<1>5. QED
  BY <1>1, <1>2, <1>3, <1>4 DEF PackageNext

LEMMA PackageInvariance == PackageSpec => []PackageInv
BY InitPackageInv, StepPackageInv, PTL DEF PackageSpec

(***************************************************************************)
(* What each lookup of the resolver gives.                                 *)
(***************************************************************************)

(* Of the packages of a namespace the last. *)
LEMMA NamespaceFacts ==
  ASSUME PackageTypeOK, NEW ns
  PROVE  /\ OfNamespace(ns) \subseteq DOMAIN packages
         /\ ByNamespace(ns) \subseteq OfNamespace(ns)
         /\ \A i \in ByNamespace(ns) : \A j \in OfNamespace(ns) : j <= i
         /\ OfNamespace(ns) # {} => ByNamespace(ns) = {Max(OfNamespace(ns))}
<1>1. OfNamespace(ns) \subseteq DOMAIN packages
  BY DEF OfNamespace
<1>2. OfNamespace(ns) \subseteq 0..Len(packages) /\ Len(packages) \in Nat
  BY <1>1, Positions
<1>3. CASE OfNamespace(ns) = {}
  BY <1>1, <1>3 DEF ByNamespace
<1>4. CASE OfNamespace(ns) # {}
  <2>1. Max(OfNamespace(ns)) \in OfNamespace(ns)
        /\ \A y \in OfNamespace(ns) : y <= Max(OfNamespace(ns))
    BY <1>2, <1>4, Maximum
  <2>2. QED
    BY <1>1, <1>4, <2>1 DEF ByNamespace
<1>5. QED
  BY <1>3, <1>4

(* Any package, the first that has the class for the caller. *)
LEMMA AnyFacts ==
  ASSUME PackageTypeOK, NEW c, NEW caller, OfAny(c, caller) # {}
  PROVE  /\ Min(OfAny(c, caller)) \in OfAny(c, caller)
         /\ \A j \in OfAny(c, caller) : Min(OfAny(c, caller)) <= j
<1>1. OfAny(c, caller) \subseteq 0..Len(packages) /\ Len(packages) \in Nat
  BY Positions DEF OfAny
<1>2. QED
  BY <1>1, Minimum

(* What is found has the class, and was found in one of four ways. *)
LEMMA FoundFacts ==
  ASSUME PackageTypeOK, NEW ns, NEW c, NEW caller, NEW i \in ResolveClass(ns, c, caller)
  PROVE  \/ i \in OfPackage(ns, c, caller) /\ ns # ""
         \/ i \in OfCaller(c, caller) /\ ns = ""
         \/ i \in OfDefault(c, caller) /\ ns = ""
         \/ i \in OfAny(c, caller) /\ ns = ""
<1>1. CASE ns # ""
  BY <1>1 DEF ResolveClass
<1>2. CASE ns = "" /\ (OfCaller(c, caller) # {} \/ OfDefault(c, caller) # {})
  BY <1>2 DEF ResolveClass
<1>3. CASE ns = "" /\ OfCaller(c, caller) = {} /\ OfDefault(c, caller) = {}
  <2>1. OfAny(c, caller) # {} /\ i = Min(OfAny(c, caller))
    BY <1>3 DEF ResolveClass
  <2>2. QED
    BY <1>3, <2>1, AnyFacts
<1>4. QED
  BY <1>1, <1>2, <1>3

(* README.md:70: a class of another namespace is found only where its      *)
(* package shares it, or where it is one of the default namespace.         *)
LEMMA FoundIsAccessible ==
  ASSUME PackageTypeOK, NEW ns, NEW c, NEW caller, NEW i \in ResolveClass(ns, c, caller)
  PROVE  \/ Same(packages[i].ns, caller) \/ Published(i, c)
         \/ ns = "" /\ Same(packages[i].ns, defaultNamespace)
<1>1. CASE i \in OfPackage(ns, c, caller) \cup OfAny(c, caller)
  BY <1>1 DEF OfPackage, OfAny, IsAccessibleFrom, Same, Published
<1>2. CASE i \in OfCaller(c, caller)
  BY <1>2, NamespaceFacts DEF OfCaller, OfNamespace, Same
<1>3. CASE i \in OfDefault(c, caller) /\ ns = ""
  BY <1>3, NamespaceFacts DEF OfDefault, OfNamespace, Same
<1>4. QED
  BY <1>1, <1>2, <1>3, FoundFacts

(* Whatever packages a project loads, in whatever order, no name finds a   *)
(* class that is neither of the code's namespace nor shared, but a bare    *)
(* one of the default namespace.                                           *)
THEOREM NothingElseIsFound == PackageSpec => []OnlyAccessibleClasses
<1>1. PackageInv => OnlyAccessibleClasses
  BY FoundIsAccessible DEF PackageInv, OnlyAccessibleClasses
<1>2. QED
  BY <1>1, PackageInvariance, PTL

(***************************************************************************)
(* Own classes.                                                            *)
(***************************************************************************)

(* The last package of a namespace is the one asked about it. *)
LEMMA LastOfItsNamespace ==
  ASSUME PackageTypeOK, NEW i \in DOMAIN packages, packages[i].ns # "",
         \A j \in i + 1 .. Len(packages) : ~Same(packages[j].ns, packages[i].ns)
  PROVE  ByNamespace(packages[i].ns) = {i}
<1> DEFINE ns == packages[i].ns
<1>1. i \in OfNamespace(ns)
  BY DEF OfNamespace
<1>2. ASSUME NEW j \in OfNamespace(ns) PROVE j <= i
  <2>1. j \in DOMAIN packages /\ Same(packages[j].ns, ns)
    BY DEF OfNamespace, Same
  <2>2. j \in Nat /\ i \in Nat /\ j <= Len(packages) /\ Len(packages) \in Nat
    BY <2>1, Position
  <2>3. j \notin i + 1 .. Len(packages)
    <3>1. Same(packages[j].ns, packages[i].ns)
      BY <2>1
    <3>2. QED
      BY <3>1 DEF Same
  <2>4. QED
    BY ONLY <2>2, <2>3
<1>3. PICK m : ByNamespace(ns) = {m} /\ m \in OfNamespace(ns) /\ i <= m
  BY <1>1, NamespaceFacts
<1>4. m <= i /\ m \in Nat /\ i \in Nat
  BY <1>2, <1>3, NamespaceFacts, Position
<1>5. m = i
  BY ONLY <1>3, <1>4
<1>6. QED
  BY <1>3, <1>5

(* Code of no namespace finds nothing as code of its own. *)
LEMMA NoNamespace ==
  ASSUME PackageTypeOK, NEW c PROVE OfCaller(c, "") = {}
<1>1. \A i \in DOMAIN packages : packages[i].ns \in Namespaces
  BY Positions DEF PackageSet
<1>2. OfNamespace("") = {}
  BY <1>1, PackageAssumption DEF OfNamespace
<1>3. QED
  BY <1>2 DEF ByNamespace, OfCaller

LEMMA OwnWithNamespace ==
  ASSUME PackageTypeOK, NEW i \in DOMAIN packages, NEW c, Has(i, c), packages[i].ns # "",
         \A j \in i + 1 .. Len(packages) : ~Same(packages[j].ns, packages[i].ns)
  PROVE  ResolveClass("", c, packages[i].ns) = {i}
<1>1. OfCaller(c, packages[i].ns) = {i}
  BY LastOfItsNamespace DEF OfCaller
<1>2. QED
  BY <1>1 DEF ResolveClass

LEMMA SamePosition ==
  ASSUME NEW m \in Nat, NEW i \in Nat, m <= i, i <= m PROVE m = i
OBVIOUS

LEMMA Between ==
  ASSUME NEW m \in Nat, NEW i \in Nat, NEW j \in 1 .. i - 1, m <= j PROVE m # i
OBVIOUS

LEMMA Above ==
  ASSUME NEW n \in Nat, NEW i \in 1..n, NEW j \in 1 .. i - 1 PROVE j \in 1..n
OBVIOUS

LEMMA OwnWithoutNamespace ==
  ASSUME PackageTypeOK, NEW i \in DOMAIN packages, NEW c, Has(i, c), packages[i].ns = ""
  PROVE  (ResolveClass("", c, "") = {i}) <=>
           {j \in 1 .. i - 1 : Has(j, c) /\ (Published(j, c) \/ packages[j].ns = "")}
             \cup OfDefault(c, "") = {}
<1> DEFINE earlier == {j \in 1 .. i - 1 : Has(j, c) /\ (Published(j, c) \/ packages[j].ns = "")}
<1>1. OfCaller(c, "") = {}
  BY NoNamespace
<1>2. i \in 1..Len(packages) /\ Len(packages) \in Nat /\ DOMAIN packages = 1..Len(packages)
  BY Positions
<1>3. OfAny(c, "") = {j \in DOMAIN packages : Has(j, c) /\ (Published(j, c) \/ packages[j].ns = "")}
  BY DEF OfAny, IsAccessibleFrom, Published
<1>4. CASE OfDefault(c, "") # {}
  <2>1. ResolveClass("", c, "") = OfDefault(c, "")
    BY <1>1, <1>4 DEF ResolveClass
  <2>2. i \notin OfDefault(c, "")
    BY NamespaceFacts DEF OfDefault, OfNamespace
  <2>3. QED
    BY <1>4, <2>1, <2>2
<1>5. CASE OfDefault(c, "") = {}
  <2> DEFINE first == Min(OfAny(c, ""))
  <2>1. i \in OfAny(c, "")
    BY <1>3
  <2>2. ResolveClass("", c, "") = {first}
    BY <1>1, <1>5, <2>1 DEF ResolveClass
  <2>3. first \in OfAny(c, "") /\ \A j \in OfAny(c, "") : first <= j
    BY <2>1, AnyFacts
  <2> HIDE DEF first
  <2>4. first <= i /\ first \in Nat /\ i \in Nat /\ 1 <= first
    <3>1. first \in DOMAIN packages
      BY <1>3, <2>3
    <3>2. first <= i
      BY <2>1, <2>3
    <3>3. QED
      BY <3>1, <3>2, Position
  <2>5. ASSUME first # i PROVE first \in earlier
    <3>1. first \in 1 .. i - 1
      BY ONLY <2>4, <2>5
    <3>2. QED
      BY <1>3, <2>3, <3>1 DEF Has, Published
  <2>6. ASSUME NEW j \in earlier PROVE first # i
    <3>1. j \in 1 .. i - 1 /\ Has(j, c) /\ (Published(j, c) \/ packages[j].ns = "")
      OBVIOUS
    <3>2. j \in DOMAIN packages
      BY <1>2, <3>1, Above
    <3>3. first <= j
      BY <1>3, <2>3, <3>1, <3>2
    <3>4. QED
      BY <2>4, <3>1, <3>3, Between
  <2> HIDE DEF earlier
  <2>7. ({first} = {i}) <=> earlier = {}
    BY <2>5, <2>6
  <2>8. QED
    BY <1>5, <2>2, <2>7 DEF earlier
<1>6. QED
  BY <1>4, <1>5

(* A bare name gives code the class its own package has, and where a class *)
(* of another package comes first it is one of those OwnClassesFirst says. *)
THEOREM OwnClassesComeFirst == PackageSpec => []OwnClassesFirst
<1>1. ASSUME PackageTypeOK PROVE OwnClassesFirst
  <2> SUFFICES ASSUME NEW i \in DOMAIN packages, NEW c \in ClassKeys, Has(i, c),
                      packages[i].ns # "" => \A j \in i + 1 .. Local : ~Same(packages[j].ns, packages[i].ns)
               PROVE  (ResolveClass("", c, packages[i].ns) = {i}) <=>
                        (packages[i].ns # "" \/
                         {j \in 1 .. i - 1 : Has(j, c) /\ (Published(j, c) \/ packages[j].ns = packages[i].ns)}
                           \cup OfDefault(c, packages[i].ns) = {})
    BY DEF OwnClassesFirst
  <2>1. CASE packages[i].ns # ""
    BY <1>1, <2>1, OwnWithNamespace DEF Local
  <2>2. CASE packages[i].ns = ""
    <3>1. (ResolveClass("", c, "") = {i}) <=>
           {j \in 1 .. i - 1 : Has(j, c) /\ (Published(j, c) \/ packages[j].ns = "")}
             \cup OfDefault(c, "") = {}
      BY <1>1, <2>2, OwnWithoutNamespace
    <3>2. QED
      BY <2>2, <3>1
  <2>3. QED
    BY <2>1, <2>2
<1>2. PackageInv => OwnClassesFirst
  BY <1>1 DEF PackageInv
<1>3. QED
  BY <1>2, PackageInvariance, PTL

(***************************************************************************)
(* What is merged.                                                         *)
(***************************************************************************)

(* The positions the entry of a name in the merged registry is taken from. *)
Naming(ns, c) == {i \in (IF ns = "" THEN DOMAIN packages ELSE OfNamespace(ns)) : Has(i, c)}

LEMMA RegistryFacts ==
  ASSUME PackageTypeOK, NEW ns, NEW c, Naming(ns, c) # {}
  PROVE  /\ MergedRegistry(ns, c) = {Max(Naming(ns, c))}
         /\ Max(Naming(ns, c)) \in Naming(ns, c)
         /\ \A j \in Naming(ns, c) : j <= Max(Naming(ns, c))
<1>1. Naming(ns, c) \subseteq DOMAIN packages
  BY NamespaceFacts DEF Naming
<1>2. Naming(ns, c) \subseteq 0..Len(packages) /\ Len(packages) \in Nat
  BY <1>1, Positions
<1>3. Max(Naming(ns, c)) \in Naming(ns, c) /\ \A j \in Naming(ns, c) : j <= Max(Naming(ns, c))
  BY <1>2, Maximum
<1>4. MergedRegistry(ns, c) = {Max(Naming(ns, c))}
  BY DEF MergedRegistry, LastWith, Naming
<1>5. QED
  BY <1>3, <1>4

(* The resolver never gives more than one package. *)
LEMMA FoundIsOne ==
  ASSUME PackageTypeOK, NEW ns, NEW c, NEW caller, NEW i \in ResolveClass(ns, c, caller)
  PROVE  /\ i \in DOMAIN packages /\ Has(i, c)
         /\ ns # "" => i \in OfNamespace(ns)
         /\ ResolveClass(ns, c, caller) = {i}
<1>1. \A name : \A j, k \in ByNamespace(name) : j = k
  BY DEF ByNamespace
<1>2. i \in DOMAIN packages /\ Has(i, c) /\ (ns # "" => i \in OfNamespace(ns))
  <2>1. \A name : ByNamespace(name) \subseteq OfNamespace(name) /\ OfNamespace(name) \subseteq DOMAIN packages
    BY NamespaceFacts
  <2>2. QED
    BY <2>1, FoundFacts DEF OfPackage, OfCaller, OfDefault, OfAny
<1>3. ASSUME NEW j \in ResolveClass(ns, c, caller) PROVE j = i
  <2>1. CASE ns # ""
    BY <1>1, <2>1 DEF ResolveClass, OfPackage
  <2>2. CASE ns = "" /\ OfCaller(c, caller) # {}
    BY <1>1, <2>2 DEF ResolveClass, OfCaller
  <2>3. CASE ns = "" /\ OfCaller(c, caller) = {} /\ OfDefault(c, caller) # {}
    BY <1>1, <2>3 DEF ResolveClass, OfDefault
  <2>4. CASE ns = "" /\ OfCaller(c, caller) = {} /\ OfDefault(c, caller) = {}
    BY <2>4 DEF ResolveClass
  <2>5. QED
    BY <2>1, <2>2, <2>3, <2>4
<1>4. QED
  BY <1>2, <1>3

(* A set of one element has no two. *)
LEMMA TwoElements ==
  ASSUME NEW n \in Nat, NEW A, A \subseteq 0..n, NEW x \in A, NEW y \in A, x # y
  PROVE  Cardinality(A) > 1
<1>1. IsFiniteSet(A)
  <2>1. 0 \in Int /\ n \in Int
    OBVIOUS
  <2>2. IsFiniteSet(0..n)
    BY <2>1, FS_Interval
  <2>3. QED
    BY <2>2, FS_Subset
<1>2. {x, y} \subseteq A /\ IsFiniteSet({x, y}) /\ Cardinality({x, y}) = 2
  <2>1. IsFiniteSet({x}) /\ Cardinality({x}) = 1
    BY FS_Singleton
  <2>2. {x, y} = {x} \cup {y}
    OBVIOUS
  <2>3. IsFiniteSet({x} \cup {y}) /\ Cardinality({x} \cup {y}) = 2
    BY <2>1, FS_AddElement
  <2>4. QED
    BY <2>2, <2>3
<1>3. Cardinality({x, y}) <= Cardinality(A) /\ Cardinality(A) \in Nat
  BY <1>1, <1>2, FS_Subset, FS_CardinalityType
<1>4. QED
  BY <1>2, <1>3

(* A package that is the last to name a class is the one both give. *)
LEMMA LocalIsGiven ==
  ASSUME PackageInv, loading = "done", NEW ns, NEW c,
         ResolveClass(ns, c, defaultNamespace) # {}, Local \in Naming(ns, c),
         ns # "" \/ defaultNamespace # ""
  PROVE  ResolveClass(ns, c, defaultNamespace) = MergedRegistry(ns, c)
<1>0. PackageTypeOK /\ LocalIsLast
  BY DEF PackageInv
<1>1. Local \in Nat /\ \A j \in DOMAIN packages : j \in Nat /\ j <= Local
  BY <1>0, Position, Positions DEF Local
<1>2. Naming(ns, c) \subseteq DOMAIN packages
  BY <1>0, NamespaceFacts DEF Naming
<1>3. Max(Naming(ns, c)) = Local
  <2> DEFINE last == Max(Naming(ns, c))
  <2>1. last \in Naming(ns, c) /\ Local <= last
    BY <1>0, RegistryFacts
  <2> HIDE DEF last
  <2>2. last \in Nat /\ last <= Local
    BY <1>1, <1>2, <2>1
  <2>3. last = Local
    BY <1>1, <2>1, <2>2, SamePosition
  <2>4. QED
    BY <2>3 DEF last
<1>4. MergedRegistry(ns, c) = {Local}
  BY <1>0, <1>3, RegistryFacts
<1>5. \A name : Local \in OfNamespace(name) => ByNamespace(name) = {Local}
  <2> SUFFICES ASSUME NEW name, Local \in OfNamespace(name) PROVE ByNamespace(name) = {Local}
    OBVIOUS
  <2>1. PICK m : ByNamespace(name) = {m} /\ m \in OfNamespace(name) /\ Local <= m
    BY <1>0, NamespaceFacts
  <2>2. m \in Nat /\ m <= Local
    BY <1>0, <1>1, <2>1, NamespaceFacts
  <2>3. m = Local
    BY <1>1, <2>1, <2>2, SamePosition
  <2>4. QED
    BY <2>1, <2>3
<1>6. CASE ns # ""
  <2>1. ByNamespace(ns) = {Local}
    BY <1>5, <1>6 DEF Naming
  <2>2. ResolveClass(ns, c, defaultNamespace) \subseteq {Local}
    BY <1>6, <2>1 DEF ResolveClass, OfPackage
  <2>3. QED
    BY <1>4, <2>2
<1>7. CASE ns = ""
  <2>1. Local \in DOMAIN packages /\ Has(Local, c)
    BY <1>7 DEF Naming
  <2>2. Local \in OfNamespace(defaultNamespace)
    BY <1>0, <1>7, <2>1 DEF LocalIsLast, Local, OfNamespace
  <2>3. OfCaller(c, defaultNamespace) = {Local}
    BY <1>5, <2>1, <2>2 DEF OfCaller
  <2>4. QED
    BY <1>4, <1>7, <2>3 DEF ResolveClass
<1>8. QED
  BY <1>6, <1>7

(* The registry the interpreter runs with and the resolver give the local  *)
(* code the same class, but for the two reasons the property names.        *)
THEOREM RegistryAndResolverAgree == PackageSpec => []RegistryAgreesWithResolver
<1>1. ASSUME PackageInv PROVE RegistryAgreesWithResolver
  <2>0. PackageTypeOK
    BY <1>1 DEF PackageInv
  <2> SUFFICES ASSUME loading = "done", NEW ns \in Namespaces, NEW c \in ClassKeys,
                      ResolveClass(ns, c, defaultNamespace) # {},
                      MergedRegistry(ns, c) # ResolveClass(ns, c, defaultNamespace)
               PROVE  /\ Cardinality(Naming(ns, c)) > 1
                      /\ Local \in Naming(ns, c) => ns = "" /\ defaultNamespace = ""
    BY DEF RegistryAgreesWithResolver, Naming
  <2>1. PICK i : i \in ResolveClass(ns, c, defaultNamespace)
    OBVIOUS
  <2>2. i \in Naming(ns, c) /\ ResolveClass(ns, c, defaultNamespace) = {i}
    BY <2>0, <2>1, FoundIsOne DEF Naming
  <2>3. Max(Naming(ns, c)) \in Naming(ns, c) /\ Max(Naming(ns, c)) # i
    BY <2>0, <2>2, RegistryFacts
  <2>4. Naming(ns, c) \subseteq 0..Len(packages) /\ Len(packages) \in Nat
    <3>1. Naming(ns, c) \subseteq DOMAIN packages
      BY <2>0, NamespaceFacts DEF Naming
    <3>2. QED
      BY <2>0, <3>1, Positions
  <2>5. Cardinality(Naming(ns, c)) > 1
    BY <2>2, <2>3, <2>4, TwoElements
  <2>6. Local \in Naming(ns, c) => ns = "" /\ defaultNamespace = ""
    BY <1>1, LocalIsGiven
  <2>7. QED
    BY <2>5, <2>6
<1>2. QED
  BY <1>1, PackageInvariance, PTL

(* Of a field the definition of the last package that gives it.            *)
LEMMA GivingFacts ==
  ASSUME PackageTypeOK, NEW o, NEW f, NEW i \in Giving(o, f)
  PROVE  /\ Max(Giving(o, f)) \in DOMAIN packages
         /\ i = Len(packages) => Max(Giving(o, f)) = i
<1>1. Giving(o, f) \subseteq DOMAIN packages
  BY DEF Giving
<1>2. Giving(o, f) \subseteq 0..Len(packages) /\ Len(packages) \in Nat
  BY <1>1, Positions
<1> DEFINE last == Max(Giving(o, f))
<1>3. last \in Giving(o, f) /\ i <= last
  BY <1>2, Maximum
<1> HIDE DEF last
<1>4. last \in Nat /\ last <= Len(packages)
  BY <1>1, <1>3, Position
<1>5. last \in DOMAIN packages /\ (i = Len(packages) => last = i)
  BY <1>1, <1>2, <1>3, <1>4
<1>6. QED
  BY <1>5 DEF last

(* No field a package gives an object is lost when the packages are        *)
(* merged, and the local package has the last word on it, if no two        *)
(* packages spell the object's name differently.                           *)
THEOREM FieldsAlwaysSurvive == PackageSpec => []FieldsSurvive
<1>1. ASSUME PackageTypeOK PROVE FieldsSurvive
  <2> SUFFICES ASSUME NEW i \in DOMAIN packages, NEW o \in DOMAIN packages[i].objects,
                      \A q \in MergedObjects : LowerCase[q] = LowerCase[o] => q = o,
                      NEW found \in FindSObject(o)
               PROVE  /\ packages[i].objects[o] \subseteq DOMAIN MergedFields(found)
                      /\ i = Local => \A f \in packages[i].objects[o] : MergedFields(found)[f] = i
    BY DEF FieldsSurvive
  <2>1. found = o
    BY DEF FindSObject
  <2>2. packages[i].objects[o] \subseteq FieldNames
    BY <1>1, Positions DEF PackageSet
  <2>3. \A f \in packages[i].objects[o] : i \in Giving(o, f)
    BY DEF Giving
  <2>4. packages[i].objects[o] \subseteq DOMAIN MergedFields(o)
    BY <2>2, <2>3 DEF MergedFields
  <2>5. ASSUME i = Local, NEW f \in packages[i].objects[o] PROVE MergedFields(o)[f] = i
    <3>1. Max(Giving(o, f)) = i
      BY <1>1, <2>3, <2>5, GivingFacts DEF Local
    <3>2. MergedFields(o)[f] = Max(Giving(o, f))
      BY <2>2, <2>3 DEF MergedFields
    <3>3. QED
      BY <3>1, <3>2
  <2>6. QED
    BY <2>1, <2>4, <2>5
<1>2. PackageInv => FieldsSurvive
  BY <1>1 DEF PackageInv
<1>3. QED
  BY <1>2, PackageInvariance, PTL
=============================================================================
