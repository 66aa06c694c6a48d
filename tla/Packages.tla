------------------------------- MODULE Packages -------------------------------
(***************************************************************************)
(* Loading a project with its mock packages, finding a class by a name, the *)
(* merged registry and the merged schema (pkg/loader.go, resolve.go,        *)
(* package.go).  A class is its name in lower case and the modifier it was  *)
(* written with; a field's definition is the package that gives it.         *)
(***************************************************************************)
EXTENDS Naturals, SequencesExt, FiniteSetsExt

CONSTANTS
  Namespaces,  \* as they are spelled, "" among them
  ClassKeys,   \* names of classes, in lower case
  ObjectNames, \* of SObjects, as they are spelled
  FieldNames,
  LowerCase,   \* of a namespace or an object's name
  Contents,    \* what the packages that are loaded hold
  MaxPackages  \* bound

VARIABLES
  packages,         \* LoadResult.AllPackages
  defaultNamespace,
  loading           \* "packages", "done" or "failed"

packageVars == <<packages, defaultNamespace, loading>>

Absent == "absent"
\* The spelling of the modifier; "annotated" is @NamespaceAccessible.
Modifiers == {"public", "global", "Global", "annotated"}
Content ==
  [classes : [ClassKeys -> Modifiers \cup {Absent}],
   objects : UNION {[os -> SUBSET FieldNames] : os \in SUBSET ObjectNames}]

ASSUME PackageAssumption ==
  /\ "" \in Namespaces /\ Contents \subseteq Content /\ MaxPackages \in Nat
  /\ \A ns \in Namespaces : LowerCase[ns] = LowerCase[""] => ns = ""

Package(ns, p) == [ns |-> ns, classes |-> p.classes, objects |-> p.objects]
-----------------------------------------------------------------------------
Has(i, c) == packages[i].classes[c] # Absent

\* Package.IsAccessibleFrom: namespaces and modifiers are compared as they are spelled.
M_IsAccessibleFrom(i, c, caller) ==
  caller \in {packages[i].ns, defaultNamespace} \/ packages[i].classes[c] \in {"global", "annotated"}
IsAccessibleFrom(i, c, caller) ==
  caller = packages[i].ns \/ packages[i].classes[c] \in {"global", "annotated"}

\* NewResolver: of two packages with a namespace, the later one.
OfNamespace(ns) == {i \in DOMAIN packages : packages[i].ns # "" /\ LowerCase[packages[i].ns] = LowerCase[ns]}
ByNamespace(ns) == IF OfNamespace(ns) = {} THEN {} ELSE {Max(OfNamespace(ns))}

\* Resolver.ResolveClass of "ns.c", or of "c" where ns is "": the package whose class it
\* gives, as a set of at most one.  Every step is taken only where those before find nothing.
OfPackage(ns, c, caller) == {i \in ByNamespace(ns) : Has(i, c) /\ IsAccessibleFrom(i, c, caller)}
OfCaller(c, caller) == {i \in ByNamespace(caller) : Has(i, c)}
OfDefault(c, caller) ==
  {i \in ByNamespace(defaultNamespace) : defaultNamespace # "" /\ Has(i, c)
                                         /\ LowerCase[caller] # LowerCase[defaultNamespace]}
OfAny(c, caller) == {i \in DOMAIN packages : Has(i, c) /\ IsAccessibleFrom(i, c, caller)}

M_ResolveClass(ns, c, caller) ==
  IF ns # "" THEN OfPackage(ns, c, caller)
  ELSE IF OfDefault(c, caller) # {} THEN OfDefault(c, caller)
  ELSE IF OfCaller(c, caller) # {} THEN OfCaller(c, caller)
  ELSE IF OfAny(c, caller) # {} THEN {Min(OfAny(c, caller))} ELSE {}
ResolveClass(ns, c, caller) ==
  IF ns # "" THEN OfPackage(ns, c, caller)
  ELSE IF OfCaller(c, caller) # {} THEN OfCaller(c, caller)
  ELSE IF OfDefault(c, caller) # {} THEN OfDefault(c, caller)
  ELSE IF OfAny(c, caller) # {} THEN {Min(OfAny(c, caller))} ELSE {}

\* Resolver.BuildMergedRegistry: the entries "c" and "ns.c", each the last package's.
LastWith(c, among) ==
  LET having == {i \in among : Has(i, c)} IN IF having = {} THEN {} ELSE {Max(having)}
MergedRegistry(ns, c) == LastWith(c, IF ns = "" THEN DOMAIN packages ELSE OfNamespace(ns))

\* mergeSchemas: the fields of an object from every package that spells its name alike, the
\* last package's definition of each.
Giving(o, f) == {i \in DOMAIN packages : o \in DOMAIN packages[i].objects /\ f \in packages[i].objects[o]}
M_MergedFields(o) ==
  LET last == Max({i \in DOMAIN packages : o \in DOMAIN packages[i].objects})
  IN [f \in packages[last].objects[o] |-> last]
MergedFields(o) == [f \in {f \in FieldNames : Giving(o, f) # {}} |-> Max(Giving(o, f))]
MergedObjects == UNION {DOMAIN packages[i].objects : i \in DOMAIN packages}

\* Schema.FindSObject takes the first name the map happens to give that fits.
FindSObject(name) == {o \in MergedObjects : LowerCase[o] = LowerCase[name]}
-----------------------------------------------------------------------------
PackageInit ==
  /\ packages = <<>> /\ loading = "packages"
  /\ defaultNamespace \in Namespaces

\* LoadProjectWithManifest: the mocks in the order of the manifest, whose namespace of a
\* mock overrides the one of its file; one that cannot be read ends it.
LoadMock(p, own, ns) ==
  /\ loading = "packages" /\ Len(packages) + 1 < MaxPackages
  /\ packages' = Append(packages, Package(IF ns # "" THEN ns ELSE own, p))
  /\ UNCHANGED <<defaultNamespace, loading>>

\* The local package comes last.
M_LoadLocal(p) ==
  /\ loading = "packages"
  /\ packages' = <<Package(defaultNamespace, p)>> \o packages
  /\ loading' = "done"
  /\ UNCHANGED defaultNamespace
LoadLocal(p) ==
  /\ loading = "packages"
  /\ packages' = Append(packages, Package(defaultNamespace, p))
  /\ loading' = "done"
  /\ UNCHANGED defaultNamespace

LoadFails ==
  /\ loading = "packages"
  /\ loading' = "failed" /\ packages' = <<>>
  /\ UNCHANGED defaultNamespace

PackageNext ==
  \/ \E p \in Contents : LoadLocal(p) \/ \E own, ns \in Namespaces : LoadMock(p, own, ns)
  \/ LoadFails
PackageSpec == PackageInit /\ [][PackageNext]_packageVars
-----------------------------------------------------------------------------
Callers == {packages[i].ns : i \in DOMAIN packages}
Local == Len(packages)
Same(ns, other) == LowerCase[ns] = LowerCase[other]
Published(i, c) == packages[i].classes[c] \in {"global", "annotated"}

\* README.md:70, visibility across packages: whatever the name and the code that says it,
\* the class found is of the code's own namespace or one its package shares; but a bare name
\* finds any class of the default namespace (resolve.go:60-66).
OnlyAccessibleClasses ==
  loading = "done" =>
    \A ns \in Namespaces, c \in ClassKeys, caller \in Callers :
      \A i \in ResolveClass(ns, c, caller) :
        \/ Same(packages[i].ns, caller) \/ Published(i, c)
        \/ ns = "" /\ Same(packages[i].ns, defaultNamespace)

\* GUIDE.md:426-430, the current namespace first, then the default one, then all packages:
\* a bare name of a class its own code has gives the code that class, but for code of no
\* namespace, to which a class of the default namespace, and one that an earlier package
\* shares or has without a namespace too, come first.  Of two packages with a namespace
\* only the later is asked about.
OwnClassesFirst ==
  loading = "done" =>
    \A i \in DOMAIN packages, c \in ClassKeys :
      LET ns == packages[i].ns
          rivals == {j \in 1 .. i - 1 : Has(j, c) /\ (Published(j, c) \/ packages[j].ns = ns)}
                      \cup OfDefault(c, ns)
      IN Has(i, c) /\ (ns # "" => \A j \in i + 1 .. Local : ~Same(packages[j].ns, ns)) =>
           ((ResolveClass("", c, ns) = {i}) <=> (ns # "" \/ rivals = {}))

\* What the merged registry holds under a name is what the resolver gives the local code,
\* where it gives anything: it never gives it a class of another package than the registry
\* does, unless two packages other than the local one have a class of the name, or the
\* local code has no namespace.
RegistryAgreesWithResolver ==
  loading = "done" =>
    \A ns \in Namespaces, c \in ClassKeys :
      LET found == ResolveClass(ns, c, defaultNamespace)
          among == {i \in (IF ns = "" THEN DOMAIN packages ELSE OfNamespace(ns)) : Has(i, c)}
      IN found # {} /\ MergedRegistry(ns, c) # found =>
           /\ Cardinality(among) > 1
           /\ Local \in among => ns = "" /\ defaultNamespace = ""

\* GUIDE.md, what several packages define on one object is merged: a field that any package
\* gives an object is found on it, unless the packages spell the object's name differently.
FieldsSurvive ==
  loading = "done" =>
    \A i \in DOMAIN packages : \A o \in DOMAIN packages[i].objects :
      (\A p \in MergedObjects : LowerCase[p] = LowerCase[o] => p = o) =>
        \A found \in FindSObject(o) :
          /\ packages[i].objects[o] \subseteq DOMAIN MergedFields(found)
          /\ i = Local => \A f \in packages[i].objects[o] : MergedFields(found)[f] = i
=============================================================================
