---------------------------- MODULE AuthoringProofs ----------------------------
(***************************************************************************)
(* Theorems about the execution of declared structures, for any designs,   *)
(* statements and departures of the executed design from its declared one: *)
(* the records a run keeps name only what it registered, a manifest that a *)
(* run generates is accepted with a path to ground for every load, reading *)
(* a design declares what executing it generates, and what is derived of a *)
(* declaration, the paths of its loads and the segments of its members, is *)
(* what it declares.                                                       *)
(***************************************************************************)
EXTENDS StructuralAuthoring, CountingLemmas, FiniteSetTheorems, SequenceTheorems, TLAPS

----
(* Lists.                                                                  *)

IsList(x) == x \in Seq(ToSet(x))

LEMMA ListFacts ==
    ASSUME NEW S, NEW x \in Seq(S)
    PROVE  IsList(x) /\ ToSet(x) \subseteq S
<1>1. \A i \in 1..Len(x) : x[i] \in S
  OBVIOUS
<1>2. ToSet(x) = {x[i] : i \in 1..Len(x)}
  BY DEF ToSet
<1>3. x \in Seq(ToSet(x))
  BY <1>2
<1> QED BY <1>1, <1>2, <1>3 DEF IsList

LEMMA EmptyList == IsList(<<>>) /\ ToSet(<<>>) = {}
  BY DEF IsList, ToSet

LEMMA LengthOfList ==
    ASSUME NEW x, IsList(x)
    PROVE  Len(x) \in Nat /\ DOMAIN x = 1..Len(x) /\ x = [i \in 1..Len(x) |-> x[i]]
<1>1. PICK S : S = ToSet(x)
  OBVIOUS
<1>2. x \in Seq(S)
  BY <1>1 DEF IsList
<1> QED BY <1>2

LEMMA AddedToList ==
    ASSUME NEW x, IsList(x), NEW e
    PROVE  /\ IsList(Append(x, e)) /\ ToSet(Append(x, e)) = ToSet(x) \cup {e}
           /\ Len(Append(x, e)) = Len(x) + 1 /\ Append(x, e)[Len(x) + 1] = e
           /\ \A i \in DOMAIN x : Append(x, e)[i] = x[i]
           /\ DOMAIN Append(x, e) = DOMAIN x \cup {Len(x) + 1}
<1>1. PICK S : S = ToSet(x) \cup {e}
  OBVIOUS
<1>2. x \in Seq(S)
 <2>1. PICK R : R = ToSet(x)
   OBVIOUS
 <2>2. x \in Seq(R) /\ R \subseteq S
   BY <1>1, <2>1 DEF IsList
 <2> QED BY <2>2
<1>3. e \in S
  BY <1>1
<1>4. PICK y : y = Append(x, e)
  OBVIOUS
<1>5. /\ y \in Seq(S) /\ Len(y) = Len(x) + 1 /\ y[Len(x) + 1] = e
      /\ \A i \in 1..Len(x) : y[i] = x[i]
  BY <1>2, <1>3, <1>4
<1>6. DOMAIN x = 1..Len(x) /\ Len(x) \in Nat /\ DOMAIN y = 1..(Len(x) + 1)
  BY <1>2, <1>5
<1>7. DOMAIN y = DOMAIN x \cup {Len(x) + 1}
  BY <1>6
<1>8. ToSet(y) = ToSet(x) \cup {e}
  BY <1>5, <1>6, <1>7 DEF ToSet
<1>9. IsList(y)
  BY <1>5, ListFacts
<1> QED BY <1>4, <1>5, <1>6, <1>7, <1>8, <1>9

LEMMA JoinedLists ==
    ASSUME NEW x, IsList(x), NEW y, IsList(y)
    PROVE  /\ IsList(x \o y) /\ ToSet(x \o y) = ToSet(x) \cup ToSet(y)
           /\ Len(x \o y) = Len(x) + Len(y)
           /\ \A i \in 1..Len(x) : (x \o y)[i] = x[i]
           /\ \A i \in 1..Len(y) : (x \o y)[Len(x) + i] = y[i]
<1>1. PICK S : S = ToSet(x) \cup ToSet(y)
  OBVIOUS
<1>2. x \in Seq(S) /\ y \in Seq(S)
 <2>1. PICK R, Q : R = ToSet(x) /\ Q = ToSet(y)
   OBVIOUS
 <2>2. x \in Seq(R) /\ y \in Seq(Q) /\ R \subseteq S /\ Q \subseteq S
   BY <1>1, <2>1 DEF IsList
 <2> QED BY <2>2
<1>3. PICK z : z = x \o y
  OBVIOUS
<1>4. PICK a, b : a = Len(x) /\ b = Len(y)
  OBVIOUS
<1>5. /\ z \in Seq(S) /\ Len(z) = a + b /\ a \in Nat /\ b \in Nat
      /\ \A i \in 1..a : z[i] = x[i]
      /\ \A i \in 1..b : z[a + i] = y[i]
  BY <1>2, <1>3, <1>4
<1>6. DOMAIN x = 1..a /\ DOMAIN y = 1..b /\ DOMAIN z = 1..(a + b)
  BY <1>2, <1>4, <1>5
<1>7. ToSet(z) = ToSet(x) \cup ToSet(y)
 <2>1. ASSUME NEW i \in 1..(a + b) PROVE z[i] \in ToSet(x) \cup ToSet(y)
  <3>1. CASE i \in 1..a
    BY <1>5, <1>6, <3>1 DEF ToSet
  <3>2. CASE i \notin 1..a
   <4>1. PICK j : j = i - a
     OBVIOUS
   <4>2. j \in 1..b /\ i = a + j
     BY <1>5, <3>2, <4>1
   <4> QED BY <1>5, <1>6, <4>2 DEF ToSet
  <3> QED BY <3>1, <3>2
 <2>2. \A i \in 1..a : x[i] \in ToSet(z)
  <3>1. \A i \in 1..a : i \in 1..(a + b)
    BY <1>5
  <3> QED BY <1>5, <1>6, <3>1 DEF ToSet
 <2>3. \A i \in 1..b : y[i] \in ToSet(z)
  <3>1. \A i \in 1..b : a + i \in 1..(a + b)
    BY <1>5
  <3> QED BY <1>5, <1>6, <3>1 DEF ToSet
 <2> QED BY <1>6, <2>1, <2>2, <2>3 DEF ToSet
<1>8. IsList(z)
  BY <1>5, ListFacts
<1> QED BY <1>3, <1>4, <1>5, <1>7, <1>8

\* A list has no element twice when no two places have the same.
LEMMA DifferentPlaces ==
    ASSUME NEW x, IsList(x)
    PROVE  AllDiffer(x) <=> \A i, j \in DOMAIN x : x[i] = x[j] => i = j
<1>1. PICK n \in Nat : n = Len(x)
  BY LengthOfList
<1>2. DOMAIN x = 1..n /\ x = [i \in 1..n |-> x[i]]
  BY <1>1, LengthOfList
<1>3. PICK S, T : S = 1..n /\ T = ToSet(x)
  OBVIOUS
<1>4. x \in Surjection(S, T)
  BY <1>2, <1>3 DEF Surjection, ToSet
<1>5. IsFiniteSet(S) /\ Cardinality(S) = n
  BY <1>3, FS_Interval
<1>6. Cardinality(T) = Cardinality(S) <=> x \in Injection(S, T)
  BY <1>4, <1>5, FS_Surjection
<1>7. x \in [S -> T]
  BY <1>4 DEF Surjection
<1>8. x \in Injection(S, T) <=> \A i, j \in S : x[i] = x[j] => i = j
  BY <1>7 DEF Injection, IsInjective
<1> QED BY <1>1, <1>2, <1>3, <1>5, <1>6, <1>8 DEF AllDiffer

LEMMA ListOver ==
    ASSUME NEW n \in Nat, NEW f, DOMAIN f = 1..n, f = [i \in 1..n |-> f[i]]
    PROVE  IsList(f) /\ Len(f) = n
<1>1. PICK S : S = ToSet(f)
  OBVIOUS
<1>2. f \in [1..n -> S]
  BY <1>1 DEF ToSet
<1>3. f \in Seq(S) /\ Len(f) = n
  BY <1>2
<1> QED BY <1>1, <1>3 DEF IsList
----
(* Registers: lists of records that differ by their ids.                   *)

IsRegister(x) == IsList(x) /\ \A i, j \in DOMAIN x : x[i].id = x[j].id => i = j

LEMMA EmptyRegister == IsRegister(<<>>) /\ ToSet(<<>>) = {} /\ IdsOf(<<>>) = {}
<1>1. IsList(<<>>) /\ ToSet(<<>>) = {}
  BY EmptyList
<1>2. DOMAIN <<>> = {}
  OBVIOUS
<1> QED BY <1>1, <1>2 DEF IsRegister, IdsOf

LEMMA Registered ==
    ASSUME NEW x, IsRegister(x), NEW e, e.id \notin IdsOf(x)
    PROVE  /\ IsRegister(Append(x, e)) /\ ToSet(Append(x, e)) = ToSet(x) \cup {e}
           /\ IdsOf(Append(x, e)) = IdsOf(x) \cup {e.id}
<1>1. IsList(x)
  BY DEF IsRegister
<1>2. PICK y : y = Append(x, e)
  OBVIOUS
<1>3. PICK n \in Nat : n = Len(x)
  BY <1>1, LengthOfList
<1>4. /\ IsList(y) /\ ToSet(y) = ToSet(x) \cup {e} /\ y[n + 1] = e
      /\ \A i \in DOMAIN x : y[i] = x[i]
      /\ DOMAIN y = DOMAIN x \cup {n + 1}
  BY <1>1, <1>2, <1>3, AddedToList
<1>5. \A i \in DOMAIN x : x[i].id # e.id
  BY DEF IdsOf, ToSet
<1>6. \A i, j \in DOMAIN y : y[i].id = y[j].id => i = j
  BY <1>4, <1>5 DEF IsRegister
<1>7. IdsOf(y) = IdsOf(x) \cup {e.id}
  BY <1>4 DEF IdsOf
<1> QED BY <1>2, <1>4, <1>6, <1>7 DEF IsRegister

LEMMA RegisterIds ==
    ASSUME NEW x, IsRegister(x)
    PROVE  /\ AllDiffer(IdList(x))
           /\ \A a, b \in ToSet(x) : a.id = b.id => a = b
<1>1. PICK n \in Nat : n = Len(x) /\ DOMAIN x = 1..n
  BY LengthOfList DEF IsRegister
<1>2. PICK y : y = IdList(x)
  OBVIOUS
<1>3. y = [i \in 1..n |-> x[i].id]
  BY <1>1, <1>2 DEF IdList
<1>4. IsList(y)
  BY <1>3, ListOver
<1>5. \A i, j \in DOMAIN y : y[i] = y[j] => i = j
  BY <1>1, <1>3 DEF IsRegister
<1>6. AllDiffer(y)
  BY <1>4, <1>5, DifferentPlaces
<1> QED BY <1>2, <1>6 DEF IsRegister, ToSet

LEMMA NamedIs ==
    ASSUME NEW x, IsRegister(x), NEW id \in IdsOf(x)
    PROVE  Named(x, id) \in ToSet(x) /\ Named(x, id).id = id
<1>1. \E r \in ToSet(x) : r.id = id
  BY DEF IdsOf
<1> QED BY <1>1 DEF Named

LEMMA NamedStays ==
    ASSUME NEW x, NEW y, IsRegister(x), IsRegister(y), ToSet(x) \subseteq ToSet(y), NEW id \in IdsOf(x)
    PROVE  Named(y, id) = Named(x, id) /\ id \in IdsOf(y)
<1>1. Named(x, id) \in ToSet(x) /\ Named(x, id).id = id
  BY NamedIs
<1>2. id \in IdsOf(y)
  BY <1>1 DEF IdsOf
<1>3. Named(y, id) \in ToSet(y) /\ Named(y, id).id = id
  BY <1>2, NamedIs
<1> QED BY <1>1, <1>2, <1>3, RegisterIds

LEMMA IdsGrow ==
    ASSUME NEW x, NEW y, ToSet(x) \subseteq ToSet(y)
    PROVE  IdsOf(x) \subseteq IdsOf(y)
  BY DEF IdsOf

----
(* What the checks of the calls leave in a model: of each record, that what *)
(* it names is registered.                                                  *)

ModelFields ==
    {"basis", "winds", "stability", "crossSection", "memberStability", "parts", "geometry",
     "connections", "candidates", "loads", "materials", "sections", "members", "points", "lines",
     "combos", "cases", "assembled", "materialIds", "sectionIds"}
RegisterFields ==
    {"winds", "parts", "connections", "candidates", "loads", "materials", "sections", "members",
     "points", "lines", "combos"}

HasPart(m, id, kind) == \E p \in ToSet(m.parts) : p.id = id /\ p.kind = kind

ConnectionOK(m, c) ==
    /\ c.from \in IdsOf(m.parts) /\ c.to \in IdsOf(m.parts) /\ c.from # c.to
    /\ \A v \in ToSet(c.via) : HasPart(m, v, "connector")

LoadOK(m, l) ==
    /\ l.sound /\ l.category \in {"dead", "live", "wind"} /\ l.case \in DOMAIN m.cases
    /\ l.wind # "none" => l.wind \in IdsOf(m.winds) /\ l.category = "wind"
    /\ HasPart(m, l.component, "surface")

MemberOK(m, x) ==
    /\ x.sound /\ x.length \in Int /\ x.length > 0 /\ HasPart(m, x.component, "member")
    /\ x.section \in IdsOf(m.sections) /\ x.material \in IdsOf(m.materials)

\* A load on a member, at a point or along it.
OnMember(m, l) ==
    /\ l.member \in IdsOf(m.members) /\ l.case \in DOMAIN m.cases
    /\ l.source # "none" => l.source \in IdsOf(m.loads)
PointOK(m, l) == OnMember(m, l) /\ l.at \in 0..Named(m.members, l.member).length
LineOK(m, l) ==
    OnMember(m, l) /\ 0 <= l.from /\ l.from < l.to /\ l.to <= Named(m.members, l.member).length

CandidateOK(m, c) ==
    /\ c.member \in IdsOf(m.members) /\ c.brace \in IdsOf(m.parts)
    /\ c.connection \in IdsOf(m.connections) /\ c.at \in 0..Named(m.members, c.member).length
    /\ c.ground # "none" => c.ground \in IdsOf(m.parts) /\ Grounded(m, c.ground)

SegmentOK(m, g) ==
    /\ g.member \in IdsOf(m.members)
    /\ 0 <= g.from /\ g.from < g.to /\ g.to <= Named(m.members, g.member).length

CrossOK(m, v) ==
    /\ v.sound /\ v.combos # <<>>
    /\ AllDiffer(v.members) /\ ToSet(v.members) \subseteq IdsOf(m.members)

BucklingOK(m, v) ==
    /\ v.sound /\ v.combos # <<>> /\ AllDiffer(IdList(v.candidates)) /\ AllDiffer(IdList(v.segments))
    /\ \A c \in ToSet(v.candidates) : CandidateOK(m, c)
    /\ \A g \in ToSet(v.segments) : SegmentOK(m, g)

RecordsOK(m) ==
    /\ \A c \in ToSet(m.connections) : ConnectionOK(m, c)
    /\ \A l \in ToSet(m.loads) : LoadOK(m, l)
    /\ \A x \in ToSet(m.sections) : x.sound
    /\ \A x \in ToSet(m.members) : MemberOK(m, x)
    /\ \A l \in ToSet(m.points) : PointOK(m, l)
    /\ \A l \in ToSet(m.lines) : LineOK(m, l)
    /\ \A c \in ToSet(m.combos) : c.sound /\ c.factors # {}
    /\ \A c \in ToSet(m.candidates) : CandidateOK(m, c)

OptionsOK(m) ==
    /\ \A t \in ToSet(m.stability) : t.sound
    /\ \A v \in ToSet(m.crossSection) : CrossOK(m, v)
    /\ \A v \in ToSet(m.memberStability) : BucklingOK(m, v)

CasesOK(m) ==
    /\ \A c \in DOMAIN m.cases :
          m.cases[c].category \in {"dead", "live", "wind", "imperfection", "fixture"}
    /\ m.cases = <<>> \/ (DOMAIN m.cases # {} /\ m.parts # <<>>)

NodesDiffer(m) ==
    \A i, j \in DOMAIN m.parts : m.parts[i].node = m.parts[j].node => i = j

IdsKept(m) ==
    IdsOf(m.materials) \subseteq m.materialIds /\ IdsOf(m.sections) \subseteq m.sectionIds

IsModel(m) == DOMAIN m = ModelFields /\ \A f \in RegisterFields : IsRegister(m[f])

ModelOK(m) ==
    IsModel(m) /\ NodesDiffer(m) /\ IdsKept(m) /\ CasesOK(m) /\ RecordsOK(m) /\ OptionsOK(m)

\* A call takes no record away.
Grows(m, n) ==
    /\ \A f \in RegisterFields : ToSet(m[f]) \subseteq ToSet(n[f])
    /\ DOMAIN m.cases \subseteq DOMAIN n.cases

HandleOK(m, h) ==
    /\ h = Handle(h.kind, h.id)
    /\ h.kind = "wind" => h.id \in IdsOf(m.winds)
    /\ h.kind = "section" => h.id \in IdsOf(m.sections)
    /\ h.kind = "material" => h.id \in IdsOf(m.materials)

EnvOK(m, env) == \A x \in DOMAIN env : HandleOK(m, env[x])

CallOK(m, call) ==
    /\ DOMAIN call = {"ok", "model", "handle"} /\ call.ok \in BOOLEAN
    /\ ModelOK(call.model) /\ Grows(m, call.model)
    /\ call.ok => HandleOK(call.model, call.handle)

----
(* What stays as a model grows.                                            *)

LEMMA GrowsNot == ASSUME NEW m PROVE Grows(m, m)
  BY DEF Grows

LEMMA GrowsOn ==
    ASSUME NEW m, NEW n, NEW k, Grows(m, n), Grows(n, k)
    PROVE  Grows(m, k)
<1>1. ASSUME NEW f \in RegisterFields PROVE ToSet(m[f]) \subseteq ToSet(k[f])
  BY DEF Grows
<1>2. DOMAIN m.cases \subseteq DOMAIN k.cases
  BY DEF Grows
<1> QED BY <1>1, <1>2 DEF Grows

LEMMA FieldsGrow ==
    ASSUME NEW m, NEW n, Grows(m, n)
    PROVE  /\ ToSet(m.winds) \subseteq ToSet(n.winds) /\ IdsOf(m.winds) \subseteq IdsOf(n.winds)
           /\ ToSet(m.parts) \subseteq ToSet(n.parts) /\ IdsOf(m.parts) \subseteq IdsOf(n.parts)
           /\ ToSet(m.connections) \subseteq ToSet(n.connections)
           /\ IdsOf(m.connections) \subseteq IdsOf(n.connections)
           /\ IdsOf(m.loads) \subseteq IdsOf(n.loads)
           /\ IdsOf(m.materials) \subseteq IdsOf(n.materials)
           /\ IdsOf(m.sections) \subseteq IdsOf(n.sections)
           /\ ToSet(m.members) \subseteq ToSet(n.members) /\ IdsOf(m.members) \subseteq IdsOf(n.members)
           /\ DOMAIN m.cases \subseteq DOMAIN n.cases
<1>1. /\ ToSet(m.winds) \subseteq ToSet(n.winds) /\ ToSet(m.parts) \subseteq ToSet(n.parts)
      /\ ToSet(m.connections) \subseteq ToSet(n.connections) /\ ToSet(m.loads) \subseteq ToSet(n.loads)
      /\ ToSet(m.materials) \subseteq ToSet(n.materials) /\ ToSet(m.sections) \subseteq ToSet(n.sections)
      /\ ToSet(m.members) \subseteq ToSet(n.members) /\ DOMAIN m.cases \subseteq DOMAIN n.cases
  BY DEF Grows, RegisterFields
<1> QED BY <1>1, IdsGrow

LEMMA FieldsAre ==
    ASSUME NEW m, IsModel(m)
    PROVE  /\ IsRegister(m.winds) /\ IsRegister(m.parts) /\ IsRegister(m.connections)
           /\ IsRegister(m.candidates) /\ IsRegister(m.loads) /\ IsRegister(m.materials)
           /\ IsRegister(m.sections) /\ IsRegister(m.members) /\ IsRegister(m.points)
           /\ IsRegister(m.lines) /\ IsRegister(m.combos)
  BY DEF IsModel, RegisterFields

LEMMA HasPartStays ==
    ASSUME NEW m, NEW n, Grows(m, n), NEW id, NEW kind, HasPart(m, id, kind)
    PROVE  HasPart(n, id, kind)
  BY FieldsGrow DEF HasPart

LEMMA LengthStays ==
    ASSUME NEW m, NEW n, IsModel(m), IsModel(n), Grows(m, n), NEW id \in IdsOf(m.members)
    PROVE  Named(n.members, id) = Named(m.members, id) /\ id \in IdsOf(n.members)
<1>1. PICK x, y : x = m.members /\ y = n.members
  OBVIOUS
<1>2. IsRegister(x) /\ IsRegister(y) /\ ToSet(x) \subseteq ToSet(y) /\ id \in IdsOf(x)
  BY <1>1, FieldsAre, FieldsGrow
<1> QED BY <1>1, <1>2, NamedStays

LEMMA GroundStays ==
    ASSUME NEW m, NEW n, IsModel(m), IsModel(n), Grows(m, n), NEW id \in IdsOf(m.parts)
    PROVE  Grounded(n, id) = Grounded(m, id) /\ id \in IdsOf(n.parts)
<1>1. PICK x, y : x = m.parts /\ y = n.parts
  OBVIOUS
<1>2. IsRegister(x) /\ IsRegister(y) /\ ToSet(x) \subseteq ToSet(y) /\ id \in IdsOf(x)
  BY <1>1, FieldsAre, FieldsGrow
<1>3. Named(y, id) = Named(x, id) /\ id \in IdsOf(y)
  BY <1>2, NamedStays
<1> QED BY <1>1, <1>3 DEF Grounded

LEMMA RecordsStay ==
    ASSUME NEW m, NEW n, IsModel(m), IsModel(n), Grows(m, n)
    PROVE  /\ \A c : ConnectionOK(m, c) => ConnectionOK(n, c)
           /\ \A c : LoadOK(m, c) => LoadOK(n, c)
           /\ \A c : MemberOK(m, c) => MemberOK(n, c)
           /\ \A c : PointOK(m, c) => PointOK(n, c)
           /\ \A c : LineOK(m, c) => LineOK(n, c)
           /\ \A c : CandidateOK(m, c) => CandidateOK(n, c)
           /\ \A c : SegmentOK(m, c) => SegmentOK(n, c)
<1>1. ASSUME NEW c, ConnectionOK(m, c) PROVE ConnectionOK(n, c)
  BY <1>1, FieldsGrow, HasPartStays DEF ConnectionOK
<1>2. ASSUME NEW c, LoadOK(m, c) PROVE LoadOK(n, c)
  BY <1>2, FieldsGrow, HasPartStays DEF LoadOK
<1>3. ASSUME NEW c, MemberOK(m, c) PROVE MemberOK(n, c)
  BY <1>3, FieldsGrow, HasPartStays DEF MemberOK
<1>4. ASSUME NEW c, OnMember(m, c)
      PROVE  OnMember(n, c) /\ Named(n.members, c.member) = Named(m.members, c.member)
  BY <1>4, FieldsGrow, LengthStays DEF OnMember
<1>5. ASSUME NEW c, PointOK(m, c) PROVE PointOK(n, c)
  BY <1>4, <1>5 DEF PointOK
<1>6. ASSUME NEW c, LineOK(m, c) PROVE LineOK(n, c)
  BY <1>4, <1>6 DEF LineOK
<1>7. ASSUME NEW c, CandidateOK(m, c) PROVE CandidateOK(n, c)
 <2>1. c.member \in IdsOf(n.members) /\ Named(n.members, c.member) = Named(m.members, c.member)
   BY <1>7, LengthStays DEF CandidateOK
 <2>2. c.brace \in IdsOf(n.parts) /\ c.connection \in IdsOf(n.connections)
   BY <1>7, FieldsGrow DEF CandidateOK
 <2>3. c.ground # "none" => c.ground \in IdsOf(n.parts) /\ Grounded(n, c.ground)
   BY <1>7, GroundStays DEF CandidateOK
 <2> QED BY <1>7, <2>1, <2>2, <2>3 DEF CandidateOK
<1>8. ASSUME NEW c, SegmentOK(m, c) PROVE SegmentOK(n, c)
  BY <1>8, LengthStays DEF SegmentOK
<1> QED BY <1>1, <1>2, <1>3, <1>5, <1>6, <1>7, <1>8

\* The new records of a grown model.
NewRecordsOK(m, n) ==
    /\ \A c \in ToSet(n.connections) : c \in ToSet(m.connections) \/ ConnectionOK(n, c)
    /\ \A l \in ToSet(n.loads) : l \in ToSet(m.loads) \/ LoadOK(n, l)
    /\ \A x \in ToSet(n.sections) : x \in ToSet(m.sections) \/ x.sound
    /\ \A x \in ToSet(n.members) : x \in ToSet(m.members) \/ MemberOK(n, x)
    /\ \A l \in ToSet(n.points) : l \in ToSet(m.points) \/ PointOK(n, l)
    /\ \A l \in ToSet(n.lines) : l \in ToSet(m.lines) \/ LineOK(n, l)
    /\ \A c \in ToSet(n.combos) : c \in ToSet(m.combos) \/ (c.sound /\ c.factors # {})
    /\ \A c \in ToSet(n.candidates) : c \in ToSet(m.candidates) \/ CandidateOK(n, c)

NewOptionsOK(m, n) ==
    /\ \A t \in ToSet(n.stability) : t \in ToSet(m.stability) \/ t.sound
    /\ \A v \in ToSet(n.crossSection) : v \in ToSet(m.crossSection) \/ CrossOK(n, v)
    /\ \A v \in ToSet(n.memberStability) : v \in ToSet(m.memberStability) \/ BucklingOK(n, v)

LEMMA RecordsGrow ==
    ASSUME NEW m, NEW n, ModelOK(m), IsModel(n), Grows(m, n), NewRecordsOK(m, n)
    PROVE  RecordsOK(n)
<1>0. IsModel(m) /\ RecordsOK(m)
  BY DEF ModelOK
<1>1. ASSUME NEW c \in ToSet(n.connections) PROVE ConnectionOK(n, c)
  BY <1>0, RecordsStay DEF RecordsOK, NewRecordsOK
<1>2. ASSUME NEW c \in ToSet(n.loads) PROVE LoadOK(n, c)
  BY <1>0, RecordsStay DEF RecordsOK, NewRecordsOK
<1>3. ASSUME NEW c \in ToSet(n.sections) PROVE c.sound
  BY <1>0 DEF RecordsOK, NewRecordsOK
<1>4. ASSUME NEW c \in ToSet(n.members) PROVE MemberOK(n, c)
  BY <1>0, RecordsStay DEF RecordsOK, NewRecordsOK
<1>5. ASSUME NEW c \in ToSet(n.points) PROVE PointOK(n, c)
  BY <1>0, RecordsStay DEF RecordsOK, NewRecordsOK
<1>6. ASSUME NEW c \in ToSet(n.lines) PROVE LineOK(n, c)
  BY <1>0, RecordsStay DEF RecordsOK, NewRecordsOK
<1>7. ASSUME NEW c \in ToSet(n.combos) PROVE c.sound /\ c.factors # {}
  BY <1>0 DEF RecordsOK, NewRecordsOK
<1>8. ASSUME NEW c \in ToSet(n.candidates) PROVE CandidateOK(n, c)
  BY <1>0, RecordsStay DEF RecordsOK, NewRecordsOK
<1> QED BY <1>1, <1>2, <1>3, <1>4, <1>5, <1>6, <1>7, <1>8 DEF RecordsOK

LEMMA OptionsGrow ==
    ASSUME NEW m, NEW n, ModelOK(m), IsModel(n), Grows(m, n), NewOptionsOK(m, n)
    PROVE  OptionsOK(n)
<1>0. IsModel(m) /\ OptionsOK(m)
  BY DEF ModelOK
<1>1. ASSUME NEW c \in ToSet(n.stability) PROVE c.sound
  BY <1>0 DEF OptionsOK, NewOptionsOK
<1>2. ASSUME NEW v, CrossOK(m, v) PROVE CrossOK(n, v)
  BY <1>2, FieldsGrow DEF CrossOK
<1>3. ASSUME NEW v, BucklingOK(m, v) PROVE BucklingOK(n, v)
  BY <1>0, <1>3, RecordsStay DEF BucklingOK
<1>4. ASSUME NEW v \in ToSet(n.crossSection) PROVE CrossOK(n, v)
  BY <1>0, <1>2 DEF OptionsOK, NewOptionsOK
<1>5. ASSUME NEW v \in ToSet(n.memberStability) PROVE BucklingOK(n, v)
  BY <1>0, <1>3 DEF OptionsOK, NewOptionsOK
<1> QED BY <1>1, <1>4, <1>5 DEF OptionsOK

LEMMA HandleStays ==
    ASSUME NEW m, NEW n, Grows(m, n), NEW h, HandleOK(m, h)
    PROVE  HandleOK(n, h)
  BY FieldsGrow DEF HandleOK

LEMMA EnvStays ==
    ASSUME NEW m, NEW n, Grows(m, n), NEW env, EnvOK(m, env)
    PROVE  EnvOK(n, env)
  BY HandleStays DEF EnvOK

LEMMA RefusedOK ==
    ASSUME NEW m, NEW n, ModelOK(n), Grows(m, n)
    PROVE  CallOK(m, Refused(n))
  BY DEF CallOK, Refused

LEMMA DoneOK ==
    ASSUME NEW m, NEW n, ModelOK(n), Grows(m, n), NEW kind, NEW id,
           kind = "wind" => id \in IdsOf(n.winds),
           kind = "section" => id \in IdsOf(n.sections),
           kind = "material" => id \in IdsOf(n.materials)
    PROVE  CallOK(m, Done(n, kind, id))
<1>1. HandleOK(n, Handle(kind, id))
  BY DEF HandleOK, Handle
<1> QED BY <1>1 DEF CallOK, Done

\* One record more, in one list.
MoreBy(m, n, f, e) ==
    /\ f \in RegisterFields /\ e.id \notin IdsOf(m[f])
    /\ DOMAIN n = ModelFields /\ n[f] = Append(m[f], e)
    /\ \A g \in RegisterFields : g # f => n[g] = m[g]
    /\ DOMAIN m.cases \subseteq DOMAIN n.cases

LEMMA OneMore ==
    ASSUME NEW m, ModelOK(m), NEW n, NEW f, NEW e, MoreBy(m, n, f, e)
    PROVE  /\ IsModel(n) /\ Grows(m, n)
           /\ ToSet(n[f]) = ToSet(m[f]) \cup {e} /\ IdsOf(n[f]) = IdsOf(m[f]) \cup {e.id}
<1>1. IsRegister(m[f])
  BY DEF ModelOK, IsModel, MoreBy
<1>2. IsRegister(n[f]) /\ ToSet(n[f]) = ToSet(m[f]) \cup {e} /\ IdsOf(n[f]) = IdsOf(m[f]) \cup {e.id}
  BY <1>1, Registered DEF MoreBy
<1>3. \A g \in RegisterFields : IsRegister(n[g]) /\ ToSet(m[g]) \subseteq ToSet(n[g])
  BY <1>2 DEF ModelOK, IsModel, MoreBy
<1> QED BY <1>2, <1>3 DEF IsModel, Grows, MoreBy

\* What the checks say of a record.
RecordOK(n, f, e) ==
    /\ f = "connections" => ConnectionOK(n, e)
    /\ f = "loads" => LoadOK(n, e)
    /\ f = "sections" => e.sound
    /\ f = "members" => MemberOK(n, e)
    /\ f = "points" => PointOK(n, e)
    /\ f = "lines" => LineOK(n, e)
    /\ f = "combos" => e.sound /\ e.factors # {}
    /\ f = "candidates" => CandidateOK(n, e)

LEMMA OneMoreRecord ==
    ASSUME NEW m, ModelOK(m), NEW n, NEW f, NEW e, MoreBy(m, n, f, e), RecordOK(n, f, e)
    PROVE  RecordsOK(n)
<1>1. IsModel(n) /\ Grows(m, n) /\ ToSet(n[f]) = ToSet(m[f]) \cup {e}
  BY OneMore
<1>2. \A g \in RegisterFields : g # f => ToSet(n[g]) = ToSet(m[g])
  BY DEF MoreBy
<1>3. \A c \in ToSet(n.connections) : c \in ToSet(m.connections) \/ ConnectionOK(n, c)
  BY <1>1, <1>2 DEF RegisterFields, RecordOK
<1>4. \A l \in ToSet(n.loads) : l \in ToSet(m.loads) \/ LoadOK(n, l)
  BY <1>1, <1>2 DEF RegisterFields, RecordOK
<1>5. \A x \in ToSet(n.sections) : x \in ToSet(m.sections) \/ x.sound
  BY <1>1, <1>2 DEF RegisterFields, RecordOK
<1>6. \A x \in ToSet(n.members) : x \in ToSet(m.members) \/ MemberOK(n, x)
  BY <1>1, <1>2 DEF RegisterFields, RecordOK
<1>7. \A l \in ToSet(n.points) : l \in ToSet(m.points) \/ PointOK(n, l)
  BY <1>1, <1>2 DEF RegisterFields, RecordOK
<1>8. \A l \in ToSet(n.lines) : l \in ToSet(m.lines) \/ LineOK(n, l)
  BY <1>1, <1>2 DEF RegisterFields, RecordOK
<1>9. \A c \in ToSet(n.combos) : c \in ToSet(m.combos) \/ (c.sound /\ c.factors # {})
  BY <1>1, <1>2 DEF RegisterFields, RecordOK
<1>10. \A c \in ToSet(n.candidates) : c \in ToSet(m.candidates) \/ CandidateOK(n, c)
  BY <1>1, <1>2 DEF RegisterFields, RecordOK
<1>11. NewRecordsOK(m, n)
  BY <1>3, <1>4, <1>5, <1>6, <1>7, <1>8, <1>9, <1>10 DEF NewRecordsOK
<1> QED BY <1>1, <1>11, RecordsGrow

SameOptions(m, n) ==
    n.stability = m.stability /\ n.crossSection = m.crossSection /\ n.memberStability = m.memberStability

LEMMA SameOptionsOK ==
    ASSUME NEW m, NEW n, ModelOK(m), IsModel(n), Grows(m, n), SameOptions(m, n)
    PROVE  OptionsOK(n)
<1>1. NewOptionsOK(m, n)
  BY DEF SameOptions, NewOptionsOK
<1> QED BY <1>1, OptionsGrow

\* A model that grew by a record, and perhaps by a case.
LEMMA OneMoreOK ==
    ASSUME NEW m, ModelOK(m), NEW n, NEW f, NEW e, MoreBy(m, n, f, e), RecordOK(n, f, e),
           SameOptions(m, n), NodesDiffer(n), IdsKept(n), CasesOK(n)
    PROVE  ModelOK(n) /\ Grows(m, n) /\ IdsOf(n[f]) = IdsOf(m[f]) \cup {e.id}
<1>1. IsModel(n) /\ Grows(m, n) /\ IdsOf(n[f]) = IdsOf(m[f]) \cup {e.id}
  BY OneMore
<1>2. RecordsOK(n)
  BY OneMoreRecord
<1>3. OptionsOK(n)
  BY <1>1, SameOptionsOK
<1> QED BY <1>1, <1>2, <1>3 DEF ModelOK

\* A model of the same records and cases.
LEMMA SameRecordsOK ==
    ASSUME NEW m, ModelOK(m), NEW n, DOMAIN n = ModelFields,
           \A g \in RegisterFields : n[g] = m[g], DOMAIN m.cases \subseteq DOMAIN n.cases,
           NewOptionsOK(m, n), IdsKept(n), CasesOK(n)
    PROVE  ModelOK(n) /\ Grows(m, n)
<1>1. IsModel(n) /\ Grows(m, n)
  BY DEF ModelOK, IsModel, Grows
<1>2. n.parts = m.parts /\ n.connections = m.connections /\ n.loads = m.loads
      /\ n.sections = m.sections /\ n.members = m.members /\ n.points = m.points
      /\ n.lines = m.lines /\ n.combos = m.combos /\ n.candidates = m.candidates
  BY DEF RegisterFields
<1>3. NewRecordsOK(m, n)
  BY <1>2 DEF NewRecordsOK
<1>4. RecordsOK(n)
  BY <1>1, <1>3, RecordsGrow
<1>5. OptionsOK(n)
  BY <1>1, OptionsGrow
<1>6. NodesDiffer(n)
  BY <1>2 DEF ModelOK, NodesDiffer
<1> QED BY <1>1, <1>4, <1>5, <1>6 DEF ModelOK


\* The records and cases of a model but one new record.
AppendedTo(m, n, f, e) ==
    /\ f \in RegisterFields /\ e.id \notin IdsOf(m[f])
    /\ DOMAIN n = ModelFields /\ n[f] = Append(m[f], e)
    /\ \A g \in ModelFields : g # f => n[g] = m[g]

LEMMA AppendedOK ==
    ASSUME NEW m, ModelOK(m), NEW n, NEW f, NEW e, AppendedTo(m, n, f, e), RecordOK(n, f, e),
           f \notin {"parts", "materials", "sections"}
    PROVE  ModelOK(n) /\ Grows(m, n) /\ IdsOf(n[f]) = IdsOf(m[f]) \cup {e.id}
<1>1. /\ n.cases = m.cases /\ n.materialIds = m.materialIds /\ n.sectionIds = m.sectionIds
      /\ n.materials = m.materials /\ n.sections = m.sections /\ SameOptions(m, n)
      /\ n.parts = m.parts
  BY DEF AppendedTo, ModelFields, RegisterFields, SameOptions
<1>2. NodesDiffer(n) /\ IdsKept(n) /\ CasesOK(n)
  BY <1>1 DEF ModelOK, NodesDiffer, IdsKept, CasesOK
<1>3. MoreBy(m, n, f, e)
  BY <1>1 DEF AppendedTo, MoreBy, ModelFields, RegisterFields
<1> QED BY <1>1, <1>2, <1>3, OneMoreOK

LEMMA CallDone ==
    ASSUME NEW m, NEW n, ModelOK(n), Grows(m, n), NEW kind, NEW id,
           kind \notin {"wind", "section", "material"}
    PROVE  CallOK(m, Done(n, kind, id))
  BY DoneOK

----
(* Parts.                                                                  *)

LEMMA RegisterOK ==
    ASSUME NEW m, ModelOK(m), NEW s
    PROVE  CallOK(m, Register(m, s))
<1> DEFINE r == [id |-> s.id, kind |-> s.kind, node |-> s.node]
           n == [m EXCEPT !.parts = Append(@, r)]
           G == /\ m.assembled = <<>> /\ s.flaw = "none"
                /\ s.id \notin IdsOf(m.parts) /\ \A p \in ToSet(m.parts) : p.node # s.node
<1>1. CASE G
 <2>1. Register(m, s) = Done(n, "part", s.id)
   BY <1>1 DEF Register, Take
 <2>2. PICK k : k = n
   OBVIOUS
 <2>3. PICK e : e = r
   OBVIOUS
 <2>4. DOMAIN m = ModelFields
   BY DEF ModelOK, IsModel
 <2>5. DOMAIN k = ModelFields /\ k.parts = Append(m.parts, e)
       /\ \A g \in ModelFields : g # "parts" => k[g] = m[g]
   BY <2>2, <2>3, <2>4 DEF ModelFields
 <2>6. \A g \in RegisterFields : g # "parts" => k[g] = m[g]
   BY <2>5 DEF ModelFields, RegisterFields
 <2>7. e.id = s.id /\ e.node = s.node
   BY <2>3
 <2>8. k.cases = m.cases /\ k.materialIds = m.materialIds /\ k.sectionIds = m.sectionIds
       /\ k.materials = m.materials /\ k.sections = m.sections /\ SameOptions(m, k)
   BY <2>5 DEF ModelFields, SameOptions
 <2>9. IdsKept(k)
   BY <2>8 DEF ModelOK, IdsKept
 <2>10. PICK x, y : x = m.parts /\ y = k.parts
   OBVIOUS
 <2>11. IsList(x) /\ y = Append(x, e)
   BY <2>5, <2>10, FieldsAre DEF ModelOK, IsRegister
 <2>12. PICK l : l = Len(x)
   OBVIOUS
 <2>13. y[l + 1] = e /\ (\A i \in DOMAIN x : y[i] = x[i]) /\ DOMAIN y = DOMAIN x \cup {l + 1}
   BY <2>11, <2>12, AddedToList
 <2>14. \A i \in DOMAIN x : x[i].node # e.node
   BY <1>1, <2>7, <2>10 DEF ToSet
 <2>15. NodesDiffer(k)
   BY <2>10, <2>13, <2>14 DEF ModelOK, NodesDiffer
 <2>16. k.parts # <<>>
   BY <2>10, <2>13
 <2>17. CasesOK(k)
   BY <2>8, <2>16 DEF ModelOK, CasesOK
 <2>18. PICK f : f = "parts"
   OBVIOUS
 <2>19. MoreBy(m, k, f, e) /\ RecordOK(k, f, e)
   BY <1>1, <2>5, <2>6, <2>7, <2>8, <2>18 DEF RegisterFields, MoreBy, RecordOK
 <2>20. ModelOK(k) /\ Grows(m, k) /\ IdsOf(k[f]) = IdsOf(m[f]) \cup {e.id}
   BY <2>8, <2>9, <2>15, <2>17, <2>19, OneMoreOK
 <2>21. CallOK(m, Done(k, "part", s.id))
  <3>1. PICK kind : kind = "part"
    OBVIOUS
  <3>2. kind \notin {"wind", "section", "material"}
    BY <3>1
  <3> QED BY <2>20, <3>1, <3>2, CallDone
 <2> QED BY <2>1, <2>2, <2>21
<1>2. CASE ~G
 <2>1. Register(m, s) = Refused(m)
   BY <1>2 DEF Register, Take
 <2> QED BY <2>1, RefusedOK, GrowsNot
<1> QED BY <1>1, <1>2

LEMMA MemberPartOK ==
    ASSUME NEW m, ModelOK(m), NEW s
    PROVE  CallOK(m, MemberPart(m, s))
<1>1. PICK part : part = Register(m, [s EXCEPT !.flaw = "none"])
  OBVIOUS
<1>2. CallOK(m, part)
  BY <1>1, RegisterOK
<1>3. MemberPart(m, s) = IF ~part.ok THEN part ELSE [part EXCEPT !.model.geometry = @ \cup {s.id}]
  BY <1>1 DEF MemberPart
<1>4. ASSUME part.ok PROVE CallOK(m, MemberPart(m, s))
 <2>1. PICK k : k = part.model
   OBVIOUS
 <2>2. PICK n : n = [k EXCEPT !.geometry = @ \cup {s.id}]
   OBVIOUS
 <2>3. PICK call : call = [part EXCEPT !.model = n]
   OBVIOUS
 <2>4. MemberPart(m, s) = call
   BY <1>3, <1>4, <2>1, <2>2, <2>3
 <2>5. DOMAIN k = ModelFields /\ ModelOK(k) /\ Grows(m, k)
   BY <1>2, <2>1 DEF CallOK, ModelOK, IsModel
 <2>6. DOMAIN n = ModelFields /\ \A g \in ModelFields : g # "geometry" => n[g] = k[g]
   BY <2>2, <2>5
 <2>7. /\ \A g \in RegisterFields : n[g] = k[g]
       /\ n.cases = k.cases /\ n.materialIds = k.materialIds /\ n.sectionIds = k.sectionIds
       /\ n.stability = k.stability /\ n.crossSection = k.crossSection
       /\ n.memberStability = k.memberStability /\ n.parts = k.parts
       /\ n.materials = k.materials /\ n.sections = k.sections
   BY <2>6 DEF ModelFields, RegisterFields
 <2>8. NewOptionsOK(k, n) /\ IdsKept(n) /\ CasesOK(n) /\ DOMAIN k.cases \subseteq DOMAIN n.cases
   BY <2>5, <2>7 DEF NewOptionsOK, ModelOK, IdsKept, CasesOK
 <2>9. ModelOK(n) /\ Grows(k, n)
   BY <2>5, <2>6, <2>7, <2>8, SameRecordsOK
 <2>10. Grows(m, n)
   BY <2>5, <2>9, GrowsOn
 <2>11. HandleOK(n, part.handle)
   BY <1>2, <1>4, <2>1, <2>9, HandleStays DEF CallOK
 <2>12. call.model = n /\ call.handle = part.handle /\ call.ok = part.ok
        /\ DOMAIN call = {"ok", "model", "handle"} /\ part.ok \in BOOLEAN
   BY <1>2, <2>3 DEF CallOK
 <2> QED BY <2>4, <2>9, <2>10, <2>11, <2>12 DEF CallOK
<1> QED BY <1>2, <1>3, <1>4

LEMMA AxisOK ==
    ASSUME NEW m, ModelOK(m), NEW component, NEW env, EnvOK(m, env), NEW s, s.length \in Int
    PROVE  CallOK(m, Axis(m, component, env, s))
<1> DEFINE G == /\ \E p \in ToSet(m.parts) : p.id = component /\ p.kind = "member"
                /\ s.axis \notin IdsOf(m.members) /\ s.length > 0 /\ s.flaw = "none"
                /\ Holds(env, s.section, "section") /\ Holds(env, s.material, "material")
           r == [id |-> s.axis, component |-> component, length |-> s.length,
                 section |-> env[s.section].id, material |-> env[s.material].id, sound |-> TRUE]
<1>1. CASE G
 <2>1. PICK e : e = r
   OBVIOUS
 <2>2. PICK n : n = [m EXCEPT !.members = Append(@, e)]
   OBVIOUS
 <2>3. Axis(m, component, env, s) = Done(n, "axis", s.axis)
   BY <1>1, <2>1, <2>2 DEF Axis, Take
 <2>4. DOMAIN m = ModelFields
   BY DEF ModelOK, IsModel
 <2>5. DOMAIN n = ModelFields /\ n.members = Append(m.members, e)
       /\ \A g \in ModelFields : g # "members" => n[g] = m[g]
   BY <2>2, <2>4 DEF ModelFields
 <2>6. e.id = s.axis /\ e.component = component /\ e.length = s.length /\ e.sound
       /\ e.section = env[s.section].id /\ e.material = env[s.material].id
   BY <2>1
 <2>7. n.parts = m.parts /\ n.sections = m.sections /\ n.materials = m.materials
   BY <2>5 DEF ModelFields
 <2>8. e.section \in IdsOf(n.sections) /\ e.material \in IdsOf(n.materials)
   BY <1>1, <2>6, <2>7 DEF Holds, EnvOK, HandleOK
 <2>9. MemberOK(n, e)
   BY <1>1, <2>6, <2>7, <2>8 DEF MemberOK, HasPart
 <2>10. PICK f : f = "members"
   OBVIOUS
 <2>11. AppendedTo(m, n, f, e) /\ RecordOK(n, f, e)
   BY <1>1, <2>5, <2>6, <2>9, <2>10 DEF AppendedTo, RecordOK, RegisterFields
 <2>12. ModelOK(n) /\ Grows(m, n)
   BY <2>10, <2>11, AppendedOK
 <2>13. PICK kind : kind = "axis"
   OBVIOUS
 <2>14. CallOK(m, Done(n, kind, s.axis))
   BY <2>12, <2>13, CallDone
 <2> QED BY <2>3, <2>13, <2>14
<1>2. CASE ~G
 <2>1. Axis(m, component, env, s) = Refused(m)
   BY <1>2 DEF Axis, Take
 <2> QED BY <2>1, RefusedOK, GrowsNot
<1> QED BY <1>1, <1>2

LEMMA MemberAxisOK ==
    ASSUME NEW m, ModelOK(m), NEW env, EnvOK(m, env), NEW s, s.length \in Int
    PROVE  CallOK(m, MemberAxis(m, env, s))
<1>1. CallOK(m, Axis(m, env[s.part].id, env, s)) /\ CallOK(m, Refused(m))
  BY AxisOK, RefusedOK, GrowsNot
<1>2. MemberAxis(m, env, s) = Axis(m, env[s.part].id, env, s) \/ MemberAxis(m, env, s) = Refused(m)
  BY DEF MemberAxis, Take
<1> QED BY <1>1, <1>2

\* A call after another one.
LEMMA CallsOK ==
    ASSUME NEW m, NEW n, NEW call, Grows(m, n), CallOK(n, call)
    PROVE  CallOK(m, call)
  BY GrowsOn DEF CallOK

LEMMA MemberFromGeometryOK ==
    ASSUME NEW m, ModelOK(m), NEW env, EnvOK(m, env), NEW s, s.length \in Int
    PROVE  CallOK(m, MemberFromGeometry(m, env, s))
<1>1. PICK part : part = MemberPart(m, s)
  OBVIOUS
<1>2. CallOK(m, part)
  BY <1>1, MemberPartOK
<1>3. PICK axis : axis = Axis(part.model, s.id, env, s)
  OBVIOUS
<1>4. ModelOK(part.model) /\ Grows(m, part.model) /\ EnvOK(part.model, env)
  BY <1>2, EnvStays DEF CallOK
<1>5. CallOK(part.model, axis)
  BY <1>3, <1>4, AxisOK
<1>6. CallOK(m, axis)
  BY <1>4, <1>5, CallsOK
<1>7. PICK call : call = [axis EXCEPT !.handle = part.handle]
  OBVIOUS
<1>8. MemberFromGeometry(m, env, s) = IF ~part.ok THEN part ELSE call
  BY <1>1, <1>3, <1>7 DEF MemberFromGeometry
<1>9. call.model = axis.model /\ call.ok = axis.ok /\ call.handle = part.handle
      /\ DOMAIN call = {"ok", "model", "handle"}
  BY <1>6, <1>7 DEF CallOK
<1>10. ASSUME part.ok PROVE HandleOK(axis.model, part.handle)
 <2>1. HandleOK(part.model, part.handle) /\ Grows(part.model, axis.model)
   BY <1>2, <1>5, <1>10 DEF CallOK
 <2> QED BY <2>1, HandleStays
<1>11. ASSUME part.ok PROVE CallOK(m, call)
  BY <1>6, <1>9, <1>10, <1>11 DEF CallOK
<1> QED BY <1>2, <1>8, <1>11

Keeps == [kind |-> "kept"]
Chains == [kind |-> "chain"]
Follows == [kind |-> "follow"]
Sorts == [kind |-> "sort"]
Groups == [kind |-> "group"]
Joins == [kind |-> "join"]

FoldStep(h, how, done, i) ==
    IF how.kind = "kept" THEN IF \E g \in ToSet(h) : g.member = i.member THEN Append(done, i) ELSE done
    ELSE IF how.kind = "chain"
    THEN IF done = "broken" \/ \A c \in ConnectionOf(h.model, h.env, i) : done \notin {c.from, c.to}
         THEN "broken"
         ELSE OtherEnd(CHOOSE c \in ConnectionOf(h.model, h.env, i) : TRUE, done)
    ELSE IF how.kind = "sort"
    THEN LET next == SelectInSeq(done, LAMBDA d : i.at < d.at)
         IN IF i.member # h.id THEN done
            ELSE IF next = 0 THEN Append(done, i) ELSE InsertAt(done, next, i)
    ELSE IF how.kind = "group"
    THEN IF OnAxis(h, i.at) - Last(done).at <= Close
         THEN [done EXCEPT ![Len(done)].ids = @ \cup {i.id}]
         ELSE Append(done, [at |-> OnAxis(h, i.at), ids |-> {i.id}])
    ELSE IF how.kind = "join" THEN done \o DerivedSegments(h, i)
    ELSE IF i.from = Last(h) /\ i.to \notin done.seen
         THEN [queue |-> Append(done.queue, Append(h, i.to)), seen |-> done.seen \cup {i.to}]
         ELSE done

FoldTo(g, h, how, b, c, n) ==
    g = [T \in SUBSET (1..n) |->
            IF T = {} THEN b ELSE FoldStep(h, how, g[T \ {Max(T)}], c[Max(T)])]

LEMMA FoldMore ==
    ASSUME NEW h, NEW how, NEW b, NEW c, NEW n \in Nat, \E g : FoldTo(g, h, how, b, c, n)
    PROVE  \E g : FoldTo(g, h, how, b, c, n + 1)
<1>1. PICK g : FoldTo(g, h, how, b, c, n)
  OBVIOUS
<1>2. PICK m : m = n + 1
  OBVIOUS
<1>3. PICK f : f = [T \in SUBSET (1..m) |->
                       IF T = {} THEN b
                       ELSE FoldStep(h, how, g[T \ {Max(T)}], c[Max(T)])]
  OBVIOUS
<1>4. ASSUME NEW T \in SUBSET (1..n) PROVE f[T] = g[T]
 <2>1. T \in SUBSET (1..m)
   BY <1>2
 <2>2. g[T] = IF T = {} THEN b ELSE FoldStep(h, how, g[T \ {Max(T)}], c[Max(T)])
   BY <1>1, Zenon DEF FoldTo
 <2> QED BY <1>3, <2>1, <2>2, Zenon
<1>5. ASSUME NEW T \in SUBSET (1..m), T # {} PROVE T \ {Max(T)} \in SUBSET (1..n)
 <2>1. Max(T) \in T /\ \A y \in T : Max(T) >= y
  <3>1. m \in Nat
    BY <1>2
  <3> QED BY <1>5, <3>1, MaxOfPart
 <2>2. ASSUME NEW x \in T \ {Max(T)} PROVE x \in 1..n
  <3>1. PICK y : y = Max(T)
    OBVIOUS
  <3>2. y \in 1..m /\ x \in 1..m /\ y >= x /\ x # y
    BY <2>1, <3>1
  <3> QED BY <1>2, <3>2
 <2> QED BY <2>2
<1>6. ASSUME NEW T \in SUBSET (1..m), T # {} PROVE f[T \ {Max(T)}] = g[T \ {Max(T)}]
  BY <1>4, <1>5, <1>6
<1>7. FoldTo(f, h, how, b, c, m)
  BY <1>3, <1>6, Zenon DEF FoldTo
<1> QED BY <1>2, <1>7

LEMMA SomeFold ==
    ASSUME NEW h, NEW how, NEW b, NEW c
    PROVE  \A n \in Nat : \E g : FoldTo(g, h, how, b, c, n)
<1> DEFINE T == {n \in Nat : \E g : FoldTo(g, h, how, b, c, n)}
<1>1. 0 \in T
 <2>1. PICK g : g = [U \in SUBSET (1..0) |-> b]
   OBVIOUS
 <2>2. \A U \in SUBSET (1..0) : U = {}
   OBVIOUS
 <2>3. FoldTo(g, h, how, b, c, 0)
   BY <2>1, <2>2, Zenon DEF FoldTo
 <2> QED BY <2>3
<1>2. \A n \in Nat : n \in T => n + 1 \in T
  BY FoldMore
<1> HIDE DEF T
<1>3. \A n \in Nat : n \in T
  BY <1>1, <1>2, AllNaturals
<1> QED BY <1>3 DEF T

\* The same, one element after the other.
Folds(f, h, how, b, c, n) ==
    /\ f[0] = b
    /\ \A k \in 0..(n - 1) : f[k + 1] = FoldStep(h, how, f[k], c[k + 1])

Folded(h, how, b, c, n) == (CHOOSE g : FoldTo(g, h, how, b, c, n))[1..n]

LEMMA FoldSteps ==
    ASSUME NEW h, NEW how, NEW b, NEW c, NEW n \in Nat
    PROVE  \E f : Folds(f, h, how, b, c, n) /\ Folded(h, how, b, c, n) = f[n]
<1>0. PICK g : g = CHOOSE x : FoldTo(x, h, how, b, c, n)
  OBVIOUS
<1>1. FoldTo(g, h, how, b, c, n)
  BY <1>0, SomeFold
<1>2. PICK f : f = [k \in 0..n |-> g[1..k]]
  OBVIOUS
<1>3. ASSUME NEW T \in SUBSET (1..n)
      PROVE  g[T] = IF T = {} THEN b ELSE FoldStep(h, how, g[T \ {Max(T)}], c[Max(T)])
  BY <1>1, Zenon DEF FoldTo
<1>4. f[0] = b
 <2>1. 1..0 = {} /\ 0 \in 0..n
   OBVIOUS
 <2> QED BY <1>2, <1>3, <2>1
<1>5. ASSUME NEW k \in 0..(n - 1) PROVE f[k + 1] = FoldStep(h, how, f[k], c[k + 1])
 <2>1. PICK m : m = k + 1
   OBVIOUS
 <2>2. m \in Nat \ {0} /\ m - 1 = k /\ m \in 0..n /\ k \in 0..n /\ m <= n
   BY <2>1
 <2>3. Max(1..m) = m /\ (1..m) \ {Max(1..m)} = 1..k
   BY <2>2, MaxOfRange
 <2>4. 1..m \in SUBSET (1..n) /\ 1..m # {}
  <3>1. \A i \in 1..m : i \in 1..n
    BY <2>2
  <3>2. m \in 1..m
    BY <2>2
  <3> QED BY <3>1, <3>2
 <2>5. g[1..m] = FoldStep(h, how, g[1..k], c[m])
   BY <1>3, <2>3, <2>4
 <2> QED BY <1>2, <2>1, <2>2, <2>5
<1>6. f[n] = g[1..n]
  BY <1>2
<1> QED BY <1>0, <1>4, <1>5, <1>6 DEF Folds, Folded


LEMMA KeptFolded ==
    ASSUME NEW candidates, NEW segments, NEW n, DOMAIN candidates = 1..n
    PROVE  CandidatesOf(candidates, segments) = Folded(segments, Keeps, <<>>, candidates, n)
  BY DEF CandidatesOf, FoldLeft, MapThenFoldSet, Folded, FoldTo, FoldStep, Keeps

LEMMA ChainFolded ==
    ASSUME NEW m, NEW env, NEW start, NEW chain, NEW n, DOMAIN chain = 1..n
    PROVE  Anchorage(m, env, start, chain)
              = Folded([model |-> m, env |-> env], Chains, start, chain, n)
  BY DEF Anchorage, FoldLeft, MapThenFoldSet, Folded, FoldTo, FoldStep, Chains

LEMMA FollowFolded ==
    ASSUME NEW d, NEW w, NEW n, DOMAIN d.connections = 1..n
    PROVE  Followed(d, w)
              = Folded(Head(w.queue), Follows, [w EXCEPT !.queue = Tail(@)], d.connections, n)
  BY DEF Followed, FoldLeft, MapThenFoldSet, Folded, FoldTo, FoldStep, Follows

LEMMA PartHandle ==
    ASSUME NEW m, NEW env, EnvOK(m, env), NEW name, PartOf(m, env, name) # {}
    PROVE  env[name] = Handle("part", env[name].id) /\ env[name].id \in IdsOf(m.parts)
<1>1. Holds(env, name, "part") /\ \E p \in ToSet(m.parts) : p.id = env[name].id
  BY DEF PartOf
<1>2. env[name].kind = "part" /\ HandleOK(m, env[name])
  BY <1>1 DEF Holds, EnvOK
<1> QED BY <1>1, <1>2 DEF HandleOK, IdsOf

LEMMA ConnectPartsOK ==
    ASSUME NEW m, ModelOK(m), NEW env, EnvOK(m, env), NEW s
    PROVE  CallOK(m, ConnectParts(m, env, s))
<1> DEFINE via == [i \in DOMAIN s.via |-> env[s.via[i]].id]
           G == /\ PartOf(m, env, s.from) # {} /\ PartOf(m, env, s.to) # {}
                /\ env[s.from] # env[s.to] /\ s.id \notin IdsOf(m.connections)
                /\ \A i \in DOMAIN s.via : IsPart(m, env, s.via[i], {"connector"})
                /\ AllDiffer([i \in DOMAIN s.via |-> env[s.via[i]].id]) /\ s.flaw = "none"
           r == [id |-> s.id, from |-> env[s.from].id, to |-> env[s.to].id, via |-> via]
<1>1. CASE G
 <2>1. PICK e : e = r
   OBVIOUS
 <2>2. PICK n : n = [m EXCEPT !.connections = Append(@, e)]
   OBVIOUS
 <2>3. ConnectParts(m, env, s) = Done(n, "connection", s.id)
   BY <1>1, <2>1, <2>2 DEF ConnectParts, Take
 <2>4. DOMAIN m = ModelFields
   BY DEF ModelOK, IsModel
 <2>5. DOMAIN n = ModelFields /\ n.connections = Append(m.connections, e)
       /\ \A g \in ModelFields : g # "connections" => n[g] = m[g]
   BY <2>2, <2>4 DEF ModelFields
 <2>6. e.id = s.id /\ e.from = env[s.from].id /\ e.to = env[s.to].id /\ e.via = via
   BY <2>1
 <2>7. n.parts = m.parts
   BY <2>5 DEF ModelFields
 <2>8. ASSUME NEW v \in ToSet(via) PROVE HasPart(m, v, "connector")
  <3>1. PICK i \in DOMAIN s.via : v = env[s.via[i]].id
    BY DEF ToSet
  <3>2. IsPart(m, env, s.via[i], {"connector"})
    BY <1>1
  <3> QED BY <3>1, <3>2 DEF IsPart, PartOf, HasPart
 <2>9. e.from \in IdsOf(m.parts) /\ e.to \in IdsOf(m.parts) /\ e.from # e.to
  <3>1. PICK x, y : x = s.from /\ y = s.to
    OBVIOUS
  <3>2. /\ env[x] = Handle("part", env[x].id) /\ env[x].id \in IdsOf(m.parts)
        /\ env[y] = Handle("part", env[y].id) /\ env[y].id \in IdsOf(m.parts)
    BY <1>1, <3>1, PartHandle
  <3>3. env[x] # env[y]
    BY <1>1, <3>1
  <3> QED BY <2>6, <3>1, <3>2, <3>3
 <2>10. ConnectionOK(n, e)
   BY <2>6, <2>7, <2>8, <2>9 DEF ConnectionOK, HasPart
 <2>11. PICK f : f = "connections"
   OBVIOUS
 <2>12. AppendedTo(m, n, f, e) /\ RecordOK(n, f, e)
   BY <1>1, <2>5, <2>6, <2>10, <2>11 DEF AppendedTo, RecordOK, RegisterFields
 <2>13. ModelOK(n) /\ Grows(m, n)
   BY <2>11, <2>12, AppendedOK
 <2>14. PICK kind : kind = "connection"
   OBVIOUS
 <2>15. CallOK(m, Done(n, kind, s.id))
   BY <2>13, <2>14, CallDone
 <2> QED BY <2>3, <2>14, <2>15
<1>2. CASE ~G
 <2>1. ConnectParts(m, env, s) = Refused(m)
   BY <1>2 DEF ConnectParts, Take
 <2> QED BY <2>1, RefusedOK, GrowsNot
<1> QED BY <1>1, <1>2

LEMMA EnvPut ==
    ASSUME NEW m, NEW env, EnvOK(m, env), NEW x, NEW h, HandleOK(m, h)
    PROVE  EnvOK(m, Put(env, x, h))
  BY DEF EnvOK, Put

LEMMA JointFromGeometryOK ==
    ASSUME NEW m, ModelOK(m), NEW env, EnvOK(m, env), NEW s
    PROVE  CallOK(m, JointFromGeometry(m, env, s))
<1>1. PICK part : part = Register(m, [s EXCEPT !.flaw = "none"])
  OBVIOUS
<1>2. CallOK(m, part)
  BY <1>1, RegisterOK
<1>3. PICK n, known, t : /\ n = part.model /\ known = Put(env, "joint's connector", part.handle)
                        /\ t = [s EXCEPT !.id = s.connection, !.via = <<"joint's connector">>]
  OBVIOUS
<1>4. \/ JointFromGeometry(m, env, s) = Refused(m)
      \/ JointFromGeometry(m, env, s) = Refused(n)
      \/ part.ok /\ JointFromGeometry(m, env, s) = ConnectParts(n, known, t)
  BY <1>1, <1>3 DEF JointFromGeometry
<1>5. ModelOK(n) /\ Grows(m, n)
  BY <1>2, <1>3 DEF CallOK
<1>6. CallOK(m, Refused(m)) /\ CallOK(m, Refused(n))
  BY <1>5, RefusedOK, GrowsNot
<1>7. ASSUME part.ok PROVE CallOK(m, ConnectParts(n, known, t))
 <2>1. HandleOK(n, part.handle) /\ EnvOK(n, env)
   BY <1>2, <1>3, <1>5, <1>7, EnvStays DEF CallOK
 <2>2. EnvOK(n, known)
   BY <1>3, <2>1, EnvPut
 <2>3. CallOK(n, ConnectParts(n, known, t))
   BY <1>5, <2>2, ConnectPartsOK
 <2> QED BY <1>5, <2>3, CallsOK
<1> QED BY <1>4, <1>6, <1>7

LEMMA AddRestraintOK ==
    ASSUME NEW m, ModelOK(m), NEW c, CandidateOK(m, c)
    PROVE  CallOK(m, AddRestraint(m, c))
<1>1. CASE c.id \notin IdsOf(m.candidates)
 <2>1. PICK n : n = [m EXCEPT !.candidates = Append(@, c)]
   OBVIOUS
 <2>2. AddRestraint(m, c) = Done(n, "none", "none")
   BY <1>1, <2>1 DEF AddRestraint, Take
 <2>3. DOMAIN m = ModelFields
   BY DEF ModelOK, IsModel
 <2>4. DOMAIN n = ModelFields /\ n.candidates = Append(m.candidates, c)
       /\ \A g \in ModelFields : g # "candidates" => n[g] = m[g]
   BY <2>1, <2>3 DEF ModelFields
 <2>5. n.parts = m.parts /\ n.members = m.members /\ n.connections = m.connections
   BY <2>4 DEF ModelFields
 <2>6. CandidateOK(n, c)
   BY <2>5 DEF CandidateOK, Grounded
 <2>7. PICK f : f = "candidates"
   OBVIOUS
 <2>8. AppendedTo(m, n, f, c) /\ RecordOK(n, f, c)
   BY <1>1, <2>4, <2>6, <2>7 DEF AppendedTo, RecordOK, RegisterFields
 <2>9. ModelOK(n) /\ Grows(m, n)
   BY <2>7, <2>8, AppendedOK
 <2>10. PICK kind, id : kind = "none" /\ id = "none"
   OBVIOUS
 <2>11. CallOK(m, Done(n, kind, id))
   BY <2>9, <2>10, CallDone
 <2> QED BY <2>2, <2>10, <2>11
<1>2. CASE c.id \in IdsOf(m.candidates)
 <2>1. AddRestraint(m, c) = Refused(m)
   BY <1>2 DEF AddRestraint, Take
 <2> QED BY <2>1, RefusedOK, GrowsNot
<1> QED BY <1>1, <1>2

\* An axis that a handle stands for.
LEMMA AxisIs ==
    ASSUME NEW m, ModelOK(m), NEW env, NEW name, AxisOf(m, env, name) # {}
    PROVE  /\ TheAxis(m, env, name) \in ToSet(m.members)
           /\ MemberOK(m, TheAxis(m, env, name))
           /\ TheAxis(m, env, name).id \in IdsOf(m.members)
           /\ Named(m.members, TheAxis(m, env, name).id) = TheAxis(m, env, name)
<1>1. PICK x : x = TheAxis(m, env, name)
  OBVIOUS
<1>2. x \in AxisOf(m, env, name)
  BY <1>1 DEF TheAxis
<1>3. AxisOf(m, env, name) \subseteq ToSet(m.members)
  BY DEF AxisOf
<1>4. x \in ToSet(m.members) /\ MemberOK(m, x) /\ x.id \in IdsOf(m.members)
  BY <1>2, <1>3 DEF ModelOK, RecordsOK, IdsOf
<1>5. PICK l : l = m.members
  OBVIOUS
<1>6. IsRegister(l)
  BY <1>5, FieldsAre DEF ModelOK
<1>7. Named(l, x.id) \in ToSet(l) /\ Named(l, x.id).id = x.id
  BY <1>4, <1>5, <1>6, NamedIs
<1>8. Named(l, x.id) = x
  BY <1>4, <1>5, <1>6, <1>7, RegisterIds
<1> QED BY <1>1, <1>4, <1>5, <1>8

LEMMA OnAxisIs ==
    ASSUME NEW axis, axis.length \in Int, axis.length > 0, NEW x \in Int
    PROVE  OnAxis(axis, x) \in 0..axis.length
  BY DEF OnAxis

LEMMA JointIs ==
    ASSUME NEW m, ModelOK(m), NEW env, NEW name, ConnectionOf(m, env, name) # {}
    PROVE  LET joint == CHOOSE c \in ConnectionOf(m, env, name) : TRUE
           IN  /\ joint \in ConnectionOf(m, env, name)
               /\ joint.id \in IdsOf(m.connections)
               /\ joint.from \in IdsOf(m.parts) /\ joint.to \in IdsOf(m.parts)
<1>1. PICK j : j = CHOOSE c \in ConnectionOf(m, env, name) : TRUE
  OBVIOUS
<1>2. j \in ConnectionOf(m, env, name)
  BY <1>1
<1>3. j \in ToSet(m.connections)
  BY <1>2 DEF ConnectionOf
<1>4. ConnectionOK(m, j) /\ j.id \in IdsOf(m.connections)
  BY <1>3 DEF ModelOK, RecordsOK, IdsOf
<1> QED BY <1>1, <1>2, <1>4 DEF ConnectionOK

\* A chain of connections ends at a part.
LEMMA AnchorageIs ==
    ASSUME NEW m, ModelOK(m), NEW env, NEW start \in IdsOf(m.parts), NEW chain \in Seq(STRING)
    PROVE  Anchorage(m, env, start, chain) \in IdsOf(m.parts) \cup {"broken"}
<1>1. PICK n \in Nat : n = Len(chain) /\ DOMAIN chain = 1..n
  OBVIOUS
<1>2. PICK h : h = [model |-> m, env |-> env]
  OBVIOUS
<1>3. PICK how : how = Chains
  OBVIOUS
<1>4. PICK f : Folds(f, h, how, start, chain, n) /\ Folded(h, how, start, chain, n) = f[n]
  BY FoldSteps
<1>5. h.model = m /\ h.env = env /\ how.kind = "chain"
  BY <1>2, <1>3 DEF Chains
<1>6. PICK S : S = IdsOf(m.parts) \cup {"broken"}
  OBVIOUS
<1> DEFINE T == {k \in Nat : k <= n => f[k] \in S}
<1>7. 0 \in T
  BY <1>4, <1>6 DEF Folds
<1>8. ASSUME NEW k \in Nat, k \in T PROVE k + 1 \in T
 <2>1. SUFFICES ASSUME k + 1 <= n PROVE f[k + 1] \in S
   OBVIOUS
 <2>2. f[k] \in S /\ k \in 0..(n - 1)
   BY <1>8, <2>1
 <2>3. f[k + 1] = FoldStep(h, how, f[k], chain[k + 1])
   BY <1>4, <2>2 DEF Folds
 <2>4. PICK at, i : at = f[k] /\ i = chain[k + 1]
   OBVIOUS
 <2>5. FoldStep(h, how, at, i)
          = IF at = "broken" \/ \A c \in ConnectionOf(m, env, i) : at \notin {c.from, c.to}
            THEN "broken"
            ELSE OtherEnd(CHOOSE c \in ConnectionOf(m, env, i) : TRUE, at)
   BY <1>5 DEF FoldStep
 <2>6. CASE at = "broken" \/ \A c \in ConnectionOf(m, env, i) : at \notin {c.from, c.to}
   BY <1>6, <2>3, <2>4, <2>5, <2>6
 <2>7. CASE ~(at = "broken" \/ \A c \in ConnectionOf(m, env, i) : at \notin {c.from, c.to})
  <3>1. PICK j : j = CHOOSE c \in ConnectionOf(m, env, i) : TRUE
    OBVIOUS
  <3>2. j.from \in IdsOf(m.parts) /\ j.to \in IdsOf(m.parts)
    BY <2>7, <3>1, JointIs
  <3>3. f[k + 1] = OtherEnd(j, at)
    BY <2>3, <2>4, <2>5, <2>7, <3>1
  <3> QED BY <1>6, <3>2, <3>3 DEF OtherEnd
 <2> QED BY <2>6, <2>7
<1> HIDE DEF T
<1>9. \A k \in Nat : k \in T
  BY <1>7, <1>8, AllNaturals
<1>10. f[n] \in S
  BY <1>9 DEF T
<1> QED BY <1>1, <1>2, <1>3, <1>4, <1>6, <1>10, ChainFolded

LEMMA RestraintOK ==
    ASSUME NEW m, ModelOK(m), NEW env, EnvOK(m, env), NEW s, s.at \in Int, s.anchorage \in Seq(STRING)
    PROVE  CallOK(m, RestraintFromConnection(m, env, s))
<1> DEFINE axis == TheAxis(m, env, s.part)
           brace == env[s.brace].id
           joint == CHOOSE c \in ConnectionOf(m, env, s.connection) : TRUE
           id == IF s.id = "" THEN <<"restraint", joint.id, "">> ELSE <<s.id, "", "">>
           end == Anchorage(m, env, brace, s.anchorage)
           c == [id |-> id, member |-> axis.id, brace |-> brace, connection |-> joint.id,
                 at |-> OnAxis(axis, s.at), ground |-> IF Grounded(m, end) THEN end ELSE "none"]
           G == /\ AxisOf(m, env, s.part) # {} /\ IsPart(m, env, s.brace, {"member"})
                /\ ConnectionOf(m, env, s.connection) # {}
                /\ {joint.from, joint.to} = {axis.component, brace} /\ brace \in m.geometry
                /\ end # "broken" /\ (s.anchored => Grounded(m, end)) /\ s.flaw = "none"
<1>1. RestraintFromConnection(m, env, s) = IF G THEN AddRestraint(m, c) ELSE Refused(m)
  BY DEF RestraintFromConnection, Take
<1>2. ASSUME G PROVE CandidateOK(m, c)
 <2>1. PICK x, j, b, e : x = axis /\ j = joint /\ b = brace /\ e = end
   OBVIOUS
 <2>2. MemberOK(m, x) /\ x.id \in IdsOf(m.members) /\ Named(m.members, x.id) = x
   BY <1>2, <2>1, AxisIs
 <2>3. j.id \in IdsOf(m.connections) /\ j.from \in IdsOf(m.parts) /\ j.to \in IdsOf(m.parts)
   BY <1>2, <2>1, JointIs
 <2>4. b \in IdsOf(m.parts)
  <3>1. b \in {j.from, j.to}
    BY <1>2, <2>1
  <3> QED BY <2>3, <3>1
 <2>5. e \in IdsOf(m.parts)
  <3>1. e \in IdsOf(m.parts) \cup {"broken"}
    BY <2>1, <2>4, AnchorageIs
  <3>2. e # "broken"
    BY <1>2, <2>1
  <3> QED BY <3>1, <3>2
 <2>6. OnAxis(x, s.at) \in 0..x.length
   BY <2>2, OnAxisIs DEF MemberOK
 <2>7. PICK r : r = c
  <3> HIDE DEF c
  <3> QED OBVIOUS
 <2>8. r.member = x.id /\ r.brace = b /\ r.connection = j.id /\ r.at = OnAxis(x, s.at)
       /\ r.ground = IF Grounded(m, e) THEN e ELSE "none"
   BY <2>1, <2>7
 <2>9. CandidateOK(m, r)
   BY <2>2, <2>3, <2>4, <2>5, <2>6, <2>8 DEF CandidateOK
 <2> QED BY <2>7, <2>9
<1> HIDE DEF c, G
<1>3. CallOK(m, Refused(m))
  BY RefusedOK, GrowsNot
<1>4. ASSUME G PROVE CallOK(m, AddRestraint(m, c))
  BY <1>2, <1>4, AddRestraintOK
<1> QED BY <1>1, <1>3, <1>4

LEMMA BoundaryOK ==
    ASSUME NEW m, ModelOK(m), NEW env, EnvOK(m, env), NEW s
    PROVE  CallOK(m, BoundaryRestraint(m, env, s))
<1> DEFINE axis == TheAxis(m, env, s.part)
           joint == CHOOSE c \in ConnectionOf(m, env, s.connection) : TRUE
           id == <<"restraint", joint.id, axis.id>>
           c == [id |-> id, member |-> axis.id, brace |-> OtherEnd(joint, axis.component),
                 connection |-> joint.id, at |-> IF s.atEnd THEN axis.length ELSE 0,
                 ground |-> "none"]
           G == /\ AxisOf(m, env, s.part) # {} /\ ConnectionOf(m, env, s.connection) # {}
                /\ axis.component \in {joint.from, joint.to} /\ s.flaw = "none"
<1>1. BoundaryRestraint(m, env, s) = IF G THEN AddRestraint(m, c) ELSE Refused(m)
  BY DEF BoundaryRestraint, Take
<1>2. ASSUME G PROVE CandidateOK(m, c)
 <2>1. PICK x, j : x = axis /\ j = joint
   OBVIOUS
 <2>2. MemberOK(m, x) /\ x.id \in IdsOf(m.members) /\ Named(m.members, x.id) = x
   BY <1>2, <2>1, AxisIs
 <2>3. j.id \in IdsOf(m.connections) /\ j.from \in IdsOf(m.parts) /\ j.to \in IdsOf(m.parts)
   BY <1>2, <2>1, JointIs
 <2>4. OtherEnd(j, x.component) \in IdsOf(m.parts)
   BY <2>3 DEF OtherEnd
 <2>5. x.length \in Int /\ x.length > 0
   BY <2>2 DEF MemberOK
 <2>6. PICK r : r = c
   OBVIOUS
 <2>7. r.member = x.id /\ r.brace = OtherEnd(j, x.component) /\ r.connection = j.id
       /\ r.at = (IF s.atEnd THEN x.length ELSE 0) /\ r.ground = "none"
   BY <2>1, <2>6
 <2>8. r.at \in 0..x.length
   BY <2>5, <2>7
 <2>9. CandidateOK(m, r)
   BY <2>2, <2>3, <2>4, <2>7, <2>8 DEF CandidateOK
 <2> QED BY <2>6, <2>9
<1> HIDE DEF c, G
<1>3. CallOK(m, Refused(m))
  BY RefusedOK, GrowsNot
<1>4. ASSUME G PROVE CallOK(m, AddRestraint(m, c))
  BY <1>2, <1>4, AddRestraintOK
<1> QED BY <1>1, <1>3, <1>4

LEMMA OptionsOnly ==
    ASSUME NEW m, ModelOK(m), NEW n, DOMAIN n = ModelFields,
           \A g \in ModelFields \ {"basis", "stability", "crossSection", "memberStability", "assembled"} :
               n[g] = m[g],
           NewOptionsOK(m, n)
    PROVE  ModelOK(n) /\ Grows(m, n)
<1>1. /\ \A g \in RegisterFields : n[g] = m[g]
      /\ n.cases = m.cases /\ n.materialIds = m.materialIds /\ n.sectionIds = m.sectionIds
      /\ n.parts = m.parts /\ n.materials = m.materials /\ n.sections = m.sections
  BY DEF ModelFields, RegisterFields
<1>2. IdsKept(n) /\ CasesOK(n) /\ DOMAIN m.cases \subseteq DOMAIN n.cases
  BY <1>1 DEF ModelOK, IdsKept, CasesOK
<1> QED BY <1>1, <1>2, SameRecordsOK

LEMMA OnlyOne == ASSUME NEW v PROVE ToSet(<<v>>) = {v}
  BY DEF ToSet

LEMMA StabilityOK ==
    ASSUME NEW m, ModelOK(m), NEW s
    PROVE  CallOK(m, Stability(m, s))
<1> DEFINE G == m.stability = <<>> /\ s.flaw = "none"
                /\ AllDiffer([i \in DOMAIN s.directions |-> s.directions[i].id])
<1>1. CASE G
 <2>1. PICK v : v = [combo |-> s.combo, case |-> s.case, directions |-> s.directions,
                     members |-> s.named, sound |-> TRUE]
   OBVIOUS
 <2>2. PICK n : n = [m EXCEPT !.stability = <<v>>]
   OBVIOUS
 <2>3. Stability(m, s) = Done(n, "none", "none")
   BY <1>1, <2>1, <2>2 DEF Stability, Take
 <2>4. DOMAIN n = ModelFields /\ n.stability = <<v>>
       /\ \A g \in ModelFields : g # "stability" => n[g] = m[g]
   BY <2>2 DEF ModelFields, ModelOK, IsModel
 <2>5. NewOptionsOK(m, n)
   BY <2>1, <2>4, OnlyOne DEF ModelFields, NewOptionsOK
 <2>6. ModelOK(n) /\ Grows(m, n)
   BY <2>4, <2>5, OptionsOnly
 <2>7. PICK kind, id : kind = "none" /\ id = "none"
   OBVIOUS
 <2>8. CallOK(m, Done(n, kind, id))
   BY <2>6, <2>7, CallDone
 <2> QED BY <2>3, <2>7, <2>8
<1>2. CASE ~G
 <2>1. Stability(m, s) = Refused(m)
   BY <1>2 DEF Stability, Take
 <2> QED BY <2>1, RefusedOK, GrowsNot
<1> QED BY <1>1, <1>2

\* Different axes have different ids.
LEMMA AxesIds ==
    ASSUME NEW m, ModelOK(m), NEW n \in Nat, NEW axes, DOMAIN axes = 1..n,
           axes = [i \in 1..n |-> axes[i]], AllDiffer(axes),
           \A i \in 1..n : axes[i] \in ToSet(m.members),
           NEW ids, ids = [i \in DOMAIN axes |-> axes[i].id]
    PROVE  AllDiffer(ids) /\ ToSet(ids) \subseteq IdsOf(m.members)
<1>2. DOMAIN ids = 1..n /\ ids = [i \in 1..n |-> ids[i]] /\ \A i \in 1..n : ids[i] = axes[i].id
  OBVIOUS
<1>3. IsList(axes)
  BY ListOver
<1>4. IsList(ids)
  BY <1>2, ListOver
<1>5. \A i, j \in DOMAIN axes : axes[i] = axes[j] => i = j
  BY <1>3, DifferentPlaces
<1>6. PICK l : l = m.members
  OBVIOUS
<1>7. IsRegister(l)
  BY <1>6, FieldsAre DEF ModelOK
<1>8. \A a, b \in ToSet(l) : a.id = b.id => a = b
  BY <1>7, RegisterIds
<1>9. \A i, j \in DOMAIN ids : ids[i] = ids[j] => i = j
  BY <1>2, <1>5, <1>6, <1>8
<1>10. AllDiffer(ids)
  BY <1>4, <1>9, DifferentPlaces
<1>11. ToSet(ids) \subseteq IdsOf(m.members)
  BY <1>2 DEF ToSet, IdsOf
<1> QED BY <1>10, <1>11

LEMMA CrossSectionOK ==
    ASSUME NEW m, ModelOK(m), NEW env, NEW s, s.members \in Seq(STRING)
    PROVE  CallOK(m, CrossSection(m, env, s))
<1> DEFINE axes == [i \in DOMAIN s.members |-> TheAxis(m, env, s.members[i])]
           G == /\ m.crossSection = <<>> /\ s.flaw = "none"
                /\ s.combos # <<>> /\ AllDiffer(s.combos)
                /\ \A i \in DOMAIN s.members : AxisOf(m, env, s.members[i]) # {}
                /\ AllDiffer(axes)
<1>1. CASE G
 <2>1. PICK x : x = axes
   OBVIOUS
 <2>2. PICK ids : ids = [i \in DOMAIN x |-> x[i].id]
   OBVIOUS
 <2>3. PICK v : v = [combos |-> s.combos, members |-> ids, sound |-> TRUE]
   OBVIOUS
 <2>4. PICK n : n = [m EXCEPT !.crossSection = <<v>>]
   OBVIOUS
 <2>5. CrossSection(m, env, s) = Done(n, "none", "none")
   BY <1>1, <2>1, <2>2, <2>3, <2>4 DEF CrossSection, Take
 <2>6. DOMAIN n = ModelFields /\ n.crossSection = <<v>>
       /\ \A g \in ModelFields : g # "crossSection" => n[g] = m[g]
   BY <2>4 DEF ModelFields, ModelOK, IsModel
 <2>7. PICK l \in Nat : DOMAIN s.members = 1..l
   OBVIOUS
 <2>8. DOMAIN x = 1..l /\ x = [i \in 1..l |-> x[i]]
   BY <2>1, <2>7
 <2>9. \A i \in 1..l : x[i] \in ToSet(m.members)
   BY <1>1, <2>1, <2>7, AxisIs
 <2>10. AllDiffer(ids) /\ ToSet(ids) \subseteq IdsOf(m.members)
  <3>1. AllDiffer(x)
    BY <1>1, <2>1
  <3> HIDE DEF G, axes
  <3> QED BY <2>2, <2>8, <2>9, <3>1, AxesIds
 <2>11. v.sound /\ v.combos = s.combos /\ v.members = ids /\ n.members = m.members
   BY <2>3, <2>6 DEF ModelFields
 <2>12. CrossOK(n, v)
   BY <1>1, <2>10, <2>11 DEF CrossOK
 <2>13. NewOptionsOK(m, n)
   BY <2>6, <2>12, OnlyOne DEF ModelFields, NewOptionsOK
 <2>14. ModelOK(n) /\ Grows(m, n)
   BY <2>6, <2>13, OptionsOnly
 <2>15. PICK kind, id : kind = "none" /\ id = "none"
   OBVIOUS
 <2>16. CallOK(m, Done(n, kind, id))
   BY <2>14, <2>15, CallDone
 <2> QED BY <2>5, <2>15, <2>16
<1>2. CASE ~G
 <2>1. CrossSection(m, env, s) = Refused(m)
   BY <1>2 DEF CrossSection, Take
 <2> QED BY <2>1, RefusedOK, GrowsNot
<1> QED BY <1>1, <1>2

\* The candidates that are kept are some of a register's, each once.
LEMMA KeptIs ==
    ASSUME NEW x, IsRegister(x), NEW segments
    PROVE  /\ IsRegister(CandidatesOf(x, segments))
           /\ ToSet(CandidatesOf(x, segments)) \subseteq ToSet(x)
<1>1. PICK n \in Nat : n = Len(x) /\ DOMAIN x = 1..n
  BY LengthOfList DEF IsRegister
<1>2. PICK how : how = Keeps
  OBVIOUS
<1>3. PICK b : b = <<>>
  OBVIOUS
<1>4. PICK f : Folds(f, segments, how, b, x, n) /\ Folded(segments, how, b, x, n) = f[n]
  BY FoldSteps
<1>5. how.kind = "kept"
  BY <1>2 DEF Keeps
<1> DEFINE T == {k \in Nat : k <= n =>
                    /\ IsRegister(f[k])
                    /\ \A c \in ToSet(f[k]) : \E i \in 1..k : c = x[i]}
<1>6. 0 \in T
 <2>1. f[0] = b
   BY <1>4 DEF Folds
 <2> QED BY <1>3, <2>1, EmptyRegister
<1>7. ASSUME NEW k \in Nat, k \in T PROVE k + 1 \in T
 <2>1. SUFFICES ASSUME k + 1 <= n
                PROVE  /\ IsRegister(f[k + 1])
                       /\ \A c \in ToSet(f[k + 1]) : \E i \in 1..(k + 1) : c = x[i]
   OBVIOUS
 <2>2. /\ IsRegister(f[k]) /\ k \in 0..(n - 1) /\ k + 1 \in 1..n
       /\ \A c \in ToSet(f[k]) : \E i \in 1..k : c = x[i]
   BY <1>7, <2>1
 <2>3. f[k + 1] = FoldStep(segments, how, f[k], x[k + 1])
   BY <1>4, <2>2 DEF Folds
 <2>4. PICK l, d, p : l = f[k] /\ d = x[k + 1] /\ p = k + 1
   OBVIOUS
 <2>5. f[p] = IF \E g \in ToSet(segments) : g.member = d.member THEN Append(l, d) ELSE l
   BY <1>5, <2>3, <2>4 DEF FoldStep
 <2>6. CASE \E g \in ToSet(segments) : g.member = d.member
  <3>1. d.id \notin IdsOf(l)
   <4>1. SUFFICES ASSUME NEW c \in ToSet(l), c.id = d.id PROVE FALSE
     BY DEF IdsOf
   <4>2. PICK i \in 1..k : c = x[i]
     BY <2>2, <2>4, <4>1
   <4>3. i \in DOMAIN x /\ p \in DOMAIN x /\ i # p
     BY <1>1, <2>2, <2>4, <4>2
   <4> QED BY <2>4, <4>1, <4>2, <4>3 DEF IsRegister
  <3>2. IsRegister(Append(l, d)) /\ ToSet(Append(l, d)) = ToSet(l) \cup {d}
    BY <2>2, <2>4, <3>1, Registered
  <3>3. ASSUME NEW c \in ToSet(l) \cup {d} PROVE \E i \in 1..p : c = x[i]
   <4>1. CASE c = d
     BY <2>2, <2>4, <4>1
   <4>2. CASE c \in ToSet(l)
    <5>1. PICK i \in 1..k : c = x[i]
      BY <2>2, <2>4, <4>2
    <5> QED BY <2>4, <5>1
   <4> QED BY <4>1, <4>2
  <3> QED BY <2>4, <2>5, <2>6, <3>2, <3>3
 <2>7. CASE ~(\E g \in ToSet(segments) : g.member = d.member)
  <3>1. f[p] = l
    BY <2>5, <2>7
  <3>2. ASSUME NEW c \in ToSet(l) PROVE \E i \in 1..p : c = x[i]
   <4>1. PICK i \in 1..k : c = x[i]
     BY <2>2, <2>4
   <4> QED BY <2>4, <4>1
  <3> QED BY <2>2, <2>4, <3>1, <3>2
 <2> QED BY <2>6, <2>7
<1> HIDE DEF T
<1>8. \A k \in Nat : k \in T
  BY <1>6, <1>7, AllNaturals
<1>9. IsRegister(f[n]) /\ \A c \in ToSet(f[n]) : \E i \in 1..n : c = x[i]
  BY <1>8 DEF T
<1>10. ToSet(f[n]) \subseteq ToSet(x)
  BY <1>1, <1>9 DEF ToSet
<1>11. CandidatesOf(x, segments) = f[n]
  BY <1>1, <1>2, <1>3, <1>4, KeptFolded
<1> QED BY <1>9, <1>10, <1>11

LEMMA MemberStabilityOK ==
    ASSUME NEW m, ModelOK(m), NEW env, NEW s
    PROVE  CallOK(m, MemberStability(m, env, s))
<1> DEFINE axes == [i \in DOMAIN s.members |-> TheAxis(m, env, s.members[i])]
           segments == IF s.segments # <<>> THEN s.segments
                       ELSE AllSegments(m, axes)
           G == /\ m.memberStability = <<>> /\ s.flaw = "none"
                /\ s.combos # <<>> /\ AllDiffer(s.combos)
                /\ (s.segments = <<>>) # (s.members = <<>>)
                /\ \A i \in DOMAIN s.members : AxisOf(m, env, s.members[i]) # {}
                /\ AllDiffer(axes) /\ segments # <<>>
                /\ AllDiffer([i \in DOMAIN segments |-> segments[i].id])
                /\ \A g \in ToSet(segments) : SegmentIsOf(m, g)
           v == [combos |-> s.combos, segments |-> segments, sound |-> TRUE,
                 candidates |-> CandidatesOf(m.candidates, segments)]
           n == [m EXCEPT !.memberStability = <<v>>]
<1>1. MemberStability(m, env, s) = IF G THEN Done(n, "none", "none") ELSE Refused(m)
  BY DEF MemberStability, Take
<1>2. G => /\ m.memberStability = <<>> /\ s.combos # <<>>
           /\ AllDiffer([i \in DOMAIN segments |-> segments[i].id])
           /\ \A g \in ToSet(segments) : SegmentIsOf(m, g)
  OBVIOUS
<1> HIDE DEF G, segments, axes
<1>3. CASE G
 <2>1. PICK w, k : w = v /\ k = n
   OBVIOUS
 <2>2. PICK list : list = m.candidates
   OBVIOUS
 <2>3. w.combos = s.combos /\ w.segments = segments /\ w.sound
       /\ w.candidates = CandidatesOf(list, segments)
   BY <2>1, <2>2
 <2>4. DOMAIN k = ModelFields /\ k.memberStability = <<w>>
       /\ \A g \in ModelFields : g # "memberStability" => k[g] = m[g]
   BY <2>1 DEF ModelFields, ModelOK, IsModel
 <2>5. IsRegister(list)
   BY <2>2, FieldsAre DEF ModelOK
 <2>6. IsRegister(w.candidates) /\ ToSet(w.candidates) \subseteq ToSet(list)
   BY <2>3, <2>5, KeptIs
 <2>7. AllDiffer(IdList(w.candidates))
   BY <2>6, RegisterIds
 <2>8. AllDiffer(IdList(w.segments))
   BY <1>2, <1>3, <2>3 DEF IdList
 <2>9. k.members = m.members /\ k.parts = m.parts /\ k.connections = m.connections
   BY <2>4 DEF ModelFields
 <2>10. ASSUME NEW c \in ToSet(w.candidates) PROVE CandidateOK(k, c)
  <3>1. CandidateOK(m, c)
    BY <2>2, <2>6 DEF ModelOK, RecordsOK
  <3> QED BY <2>9, <3>1 DEF CandidateOK, Grounded
 <2>11. ASSUME NEW g \in ToSet(w.segments) PROVE SegmentOK(k, g)
   BY <1>2, <1>3, <2>3, <2>9 DEF SegmentIsOf, SegmentOK
 <2>12. BucklingOK(k, w)
   BY <1>2, <1>3, <2>3, <2>7, <2>8, <2>10, <2>11 DEF BucklingOK
 <2>13. NewOptionsOK(m, k)
   BY <2>4, <2>12, OnlyOne DEF ModelFields, NewOptionsOK
 <2>14. ModelOK(k) /\ Grows(m, k)
   BY <2>4, <2>13, OptionsOnly
 <2>15. PICK kind, id : kind = "none" /\ id = "none"
   OBVIOUS
 <2>16. CallOK(m, Done(k, kind, id))
   BY <2>14, <2>15, CallDone
 <2> HIDE DEF n, v
 <2> QED BY <1>1, <1>3, <2>1, <2>15, <2>16
<1>4. CASE ~G
  BY <1>1, <1>4, RefusedOK, GrowsNot
<1> QED BY <1>3, <1>4

\* A material or a section more: its id is kept with it.
CatalogueMore(m, n, f, e) ==
    /\ MoreBy(m, n, f, e) /\ SameOptions(m, n) /\ n.cases = m.cases
    /\ \/ /\ f = "materials"
          /\ n.materialIds = m.materialIds \cup {e.id} /\ n.sectionIds = m.sectionIds
       \/ /\ f = "sections" /\ e.sound
          /\ n.sectionIds = m.sectionIds \cup {e.id} /\ n.materialIds = m.materialIds

LEMMA CatalogueOK ==
    ASSUME NEW m, ModelOK(m), NEW n, NEW f, NEW e, CatalogueMore(m, n, f, e)
    PROVE  ModelOK(n) /\ Grows(m, n) /\ IdsOf(n[f]) = IdsOf(m[f]) \cup {e.id}
<1>0. MoreBy(m, n, f, e) /\ SameOptions(m, n)
  BY DEF CatalogueMore
<1>1. IdsOf(n[f]) = IdsOf(m[f]) \cup {e.id}
  BY <1>0, OneMore
<1>2. n.parts = m.parts /\ (f # "materials" => n.materials = m.materials)
      /\ (f # "sections" => n.sections = m.sections)
  BY <1>0 DEF MoreBy, RegisterFields, CatalogueMore
<1>3. IdsKept(n)
 <2>1. CASE f = "materials"
   BY <1>1, <1>2, <2>1 DEF ModelOK, IdsKept, CatalogueMore
 <2>2. CASE f = "sections"
   BY <1>1, <1>2, <2>2 DEF ModelOK, IdsKept, CatalogueMore
 <2> QED BY <2>1, <2>2 DEF CatalogueMore
<1>4. NodesDiffer(n) /\ CasesOK(n)
  BY <1>2 DEF ModelOK, NodesDiffer, CasesOK, CatalogueMore
<1>5. RecordOK(n, f, e)
  BY DEF RecordOK, CatalogueMore
<1> QED BY <1>0, <1>3, <1>4, <1>5, OneMoreOK

\* Only the ids of materials and sections that were ever named.
LEMMA OnlyIdsOK ==
    ASSUME NEW m, ModelOK(m), NEW n, DOMAIN n = ModelFields,
           \A g \in ModelFields \ {"materialIds", "sectionIds"} : n[g] = m[g],
           m.materialIds \subseteq n.materialIds, m.sectionIds \subseteq n.sectionIds
    PROVE  ModelOK(n) /\ Grows(m, n)
<1>1. /\ \A g \in RegisterFields : n[g] = m[g]
      /\ n.cases = m.cases /\ n.parts = m.parts /\ n.materials = m.materials
      /\ n.sections = m.sections /\ n.stability = m.stability /\ n.crossSection = m.crossSection
      /\ n.memberStability = m.memberStability
  BY DEF ModelFields, RegisterFields
<1>2. IdsKept(n) /\ CasesOK(n) /\ NewOptionsOK(m, n)
  BY <1>1 DEF ModelOK, IdsKept, CasesOK, NewOptionsOK
<1> QED BY <1>1, <1>2, SameRecordsOK

LEMMA MaterialOK ==
    ASSUME NEW m, ModelOK(m), NEW s
    PROVE  /\ CallOK(m, Material(m, s))
           /\ Material(m, s).ok => s.id \in IdsOf(Material(m, s).model.materials)
<1>0. DOMAIN m = ModelFields
  BY DEF ModelOK, IsModel
<1>1. PICK kept : kept = [m EXCEPT !.materialIds = @ \cup {s.id}]
  OBVIOUS
<1>2. DOMAIN kept = ModelFields /\ kept.materialIds = m.materialIds \cup {s.id}
      /\ \A g \in ModelFields : g # "materialIds" => kept[g] = m[g]
  BY <1>0, <1>1 DEF ModelFields
<1>3. PICK e : e = [id |-> s.id, of |-> s.of]
  OBVIOUS
<1>4. PICK n : n = [kept EXCEPT !.materials = Append(@, e)]
  OBVIOUS
<1>5. Material(m, s) = IF s.id \in m.materialIds \/ s.flaw = "value" THEN Refused(m)
                       ELSE IF s.flaw = "none" THEN Done(n, "material", s.id) ELSE Refused(kept)
  BY <1>1, <1>3, <1>4 DEF Material, Take
<1>6. CallOK(m, Refused(m)) /\ ~Refused(m).ok /\ ~Refused(kept).ok
  BY RefusedOK, GrowsNot DEF Refused
<1>7. CallOK(m, Refused(kept))
 <2>1. kept.sectionIds = m.sectionIds
       /\ \A g \in ModelFields \ {"materialIds", "sectionIds"} : kept[g] = m[g]
   BY <1>2 DEF ModelFields
 <2>2. ModelOK(kept) /\ Grows(m, kept)
   BY <1>2, <2>1, OnlyIdsOK
 <2> QED BY <2>2, RefusedOK
<1>8. ASSUME s.id \notin m.materialIds
      PROVE  CallOK(m, Done(n, "material", s.id)) /\ s.id \in IdsOf(n.materials)
 <2>1. DOMAIN n = ModelFields /\ n.materials = Append(kept.materials, e)
       /\ \A g \in ModelFields : g # "materials" => n[g] = kept[g]
   BY <1>2, <1>4 DEF ModelFields
 <2>2. n.materials = Append(m.materials, e) /\ n.materialIds = m.materialIds \cup {e.id}
       /\ n.sectionIds = m.sectionIds /\ n.cases = m.cases /\ SameOptions(m, n) /\ e.id = s.id
       /\ \A g \in RegisterFields : g # "materials" => n[g] = m[g]
   BY <1>2, <1>3, <2>1 DEF ModelFields, RegisterFields, SameOptions
 <2>3. e.id \notin IdsOf(m.materials)
   BY <1>8, <2>2 DEF ModelOK, IdsKept
 <2>4. PICK f : f = "materials"
   OBVIOUS
 <2>5. MoreBy(m, n, f, e)
   BY <2>1, <2>2, <2>3, <2>4 DEF MoreBy, RegisterFields
 <2>6. CatalogueMore(m, n, f, e)
   BY <2>2, <2>4, <2>5 DEF CatalogueMore
 <2>7. ModelOK(n) /\ Grows(m, n) /\ IdsOf(n[f]) = IdsOf(m[f]) \cup {e.id}
   BY <2>6, CatalogueOK
 <2>8. s.id \in IdsOf(n.materials)
   BY <2>2, <2>4, <2>7
 <2>9. PICK kind : kind = "material"
   OBVIOUS
 <2>10. CallOK(m, Done(n, kind, s.id))
   BY <2>7, <2>8, <2>9, DoneOK
 <2> QED BY <2>8, <2>9, <2>10
<1>9. Done(n, "material", s.id).model = n
  BY DEF Done
<1>10. PICK call : call = Material(m, s)
  OBVIOUS
<1>11. CallOK(m, call) /\ (call.ok => s.id \in IdsOf(call.model.materials))
 <2>1. CASE s.id \in m.materialIds \/ s.flaw = "value"
   BY <1>5, <1>6, <1>10, <2>1
 <2>2. CASE ~(s.id \in m.materialIds \/ s.flaw = "value") /\ s.flaw = "none"
   BY <1>5, <1>8, <1>9, <1>10, <2>2
 <2>3. CASE ~(s.id \in m.materialIds \/ s.flaw = "value") /\ s.flaw # "none"
   BY <1>5, <1>6, <1>7, <1>10, <2>3
 <2> QED BY <2>1, <2>2, <2>3
<1> QED BY <1>10, <1>11

LEMMA SectionOK ==
    ASSUME NEW m, ModelOK(m), NEW s
    PROVE  CallOK(m, Section(m, s))
<1>0. DOMAIN m = ModelFields
  BY DEF ModelOK, IsModel
<1>1. PICK kept : kept = [m EXCEPT !.sectionIds = @ \cup {s.id}]
  OBVIOUS
<1>2. DOMAIN kept = ModelFields /\ kept.sectionIds = m.sectionIds \cup {s.id}
      /\ \A g \in ModelFields : g # "sectionIds" => kept[g] = m[g]
  BY <1>0, <1>1 DEF ModelFields
<1>3. PICK e : e = [id |-> s.id, of |-> s.of, mass |-> s.mass, sound |-> TRUE]
  OBVIOUS
<1>4. PICK n : n = [kept EXCEPT !.sections = Append(@, e)]
  OBVIOUS
<1>5. Section(m, s) = IF s.id \in m.sectionIds \/ s.flaw = "value" THEN Refused(m)
                       ELSE IF s.flaw = "none" THEN Done(n, "section", s.id) ELSE Refused(kept)
  BY <1>1, <1>3, <1>4 DEF Section, Take
<1>6. CallOK(m, Refused(m))
  BY RefusedOK, GrowsNot
<1>7. CallOK(m, Refused(kept))
 <2>1. kept.materialIds = m.materialIds
       /\ \A g \in ModelFields \ {"materialIds", "sectionIds"} : kept[g] = m[g]
   BY <1>2 DEF ModelFields
 <2>2. ModelOK(kept) /\ Grows(m, kept)
   BY <1>2, <2>1, OnlyIdsOK
 <2> QED BY <2>2, RefusedOK
<1>8. ASSUME s.id \notin m.sectionIds PROVE CallOK(m, Done(n, "section", s.id))
 <2>1. DOMAIN n = ModelFields /\ n.sections = Append(kept.sections, e)
       /\ \A g \in ModelFields : g # "sections" => n[g] = kept[g]
   BY <1>2, <1>4 DEF ModelFields
 <2>2. n.sections = Append(m.sections, e) /\ n.sectionIds = m.sectionIds \cup {e.id}
       /\ n.materialIds = m.materialIds /\ n.cases = m.cases /\ SameOptions(m, n)
       /\ e.id = s.id /\ e.sound
       /\ \A g \in RegisterFields : g # "sections" => n[g] = m[g]
   BY <1>2, <1>3, <2>1 DEF ModelFields, RegisterFields, SameOptions
 <2>3. e.id \notin IdsOf(m.sections)
   BY <1>8, <2>2 DEF ModelOK, IdsKept
 <2>4. PICK f : f = "sections"
   OBVIOUS
 <2>5. MoreBy(m, n, f, e)
   BY <2>1, <2>2, <2>3, <2>4 DEF MoreBy, RegisterFields
 <2>6. CatalogueMore(m, n, f, e)
   BY <2>2, <2>4, <2>5 DEF CatalogueMore
 <2>7. ModelOK(n) /\ Grows(m, n) /\ IdsOf(n[f]) = IdsOf(m[f]) \cup {e.id}
   BY <2>6, CatalogueOK
 <2>8. s.id \in IdsOf(n.sections)
   BY <2>2, <2>4, <2>7
 <2>9. PICK kind : kind = "section"
   OBVIOUS
 <2>10. CallOK(m, Done(n, kind, s.id))
   BY <2>7, <2>8, <2>9, DoneOK
 <2> QED BY <2>8, <2>9, <2>10
<1> QED BY <1>5, <1>6, <1>7, <1>8

LEMMA SectionFromCatalogOK ==
    ASSUME NEW m, ModelOK(m), NEW s, DOMAIN s = Arguments
    PROVE  /\ CallOK(m, SectionFromCatalog(m, s))
           /\ SectionFromCatalog(m, s).ok
                 => s.material \in IdsOf(SectionFromCatalog(m, s).model.materials)
<1>1. PICK t : t = [s EXCEPT !.id = s.material, !.flaw = "none"]
  OBVIOUS
<1>2. t.id = s.material
  BY <1>1 DEF Arguments
<1>3. PICK made : made = Material(m, t)
  OBVIOUS
<1>4. CallOK(m, made) /\ (made.ok => s.material \in IdsOf(made.model.materials))
  BY <1>2, <1>3, MaterialOK
<1>5. PICK n : n = made.model
  OBVIOUS
<1>6. ModelOK(n) /\ Grows(m, n)
  BY <1>4, <1>5 DEF CallOK
<1>7. CallOK(n, Section(n, s)) /\ CallOK(m, Section(n, s))
  BY <1>6, SectionOK, CallsOK
<1>8. ASSUME made.ok PROVE s.material \in IdsOf(Section(n, s).model.materials)
  BY <1>4, <1>5, <1>7, <1>8, FieldsGrow DEF CallOK
<1>9. SectionFromCatalog(m, s) = IF s.flaw = "value" THEN Refused(m)
                                 ELSE IF ~made.ok THEN made ELSE Section(n, s)
  BY <1>1, <1>3, <1>5 DEF SectionFromCatalog
<1>10. CallOK(m, Refused(m)) /\ ~Refused(m).ok
  BY RefusedOK, GrowsNot DEF Refused
<1>11. PICK call : call = SectionFromCatalog(m, s)
  OBVIOUS
<1>12. CallOK(m, call) /\ (call.ok => s.material \in IdsOf(call.model.materials))
 <2>1. CASE s.flaw = "value"
   BY <1>9, <1>10, <1>11, <2>1
 <2>2. CASE s.flaw # "value" /\ ~made.ok
   BY <1>4, <1>9, <1>11, <2>2
 <2>3. CASE s.flaw # "value" /\ made.ok
   BY <1>7, <1>8, <1>9, <1>11, <2>3
 <2> QED BY <2>1, <2>2, <2>3
<1> QED BY <1>11, <1>12

LEMMA EnsureFromCatalogOK ==
    ASSUME NEW m, ModelOK(m), NEW s
    PROVE  /\ CallOK(m, EnsureFromCatalog(m, s))
           /\ EnsureFromCatalog(m, s).ok
                 => s.material \in IdsOf(EnsureFromCatalog(m, s).model.materials)
<1> DEFINE more == [m EXCEPT !.materials = Append(@, [id |-> s.material, of |-> s.of]),
                             !.materialIds = @ \cup {s.material}]
<1>0. DOMAIN m = ModelFields
  BY DEF ModelOK, IsModel
<1>1. PICK x : x = [id |-> s.material, of |-> s.of]
  OBVIOUS
<1>2. PICK e : e = [id |-> s.id, of |-> s.of, mass |-> s.mass, sound |-> TRUE]
  OBVIOUS
<1>3. PICK known : known = IF s.material \in IdsOf(m.materials) THEN m
                           ELSE [m EXCEPT !.materials = Append(@, x), !.materialIds = @ \cup {s.material}]
  OBVIOUS
<1>4. PICK n : n = [known EXCEPT !.sections = Append(@, e), !.sectionIds = @ \cup {s.id}]
  OBVIOUS
<1>5. EnsureFromCatalog(m, s) =
        IF s.flaw # "none" \/ Named(known.materials, s.material) # x THEN Refused(m)
        ELSE IF s.id \notin IdsOf(m.sections) THEN Done(n, "section", s.id)
        ELSE IF Named(m.sections, s.id) = e THEN Done(known, "section", s.id) ELSE Refused(known)
  BY <1>1, <1>2, <1>3, <1>4 DEF EnsureFromCatalog, Take
<1>6. /\ ModelOK(known) /\ Grows(m, known) /\ s.material \in IdsOf(known.materials)
      /\ known.sections = m.sections
 <2>1. CASE s.material \in IdsOf(m.materials)
   BY <1>3, <2>1, GrowsNot
 <2>2. CASE s.material \notin IdsOf(m.materials)
  <3>1. DOMAIN known = ModelFields /\ known.materials = Append(m.materials, x)
        /\ known.materialIds = m.materialIds \cup {s.material}
        /\ \A g \in ModelFields \ {"materials", "materialIds"} : known[g] = m[g]
    BY <1>0, <1>3, <2>2 DEF ModelFields
  <3>2. x.id = s.material /\ known.sectionIds = m.sectionIds /\ known.cases = m.cases
        /\ SameOptions(m, known) /\ known.sections = m.sections
        /\ \A g \in RegisterFields : g # "materials" => known[g] = m[g]
    BY <1>1, <3>1 DEF ModelFields, RegisterFields, SameOptions
  <3>3. PICK f : f = "materials"
    OBVIOUS
  <3>4. MoreBy(m, known, f, x)
    BY <2>2, <3>1, <3>2, <3>3 DEF MoreBy, RegisterFields
  <3>5. CatalogueMore(m, known, f, x)
    BY <3>1, <3>2, <3>3, <3>4 DEF CatalogueMore
  <3>6. ModelOK(known) /\ Grows(m, known) /\ IdsOf(known[f]) = IdsOf(m[f]) \cup {x.id}
    BY <3>5, CatalogueOK
  <3> QED BY <3>2, <3>3, <3>6
 <2> QED BY <2>1, <2>2
<1>7. ASSUME s.id \notin IdsOf(m.sections)
      PROVE  ModelOK(n) /\ Grows(known, n) /\ s.id \in IdsOf(n.sections)
 <2>1. DOMAIN n = ModelFields /\ n.sections = Append(known.sections, e)
       /\ n.sectionIds = known.sectionIds \cup {s.id}
       /\ \A g \in ModelFields \ {"sections", "sectionIds"} : n[g] = known[g]
  <3>1. DOMAIN known = ModelFields
    BY <1>6 DEF ModelOK, IsModel
  <3> QED BY <1>4, <3>1 DEF ModelFields
 <2>2. e.id = s.id /\ e.sound /\ n.materialIds = known.materialIds /\ n.cases = known.cases
       /\ SameOptions(known, n)
       /\ \A g \in RegisterFields : g # "sections" => n[g] = known[g]
   BY <1>2, <2>1 DEF ModelFields, RegisterFields, SameOptions
 <2>3. PICK f : f = "sections"
   OBVIOUS
 <2>4. MoreBy(known, n, f, e)
   BY <1>6, <1>7, <2>1, <2>2, <2>3 DEF MoreBy, RegisterFields
 <2>5. CatalogueMore(known, n, f, e)
   BY <2>1, <2>2, <2>3, <2>4 DEF CatalogueMore
 <2>6. ModelOK(n) /\ Grows(known, n) /\ IdsOf(n[f]) = IdsOf(known[f]) \cup {e.id}
   BY <1>6, <2>5, CatalogueOK
 <2> QED BY <2>2, <2>3, <2>6
<1>8. ASSUME s.id \notin IdsOf(m.sections)
      PROVE  CallOK(m, Done(n, "section", s.id)) /\ s.material \in IdsOf(n.materials)
 <2>1. ModelOK(n) /\ Grows(m, n) /\ s.id \in IdsOf(n.sections) /\ s.material \in IdsOf(n.materials)
   BY <1>6, <1>7, <1>8, GrowsOn, FieldsGrow
 <2>2. PICK kind : kind = "section"
   OBVIOUS
 <2>3. CallOK(m, Done(n, kind, s.id))
   BY <2>1, <2>2, DoneOK
 <2> QED BY <2>1, <2>2, <2>3
<1>9. ASSUME s.id \in IdsOf(m.sections) PROVE CallOK(m, Done(known, "section", s.id))
 <2>1. s.id \in IdsOf(known.sections)
   BY <1>6, <1>9
 <2>2. PICK kind : kind = "section"
   OBVIOUS
 <2>3. CallOK(m, Done(known, kind, s.id))
   BY <1>6, <2>1, <2>2, DoneOK
 <2> QED BY <2>2, <2>3
<1>10. CallOK(m, Refused(m)) /\ CallOK(m, Refused(known)) /\ ~Refused(m).ok /\ ~Refused(known).ok
  BY <1>6, RefusedOK, GrowsNot DEF Refused
<1>11. Done(n, "section", s.id).model = n /\ Done(known, "section", s.id).model = known
  BY DEF Done
<1>12. PICK call : call = EnsureFromCatalog(m, s)
  OBVIOUS
<1>13. \/ call = Refused(m) \/ call = Refused(known)
       \/ s.id \notin IdsOf(m.sections) /\ call = Done(n, "section", s.id)
       \/ s.id \in IdsOf(m.sections) /\ call = Done(known, "section", s.id)
  BY <1>5, <1>12
<1>14. CallOK(m, call) /\ (call.ok => s.material \in IdsOf(call.model.materials))
 <2>1. CASE call = Refused(m) \/ call = Refused(known)
   BY <1>10, <2>1
 <2>2. CASE s.id \notin IdsOf(m.sections) /\ call = Done(n, "section", s.id)
   BY <1>8, <1>11, <2>2
 <2>3. CASE s.id \in IdsOf(m.sections) /\ call = Done(known, "section", s.id)
   BY <1>6, <1>9, <1>11, <2>3
 <2> QED BY <1>13, <2>1, <2>2, <2>3
<1> QED BY <1>12, <1>14

LEMMA WindBasisOK ==
    ASSUME NEW m, ModelOK(m), NEW s
    PROVE  CallOK(m, WindBasis(m, s))
<1>1. CASE s.id \notin IdsOf(m.winds) /\ s.flaw = "none"
 <2>1. PICK e : e = [id |-> s.id]
   OBVIOUS
 <2>2. PICK n : n = [m EXCEPT !.winds = Append(@, e)]
   OBVIOUS
 <2>3. WindBasis(m, s) = Done(n, "wind", s.id)
   BY <1>1, <2>1, <2>2 DEF WindBasis, Take
 <2>4. DOMAIN m = ModelFields
   BY DEF ModelOK, IsModel
 <2>5. DOMAIN n = ModelFields /\ n.winds = Append(m.winds, e)
       /\ \A g \in ModelFields : g # "winds" => n[g] = m[g]
   BY <2>2, <2>4 DEF ModelFields
 <2>6. PICK f : f = "winds"
   OBVIOUS
 <2>7. AppendedTo(m, n, f, e) /\ RecordOK(n, f, e)
   BY <1>1, <2>1, <2>5, <2>6 DEF AppendedTo, RecordOK, RegisterFields
 <2>8. ModelOK(n) /\ Grows(m, n) /\ IdsOf(n[f]) = IdsOf(m[f]) \cup {e.id}
   BY <2>6, <2>7, AppendedOK
 <2>9. s.id \in IdsOf(n.winds)
   BY <2>1, <2>6, <2>8
 <2>10. PICK kind : kind = "wind"
   OBVIOUS
 <2>11. CallOK(m, Done(n, kind, s.id))
   BY <2>8, <2>9, <2>10, DoneOK
 <2> QED BY <2>3, <2>10, <2>11
<1>2. CASE ~(s.id \notin IdsOf(m.winds) /\ s.flaw = "none")
 <2>1. WindBasis(m, s) = Refused(m)
   BY <1>2 DEF WindBasis, Take
 <2> QED BY <2>1, RefusedOK, GrowsNot
<1> QED BY <1>1, <1>2

LEMMA WithCaseIs ==
    ASSUME NEW m, ModelOK(m), m.parts # <<>>, NEW s,
           s.category \in {"dead", "live", "wind", "imperfection"}
    PROVE  /\ DOMAIN WithCase(m, s) = ModelFields
           /\ \A g \in ModelFields : g # "cases" => WithCase(m, s)[g] = m[g]
           /\ DOMAIN WithCase(m, s).cases = DOMAIN m.cases \cup {s.case}
           /\ CasesOK(WithCase(m, s))
<1>1. PICK v : v = [category |-> s.category, label |-> s.label]
  OBVIOUS
<1>2. PICK k : k = Put(m.cases, s.case, v)
  OBVIOUS
<1>3. PICK n : n = WithCase(m, s)
  OBVIOUS
<1>4. n = [m EXCEPT !.cases = k]
  BY <1>1, <1>2, <1>3 DEF WithCase
<1>5. DOMAIN n = ModelFields /\ n.cases = k /\ \A g \in ModelFields : g # "cases" => n[g] = m[g]
  BY <1>4 DEF ModelOK, IsModel, ModelFields
<1>6. DOMAIN k = DOMAIN m.cases \cup {s.case}
      /\ \A x \in DOMAIN k : k[x] = IF x = s.case THEN v ELSE m.cases[x]
  BY <1>2 DEF Put
<1>7. v.category \in {"dead", "live", "wind", "imperfection", "fixture"}
  BY <1>1
<1>8. n.parts = m.parts
  BY <1>5 DEF ModelFields
<1>9. \A x \in DOMAIN k : k[x].category \in {"dead", "live", "wind", "imperfection", "fixture"}
  BY <1>6, <1>7 DEF ModelOK, CasesOK
<1>10. CasesOK(n)
  BY <1>5, <1>6, <1>8, <1>9 DEF CasesOK
<1> QED BY <1>3, <1>5, <1>6, <1>10

\* A model with a case changed or added.
CasesOnly(m, k) ==
    /\ DOMAIN k = ModelFields /\ \A g \in ModelFields : g # "cases" => k[g] = m[g]
    /\ DOMAIN m.cases \subseteq DOMAIN k.cases /\ CasesOK(k)

LEMMA CasesOnlyOK ==
    ASSUME NEW m, ModelOK(m), NEW k, CasesOnly(m, k)
    PROVE  ModelOK(k) /\ Grows(m, k)
<1>1. /\ \A g \in RegisterFields : k[g] = m[g]
      /\ k.materialIds = m.materialIds /\ k.sectionIds = m.sectionIds
      /\ k.parts = m.parts /\ k.materials = m.materials /\ k.sections = m.sections
      /\ k.stability = m.stability /\ k.crossSection = m.crossSection
      /\ k.memberStability = m.memberStability
  BY DEF CasesOnly, ModelFields, RegisterFields
<1>2. IdsKept(k) /\ NewOptionsOK(m, k)
  BY <1>1 DEF ModelOK, IdsKept, NewOptionsOK
<1> QED BY <1>1, <1>2, SameRecordsOK DEF CasesOnly

\* A record more, after the case.
LEMMA LoadedOK ==
    ASSUME NEW m, ModelOK(m), NEW k, CasesOnly(m, k), NEW n, NEW f, NEW e, AppendedTo(k, n, f, e),
           RecordOK(n, f, e), f \notin {"parts", "materials", "sections"}
    PROVE  ModelOK(n) /\ Grows(m, n) /\ IdsOf(n[f]) = IdsOf(m[f]) \cup {e.id}
<1>1. ModelOK(k) /\ Grows(m, k)
  BY CasesOnlyOK
<1>2. ModelOK(n) /\ Grows(k, n) /\ IdsOf(n[f]) = IdsOf(k[f]) \cup {e.id}
  BY <1>1, AppendedOK
<1>3. k[f] = m[f]
  BY DEF AppendedTo, CasesOnly, ModelFields, RegisterFields
<1> QED BY <1>1, <1>2, <1>3, GrowsOn

LEMMA SurfaceLoadOK ==
    ASSUME NEW m, ModelOK(m), NEW env, NEW s,
           s.wind # "none" => s.wind \in IdsOf(m.winds) /\ s.category = "wind"
    PROVE  CallOK(m, SurfaceLoad(m, env, s))
<1> DEFINE G == /\ IsPart(m, env, s.part, {"surface"}) /\ s.id \notin IdsOf(m.loads) /\ s.flaw = "none"
                /\ s.category \in {"dead", "live", "wind"} /\ CaseAgrees(m, s)
<1>1. CASE G
 <2>1. PICK e : e = [id |-> s.id, component |-> env[s.part].id, case |-> s.case,
                     category |-> s.category, wind |-> s.wind, sound |-> TRUE]
   OBVIOUS
 <2>2. PICK k : k = WithCase(m, s)
   OBVIOUS
 <2>3. PICK n : n = [k EXCEPT !.loads = Append(@, e)]
   OBVIOUS
 <2>4. SurfaceLoad(m, env, s) = Done(n, "load", s.id)
   BY <1>1, <2>1, <2>2, <2>3 DEF SurfaceLoad, Take
 <2>5. HasPart(m, env[s.part].id, "surface") /\ m.parts # <<>>
  <3>1. PICK p \in ToSet(m.parts) : p.id = env[s.part].id /\ p.kind = "surface"
    BY <1>1 DEF IsPart, PartOf
  <3>2. m.parts # <<>>
    BY <3>1 DEF ToSet
  <3> QED BY <3>1, <3>2 DEF HasPart
 <2>6. s.category \in {"dead", "live", "wind", "imperfection"}
   BY <1>1
 <2>7. /\ DOMAIN k = ModelFields /\ \A g \in ModelFields : g # "cases" => k[g] = m[g]
       /\ DOMAIN k.cases = DOMAIN m.cases \cup {s.case} /\ CasesOK(k)
   BY <2>2, <2>5, <2>6, WithCaseIs
 <2>8. CasesOnly(m, k)
   BY <2>7 DEF CasesOnly
 <2>9. DOMAIN n = ModelFields /\ n.loads = Append(k.loads, e)
       /\ \A g \in ModelFields : g # "loads" => n[g] = k[g]
   BY <2>3, <2>7 DEF ModelFields
 <2>10. n.parts = m.parts /\ n.cases = k.cases /\ n.winds = m.winds /\ k.loads = m.loads
   BY <2>7, <2>9 DEF ModelFields
 <2>11. e.id = s.id /\ e.component = env[s.part].id /\ e.case = s.case
        /\ e.category = s.category /\ e.wind = s.wind /\ e.sound
   BY <2>1
 <2>12. LoadOK(n, e)
   BY <1>1, <2>5, <2>7, <2>10, <2>11 DEF LoadOK, HasPart
 <2>13. PICK f : f = "loads"
   OBVIOUS
 <2>14. AppendedTo(k, n, f, e) /\ RecordOK(n, f, e)
   BY <1>1, <2>9, <2>10, <2>11, <2>12, <2>13 DEF AppendedTo, RecordOK, RegisterFields
 <2>15. ModelOK(n) /\ Grows(m, n)
   BY <2>8, <2>13, <2>14, LoadedOK
 <2>16. PICK kind : kind = "load"
   OBVIOUS
 <2>17. CallOK(m, Done(n, kind, s.id))
   BY <2>15, <2>16, CallDone
 <2> QED BY <2>4, <2>16, <2>17
<1>2. CASE ~G
 <2>1. SurfaceLoad(m, env, s) = Refused(m)
   BY <1>2 DEF SurfaceLoad, Take
 <2> QED BY <2>1, RefusedOK, GrowsNot
<1> QED BY <1>1, <1>2

LEMMA WindLoadOK ==
    ASSUME NEW m, ModelOK(m), NEW env, EnvOK(m, env), NEW s, DOMAIN s = Arguments
    PROVE  CallOK(m, WindLoad(m, env, s))
<1>1. CASE Holds(env, s.wind, "wind")
 <2>1. PICK t : t = [s EXCEPT !.category = "wind", !.wind = env[s.wind].id]
   OBVIOUS
 <2>2. t.category = "wind" /\ t.wind = env[s.wind].id
   BY <2>1 DEF Arguments
 <2>3. t.wind \in IdsOf(m.winds)
   BY <1>1, <2>2 DEF EnvOK, HandleOK, Holds
 <2>4. CallOK(m, SurfaceLoad(m, env, t))
   BY <2>2, <2>3, SurfaceLoadOK
 <2> QED BY <1>1, <2>1, <2>4 DEF WindLoad, Take
<1>2. CASE ~Holds(env, s.wind, "wind")
  BY <1>2, RefusedOK, GrowsNot DEF WindLoad, Take
<1> QED BY <1>1, <1>2

LEMMA PointLoadOK ==
    ASSUME NEW m, ModelOK(m), NEW env, NEW s
    PROVE  CallOK(m, PointLoad(m, env, s))
<1> DEFINE axis == TheAxis(m, env, s.part)
           B == \/ AxisOf(m, env, s.part) = {} \/ <<s.id, 0>> \in LoadIds(m) \/ ~CaseAgrees(m, s)
                \/ s.at \notin 0..axis.length \/ s.flaw = "value"
                \/ s.category \notin {"dead", "live", "wind", "imperfection"}
<1>1. CASE ~B
 <2>1. PICK x : x = axis
   OBVIOUS
 <2>2. PICK i : i = <<s.id, 0>>
   OBVIOUS
 <2>3. PICK e : e = [id |-> i, member |-> x.id, case |-> s.case, at |-> s.at, source |-> "none"]
   OBVIOUS
 <2>4. PICK k : k = WithCase(m, s)
   OBVIOUS
 <2>5. PICK n : n = [k EXCEPT !.points = Append(@, e)]
   OBVIOUS
 <2>6. PointLoad(m, env, s) = IF s.flaw = "none" THEN Done(n, "none", "none") ELSE Refused(k)
   BY <1>1, <2>1, <2>2, <2>3, <2>4, <2>5 DEF PointLoad, Take
 <2>7. MemberOK(m, x) /\ x.id \in IdsOf(m.members) /\ Named(m.members, x.id) = x
   BY <1>1, <2>1, AxisIs
 <2>8. m.parts # <<>>
   BY <2>7 DEF MemberOK, HasPart, ToSet
 <2>9. s.category \in {"dead", "live", "wind", "imperfection"} /\ s.at \in 0..x.length
       /\ i \notin IdsOf(m.points)
   BY <1>1, <2>1, <2>2 DEF LoadIds
 <2>10. /\ DOMAIN k = ModelFields /\ \A g \in ModelFields : g # "cases" => k[g] = m[g]
        /\ DOMAIN k.cases = DOMAIN m.cases \cup {s.case} /\ CasesOK(k)
   BY <2>4, <2>8, <2>9, WithCaseIs
 <2>11. CasesOnly(m, k)
   BY <2>10 DEF CasesOnly
 <2>12. CallOK(m, Refused(k))
   BY <2>11, CasesOnlyOK, RefusedOK
 <2>13. DOMAIN n = ModelFields /\ n.points = Append(k.points, e)
       /\ \A g \in ModelFields : g # "points" => n[g] = k[g]
   BY <2>5, <2>10 DEF ModelFields
 <2>14. n.members = m.members /\ n.cases = k.cases /\ k.points = m.points
   BY <2>10, <2>13 DEF ModelFields
 <2>15. e.id = i /\ e.member = x.id /\ e.case = s.case /\ e.at = s.at /\ e.source = "none"
   BY <2>3
 <2>16. PointOK(n, e)
   BY <2>7, <2>9, <2>10, <2>14, <2>15 DEF PointOK, OnMember
 <2>17. PICK f : f = "points"
   OBVIOUS
 <2>18. AppendedTo(k, n, f, e) /\ RecordOK(n, f, e)
   BY <2>9, <2>13, <2>14, <2>15, <2>16, <2>17 DEF AppendedTo, RecordOK, RegisterFields
 <2>19. ModelOK(n) /\ Grows(m, n)
   BY <2>11, <2>17, <2>18, LoadedOK
 <2>20. PICK kind, id : kind = "none" /\ id = "none"
   OBVIOUS
 <2>21. CallOK(m, Done(n, kind, id))
   BY <2>19, <2>20, CallDone
 <2> QED BY <2>6, <2>12, <2>20, <2>21
<1>2. CASE B
 <2>1. PointLoad(m, env, s) = Refused(m)
   BY <1>2 DEF PointLoad
 <2> QED BY <2>1, RefusedOK, GrowsNot
<1> QED BY <1>1, <1>2

CaseKept(m, case, v) == [m EXCEPT !.cases = IF case \in DOMAIN @ THEN @ ELSE Put(@, case, v)]

LEMMA LineCaseIs ==
    ASSUME NEW m, ModelOK(m), m.parts # <<>>, NEW case, NEW v,
           v.category \in {"dead", "live", "wind"}, NEW k, k = CaseKept(m, case, v)
    PROVE  CasesOnly(m, k) /\ case \in DOMAIN k.cases
<1>1. PICK h : h = IF case \in DOMAIN m.cases THEN m.cases ELSE Put(m.cases, case, v)
  OBVIOUS
<1>2. k = [m EXCEPT !.cases = h]
  BY <1>1 DEF CaseKept
<1>3. DOMAIN k = ModelFields /\ k.cases = h /\ \A g \in ModelFields : g # "cases" => k[g] = m[g]
  BY <1>2 DEF ModelOK, IsModel, ModelFields
<1>4. k.parts = m.parts
  BY <1>3 DEF ModelFields
<1>5. CasesOK(k) /\ DOMAIN m.cases \subseteq DOMAIN h /\ case \in DOMAIN h
 <2>1. CASE case \in DOMAIN m.cases
   BY <1>1, <1>3, <1>4, <2>1 DEF ModelOK, CasesOK
 <2>2. CASE case \notin DOMAIN m.cases
  <3>1. DOMAIN h = DOMAIN m.cases \cup {case}
        /\ \A x \in DOMAIN h : h[x] = IF x = case THEN v ELSE m.cases[x]
    BY <1>1, <2>2 DEF Put
  <3>2. v.category \in {"dead", "live", "wind", "imperfection", "fixture"}
    OBVIOUS
  <3>3. \A x \in DOMAIN h : h[x].category \in {"dead", "live", "wind", "imperfection", "fixture"}
    BY <3>1, <3>2 DEF ModelOK, CasesOK
  <3> QED BY <1>3, <1>4, <3>1, <3>3 DEF CasesOK
 <2> QED BY <2>1, <2>2
<1> QED BY <1>3, <1>5 DEF CasesOnly

LEMMA SourceIs ==
    ASSUME NEW m, NEW env, NEW name, NEW l \in LoadOf(m, env, name)
    PROVE  env[name].id = l.id /\ l \in ToSet(m.loads) /\ l.id \in IdsOf(m.loads)
  BY DEF LoadOf, IdsOf

AxisOfModel(m, x) == MemberOK(m, x) /\ x.id \in IdsOf(m.members) /\ Named(m.members, x.id) = x

LEMMA LineLoadOK ==
    ASSUME NEW m, ModelOK(m), NEW env, NEW x, AxisOfModel(m, x), NEW s
    PROVE  CallOK(m, LineLoad(m, env, x, s))
<1> DEFINE B == \/ <<s.id, 0>> \in LoadIds(m)
                \/ ~(0 <= s.start /\ s.start < s.end /\ s.end <= x.length)
                \/ s.category \notin {"dead", "live", "wind"} \/ s.flaw = "value"
                \/ (s.source # "none") # (s.by = "surface")
                \/ (s.by = "surface" /\ \A l \in LoadOf(m, env, s.source) : l.category # s.category)
                \/ (s.by = "self_weight" /\ s.category # "dead")
                \/ (s.case \in DOMAIN m.cases /\ m.cases[s.case].category # s.category)
<1>1. CASE ~B
 <2>1. PICK v : v = [category |-> s.category, label |-> s.label]
   OBVIOUS
 <2>2. PICK i : i = <<s.id, 0>>
   OBVIOUS
 <2>3. PICK from : from = IF s.source = "none" THEN "none" ELSE env[s.source].id
   OBVIOUS
 <2>4. PICK e : e = [id |-> i, member |-> x.id, case |-> s.case, from |-> s.start, to |-> s.end,
                     by |-> s.by, source |-> from]
   OBVIOUS
 <2>5. PICK k : k = [m EXCEPT !.cases = IF s.case \in DOMAIN @ THEN @ ELSE Put(@, s.case, v)]
   OBVIOUS
 <2>6. PICK n : n = [k EXCEPT !.lines = Append(@, e)]
   OBVIOUS
 <2>7. LineLoad(m, env, x, s) = IF s.flaw = "none" THEN Done(n, "none", "none") ELSE Refused(k)
   BY <1>1, <2>1, <2>2, <2>3, <2>4, <2>5, <2>6 DEF LineLoad, Take
 <2>8. m.parts # <<>>
   BY DEF AxisOfModel, MemberOK, HasPart, ToSet
 <2>9. 0 <= s.start /\ s.start < s.end /\ s.end <= x.length /\ i \notin IdsOf(m.lines)
       /\ s.category \in {"dead", "live", "wind"}
   BY <1>1, <2>2 DEF LoadIds
 <2>10. from # "none" => from \in IdsOf(m.loads)
  <3>1. CASE s.source = "none"
    BY <2>3, <3>1
  <3>2. CASE s.source # "none"
   <4>1. PICK l \in LoadOf(m, env, s.source) : l.category = s.category
     BY <1>1, <3>2
   <4>2. env[s.source].id = l.id /\ l.id \in IdsOf(m.loads)
     BY <4>1, SourceIs
   <4> QED BY <2>3, <3>2, <4>2
  <3> QED BY <3>1, <3>2
 <2>11. CasesOnly(m, k) /\ s.case \in DOMAIN k.cases
  <3>1. v.category \in {"dead", "live", "wind"}
    BY <2>1, <2>9
  <3>2. PICK case : case = s.case
    OBVIOUS
  <3>3. k = CaseKept(m, case, v)
    BY <2>5, <3>2 DEF CaseKept
  <3>4. CasesOnly(m, k) /\ case \in DOMAIN k.cases
    BY <2>8, <3>1, <3>3, LineCaseIs
  <3> QED BY <3>2, <3>4
 <2>12. CallOK(m, Refused(k))
   BY <2>11, CasesOnlyOK, RefusedOK
 <2>13. DOMAIN n = ModelFields /\ n.lines = Append(k.lines, e)
        /\ \A g \in ModelFields : g # "lines" => n[g] = k[g]
   BY <2>6, <2>11 DEF CasesOnly, ModelFields
 <2>14. n.members = m.members /\ n.cases = k.cases /\ k.lines = m.lines /\ n.loads = m.loads
   BY <2>11, <2>13 DEF CasesOnly, ModelFields
 <2>15. e.id = i /\ e.member = x.id /\ e.case = s.case /\ e.from = s.start /\ e.to = s.end
        /\ e.source = from
   BY <2>4
 <2>16. OnMember(n, e)
   BY <2>10, <2>11, <2>14, <2>15 DEF OnMember, AxisOfModel
 <2>17. LineOK(n, e)
   BY <2>9, <2>14, <2>15, <2>16 DEF LineOK, AxisOfModel
 <2>18. PICK f : f = "lines"
   OBVIOUS
 <2>19. AppendedTo(k, n, f, e) /\ RecordOK(n, f, e)
   BY <2>9, <2>13, <2>14, <2>15, <2>17, <2>18 DEF AppendedTo, RecordOK, RegisterFields
 <2>20. ModelOK(n) /\ Grows(m, n)
   BY <2>11, <2>18, <2>19, LoadedOK
 <2>21. PICK kind, id : kind = "none" /\ id = "none"
   OBVIOUS
 <2>22. CallOK(m, Done(n, kind, id))
   BY <2>20, <2>21, CallDone
 <2> QED BY <2>7, <2>12, <2>21, <2>22
<1>2. CASE B
 <2>1. LineLoad(m, env, x, s) = Refused(m)
   BY <1>2 DEF LineLoad
 <2> QED BY <2>1, RefusedOK, GrowsNot
<1> QED BY <1>1, <1>2

LEMMA TheAxisIs ==
    ASSUME NEW m, ModelOK(m), NEW env, NEW name, AxisOf(m, env, name) # {}
    PROVE  AxisOfModel(m, TheAxis(m, env, name)) /\ TheAxis(m, env, name) \in ToSet(m.members)
  BY AxisIs DEF AxisOfModel

LEMMA DistributedLoadOK ==
    ASSUME NEW m, ModelOK(m), NEW env, NEW s
    PROVE  CallOK(m, DistributedLoad(m, env, s))
<1>1. PICK x : x = TheAxis(m, env, s.part)
  OBVIOUS
<1>2. PICK t : t = [s EXCEPT !.end = IF @ < 0 THEN x.length ELSE @]
  OBVIOUS
<1>3. DistributedLoad(m, env, s)
        = IF AxisOf(m, env, s.part) # {} THEN LineLoad(m, env, x, t) ELSE Refused(m)
  BY <1>1, <1>2 DEF DistributedLoad, Take
<1>4. ASSUME AxisOf(m, env, s.part) # {} PROVE CallOK(m, LineLoad(m, env, x, t))
  BY <1>1, <1>4, TheAxisIs, LineLoadOK
<1> QED BY <1>3, <1>4, RefusedOK, GrowsNot

LEMMA SelfWeightOK ==
    ASSUME NEW m, ModelOK(m), NEW env, NEW s
    PROVE  CallOK(m, SelfWeight(m, env, s))
<1>1. PICK x : x = TheAxis(m, env, s.part)
  OBVIOUS
<1>2. PICK t : t = [s EXCEPT !.category = "dead", !.case = "dead", !.label = "Dead load",
                             !.start = 0, !.end = x.length, !.by = "self_weight",
                             !.source = "none"]
  OBVIOUS
<1>3. PICK massive : massive = Named(m.sections, x.section).mass
  OBVIOUS
<1>4. SelfWeight(m, env, s)
        = IF AxisOf(m, env, s.part) # {} /\ massive THEN LineLoad(m, env, x, t) ELSE Refused(m)
  BY <1>1, <1>2, <1>3 DEF SelfWeight, Take
<1>5. ASSUME AxisOf(m, env, s.part) # {} PROVE CallOK(m, LineLoad(m, env, x, t))
  BY <1>1, <1>5, TheAxisIs, LineLoadOK
<1> QED BY <1>4, <1>5, RefusedOK, GrowsNot

LEMMA DistributeUniformOK ==
    ASSUME NEW m, ModelOK(m), NEW env, NEW s
    PROVE  CallOK(m, DistributeUniform(m, env, s))
<1>1. PICK x : x = TheAxis(m, env, s.part)
  OBVIOUS
<1>2. PICK load : load = CHOOSE l \in LoadOf(m, env, s.source) : TRUE
  OBVIOUS
<1>3. PICK t : t = [s EXCEPT !.category = load.category, !.case = load.case,
                             !.label = m.cases[load.case].label, !.by = "surface",
                             !.end = IF @ < 0 THEN x.length ELSE @]
  OBVIOUS
<1>4. DistributeUniform(m, env, s)
        = IF AxisOf(m, env, s.part) # {} /\ LoadOf(m, env, s.source) # {}
          THEN LineLoad(m, env, x, t) ELSE Refused(m)
  BY <1>1, <1>2, <1>3 DEF DistributeUniform, Take
<1>5. ASSUME AxisOf(m, env, s.part) # {} PROVE CallOK(m, LineLoad(m, env, x, t))
  BY <1>1, <1>5, TheAxisIs, LineLoadOK
<1> QED BY <1>4, <1>5, RefusedOK, GrowsNot

LEMMA LoadCombinationOK ==
    ASSUME NEW m, ModelOK(m), NEW s
    PROVE  CallOK(m, LoadCombination(m, s))
<1>1. CASE s.id \notin IdsOf(m.combos) /\ s.factors # {} /\ s.flaw = "none"
 <2>1. PICK e : e = [id |-> s.id, limit |-> s.limit, factors |-> s.factors, sound |-> TRUE]
   OBVIOUS
 <2>2. PICK n : n = [m EXCEPT !.combos = Append(@, e)]
   OBVIOUS
 <2>3. LoadCombination(m, s) = Done(n, "none", "none")
   BY <1>1, <2>1, <2>2 DEF LoadCombination, Take
 <2>4. DOMAIN m = ModelFields
   BY DEF ModelOK, IsModel
 <2>5. DOMAIN n = ModelFields /\ n.combos = Append(m.combos, e)
       /\ \A g \in ModelFields : g # "combos" => n[g] = m[g]
   BY <2>2, <2>4 DEF ModelFields
 <2>6. PICK f : f = "combos"
   OBVIOUS
 <2>7. AppendedTo(m, n, f, e) /\ RecordOK(n, f, e)
   BY <1>1, <2>1, <2>5, <2>6 DEF AppendedTo, RecordOK, RegisterFields
 <2>8. ModelOK(n) /\ Grows(m, n)
   BY <2>6, <2>7, AppendedOK
 <2>9. PICK kind, id : kind = "none" /\ id = "none"
   OBVIOUS
 <2>10. CallOK(m, Done(n, kind, id))
   BY <2>8, <2>9, CallDone
 <2> QED BY <2>3, <2>9, <2>10
<1>2. CASE ~(s.id \notin IdsOf(m.combos) /\ s.factors # {} /\ s.flaw = "none")
 <2>1. LoadCombination(m, s) = Refused(m)
   BY <1>2 DEF LoadCombination, Take
 <2> QED BY <2>1, RefusedOK, GrowsNot
<1> QED BY <1>1, <1>2

LEMMA DesignBasisOK ==
    ASSUME NEW m, ModelOK(m), NEW s
    PROVE  CallOK(m, DesignBasis(m, s))
<1>1. PICK n : n = [m EXCEPT !.basis = <<s.id>>]
  OBVIOUS
<1>2. DesignBasis(m, s) = IF m.basis = <<>> /\ s.flaw = "none" THEN Done(n, "none", "none")
                          ELSE Refused(m)
  BY <1>1 DEF DesignBasis, Take
<1>3. DOMAIN n = ModelFields /\ \A g \in ModelFields : g # "basis" => n[g] = m[g]
  BY <1>1 DEF ModelFields, ModelOK, IsModel
<1>4. NewOptionsOK(m, n)
  BY <1>3 DEF ModelFields, NewOptionsOK
<1>5. ModelOK(n) /\ Grows(m, n)
  BY <1>3, <1>4, OptionsOnly
<1>6. PICK kind, id : kind = "none" /\ id = "none"
  OBVIOUS
<1>7. CallOK(m, Done(n, kind, id)) /\ CallOK(m, Refused(m))
  BY <1>5, <1>6, CallDone, RefusedOK, GrowsNot
<1> QED BY <1>2, <1>6, <1>7

LEMMA AssemblyOK ==
    ASSUME NEW m, ModelOK(m), NEW env, NEW s
    PROVE  CallOK(m, Assembly(m, env, s))
<1>1. PICK ids : ids = [i \in DOMAIN s.parts |-> env[s.parts[i]].id]
  OBVIOUS
<1>2. PICK n : n = [m EXCEPT !.assembled = <<ids>>]
  OBVIOUS
<1>3. Assembly(m, env, s) = Done(n, "none", "none") \/ Assembly(m, env, s) = Refused(m)
  BY <1>1, <1>2 DEF Assembly, Take
<1>4. DOMAIN n = ModelFields /\ \A g \in ModelFields : g # "assembled" => n[g] = m[g]
  BY <1>2 DEF ModelFields, ModelOK, IsModel
<1>5. NewOptionsOK(m, n)
  BY <1>4 DEF ModelFields, NewOptionsOK
<1>6. ModelOK(n) /\ Grows(m, n)
  BY <1>4, <1>5, OptionsOnly
<1>7. PICK kind, id : kind = "none" /\ id = "none"
  OBVIOUS
<1>8. CallOK(m, Done(n, kind, id)) /\ CallOK(m, Refused(m))
  BY <1>6, <1>7, CallDone, RefusedOK, GrowsNot
<1> QED BY <1>3, <1>7, <1>8

LEMMA JoinedRegisters ==
    ASSUME NEW x, IsRegister(x), NEW y, IsRegister(y),
           \A a \in ToSet(x), b \in ToSet(y) : a.id # b.id
    PROVE  IsRegister(x \o y) /\ ToSet(x \o y) = ToSet(x) \cup ToSet(y)
<1>1. PICK z : z = x \o y
  OBVIOUS
<1>2. PICK n \in Nat, k \in Nat : n = Len(x) /\ k = Len(y) /\ DOMAIN x = 1..n /\ DOMAIN y = 1..k
  BY LengthOfList DEF IsRegister
<1>3. /\ IsList(z) /\ ToSet(z) = ToSet(x) \cup ToSet(y) /\ Len(z) = n + k
      /\ \A i \in 1..n : z[i] = x[i]
      /\ \A i \in 1..k : z[n + i] = y[i]
  BY <1>1, <1>2, JoinedLists DEF IsRegister
<1>4. DOMAIN z = 1..(n + k)
  BY <1>3, LengthOfList
<1>5. ASSUME NEW i \in 1..(n + k)
      PROVE  \/ i \in 1..n /\ z[i] = x[i] /\ x[i] \in ToSet(x)
             \/ \E j \in 1..k : i = n + j /\ z[i] = y[j] /\ y[j] \in ToSet(y)
 <2>1. CASE i \in 1..n
   BY <1>2, <1>3, <2>1 DEF ToSet
 <2>2. CASE i \notin 1..n
  <3>1. PICK j : j = i - n
    OBVIOUS
  <3>2. j \in 1..k /\ i = n + j
    BY <2>2, <3>1
  <3> QED BY <1>2, <1>3, <3>2 DEF ToSet
 <2> QED BY <2>1, <2>2
<1>6. ASSUME NEW i \in 1..(n + k), NEW j \in 1..(n + k), z[i].id = z[j].id PROVE i = j
 <2>1. CASE i \in 1..n /\ j \in 1..n
   BY <1>2, <1>3, <1>6, <2>1 DEF IsRegister
 <2>2. CASE i \in 1..n /\ j \notin 1..n
   BY <1>3, <1>5, <1>6, <2>2
 <2>3. CASE i \notin 1..n /\ j \in 1..n
   BY <1>3, <1>5, <1>6, <2>3
 <2>4. CASE i \notin 1..n /\ j \notin 1..n
  <3>1. PICK a \in 1..k : i = n + a /\ z[i] = y[a]
    BY <1>5, <2>4
  <3>2. PICK b \in 1..k : j = n + b /\ z[j] = y[b]
    BY <1>5, <2>4
  <3>3. a = b
    BY <1>2, <1>6, <3>1, <3>2 DEF IsRegister
  <3> QED BY <3>1, <3>2, <3>3
 <2> QED BY <2>1, <2>2, <2>3, <2>4
<1>7. IsRegister(z)
  BY <1>3, <1>4, <1>6 DEF IsRegister
<1> QED BY <1>1, <1>3, <1>7

LEMMA DistributeOK ==
    ASSUME NEW m, ModelOK(m), NEW env, NEW s, s.along \in Seq(Int)
    PROVE  CallOK(m, Distribute(m, env, s))
<1> DEFINE axis == TheAxis(m, env, s.part)
           load == CHOOSE l \in LoadOf(m, env, s.source) : TRUE
           G == /\ AxisOf(m, env, s.part) # {} /\ LoadOf(m, env, s.source) # {}
                /\ \A p \in ToSet(m.points) : p.id[1] # s.id
                /\ s.along # <<>> /\ AllDiffer(s.along) /\ s.flaw = "none"
                /\ \A i \in DOMAIN s.along : 0 < s.along[i] /\ s.along[i] < axis.length
           spread == [i \in DOMAIN s.along |->
                         [id |-> <<s.id, i>>, member |-> axis.id, case |-> load.case,
                          at |-> s.along[i], source |-> load.id]]
<1>1. CASE G
 <2>1. PICK x, l : x = axis /\ l = load
   OBVIOUS
 <2>2. PICK y : y = spread
   OBVIOUS
 <2>3. PICK n : n = [m EXCEPT !.points = @ \o y]
   OBVIOUS
 <2>4. Distribute(m, env, s) = Done(n, "none", "none")
   BY <1>1, <2>2, <2>3 DEF Distribute, Take
 <2>5. AxisOfModel(m, x)
   BY <1>1, <2>1, TheAxisIs
 <2>6. l \in LoadOf(m, env, s.source)
   BY <1>1, <2>1
 <2>7. l \in ToSet(m.loads) /\ l.id \in IdsOf(m.loads)
   BY <2>6, SourceIs
 <2>8. l.case \in DOMAIN m.cases
   BY <2>7 DEF ModelOK, RecordsOK, LoadOK
 <2>9. PICK k \in Nat : DOMAIN s.along = 1..k
   OBVIOUS
 <2>10. DOMAIN y = 1..k /\ y = [i \in 1..k |-> y[i]]
        /\ \A i \in 1..k : /\ y[i].id = <<s.id, i>> /\ y[i].member = x.id /\ y[i].case = l.case
                           /\ y[i].at = s.along[i] /\ y[i].source = l.id
   BY <2>1, <2>2, <2>9
 <2>11. \A i \in 1..k : s.along[i] \in Int /\ 0 < s.along[i] /\ s.along[i] < x.length
   BY <1>1, <2>1, <2>9
 <2>12. \A p \in ToSet(m.points) : p.id[1] # s.id
   BY <1>1
 <2> HIDE DEF G, spread, axis, load
 <2>13. IsRegister(y)
  <3>1. IsList(y)
    BY <2>10, ListOver
  <3>2. \A i, j \in DOMAIN y : y[i].id = y[j].id => i = j
    BY <2>10
  <3> QED BY <3>1, <3>2 DEF IsRegister
 <2>14. PICK points : points = m.points
   OBVIOUS
 <2>15. IsRegister(points)
   BY <2>14, FieldsAre DEF ModelOK
 <2>16. ASSUME NEW b \in ToSet(y)
        PROVE  /\ b.id[1] = s.id /\ b.member = x.id /\ b.case = l.case /\ b.at \in 0..x.length
               /\ b.source = l.id
  <3>1. PICK i \in 1..k : b = y[i]
    BY <2>10 DEF ToSet
  <3>2. x.length \in Int
    BY <2>5 DEF AxisOfModel, MemberOK
  <3> QED BY <2>10, <2>11, <3>1, <3>2
 <2>17. \A a \in ToSet(points), b \in ToSet(y) : a.id # b.id
   BY <2>12, <2>14, <2>16
 <2>18. IsRegister(points \o y) /\ ToSet(points \o y) = ToSet(points) \cup ToSet(y)
   BY <2>13, <2>15, <2>17, JoinedRegisters
 <2>19. DOMAIN n = ModelFields /\ n.points = points \o y
        /\ \A g \in ModelFields : g # "points" => n[g] = m[g]
   BY <2>3, <2>14 DEF ModelFields, ModelOK, IsModel
 <2>20. \A g \in RegisterFields : g # "points" => n[g] = m[g]
   BY <2>19 DEF ModelFields, RegisterFields
 <2>21. /\ n.members = m.members /\ n.cases = m.cases /\ n.loads = m.loads /\ n.parts = m.parts
        /\ n.materials = m.materials /\ n.sections = m.sections /\ n.connections = m.connections
        /\ n.lines = m.lines /\ n.combos = m.combos /\ n.candidates = m.candidates
        /\ n.materialIds = m.materialIds /\ n.sectionIds = m.sectionIds /\ SameOptions(m, n)
   BY <2>19 DEF ModelFields, SameOptions
 <2>22. IsModel(n)
  <3>1. \A g \in RegisterFields : IsRegister(n[g])
    BY <2>18, <2>19, <2>20 DEF ModelOK, IsModel
  <3> QED BY <2>19, <3>1 DEF IsModel
 <2>23. Grows(m, n)
   BY <2>14, <2>18, <2>19, <2>20, <2>21 DEF Grows
 <2>24. ASSUME NEW b \in ToSet(y) PROVE PointOK(n, b)
   BY <2>5, <2>7, <2>8, <2>16, <2>21 DEF PointOK, OnMember, AxisOfModel
 <2>25. NewRecordsOK(m, n)
   BY <2>14, <2>18, <2>19, <2>21, <2>24 DEF NewRecordsOK
 <2>26. RecordsOK(n) /\ OptionsOK(n)
   BY <2>21, <2>22, <2>23, <2>25, RecordsGrow, SameOptionsOK
 <2>27. NodesDiffer(n) /\ IdsKept(n) /\ CasesOK(n)
   BY <2>21 DEF ModelOK, NodesDiffer, IdsKept, CasesOK
 <2>28. ModelOK(n)
   BY <2>22, <2>26, <2>27 DEF ModelOK
 <2>29. PICK kind, id : kind = "none" /\ id = "none"
   OBVIOUS
 <2>30. CallOK(m, Done(n, kind, id))
   BY <2>23, <2>28, <2>29, CallDone
 <2> QED BY <2>4, <2>29, <2>30
<1>2. CASE ~G
 <2>1. Distribute(m, env, s) = Refused(m)
   BY <1>2 DEF Distribute, Take
 <2> QED BY <2>1, RefusedOK, GrowsNot
<1> QED BY <1>1, <1>2

LEMMA ManifestOK ==
    ASSUME NEW m, ModelOK(m)
    PROVE  CallOK(m, Manifest(m))
<1>1. PICK kind, id : kind = "manifest" /\ id = "none"
  OBVIOUS
<1>2. CallOK(m, Done(m, kind, id)) /\ CallOK(m, Refused(m))
  BY <1>1, CallDone, RefusedOK, GrowsNot
<1>3. Manifest(m) = Done(m, kind, id) \/ Manifest(m) = Refused(m)
  BY <1>1 DEF Manifest, Take
<1> QED BY <1>2, <1>3

AliasOf(m, env, s) ==
    IF s.of \in DOMAIN env THEN [Done(m, "none", "none") EXCEPT !.handle = env[s.of]]
    ELSE Refused(m)

LEMMA AliasOK ==
    ASSUME NEW m, ModelOK(m), NEW env, EnvOK(m, env), NEW s
    PROVE  CallOK(m, AliasOf(m, env, s))
<1>1. CASE s.of \in DOMAIN env
 <2>1. PICK h : h = env[s.of]
   OBVIOUS
 <2>2. PICK call : call = [Done(m, "none", "none") EXCEPT !.handle = h]
   OBVIOUS
 <2>3. DOMAIN call = {"ok", "model", "handle"} /\ call.ok = TRUE /\ call.model = m /\ call.handle = h
   BY <2>2 DEF Done
 <2>4. HandleOK(m, h)
   BY <1>1, <2>1 DEF EnvOK
 <2>5. CallOK(m, call)
   BY <2>3, <2>4, GrowsNot DEF CallOK
 <2> QED BY <1>1, <2>1, <2>2, <2>5 DEF AliasOf
<1>2. CASE s.of \notin DOMAIN env
  BY <1>2, RefusedOK, GrowsNot DEF AliasOf
<1> QED BY <1>1, <1>2

\* The calls that statements make.
LEMMA ExecuteOK ==
    ASSUME NEW m, ModelOK(m), NEW env, EnvOK(m, env), NEW s, IsStatement(s)
    PROVE  /\ CallOK(m, Execute(m, env, s))
           /\ s.op \in {"catalogue", "ensure"} /\ Execute(m, env, s).ok
                 => s.material \in IdsOf(Execute(m, env, s).model.materials)
<1>0. /\ DOMAIN s = Arguments /\ s.op \in Ops /\ s.length \in Int /\ s.at \in Int
      /\ s.along \in Seq(Int) /\ s.anchorage \in Seq(STRING) /\ s.members \in Seq(STRING)
      /\ s.op = "surface load" => s.wind = "none"
  BY DEF IsStatement
<1>1. PICK call : call = Execute(m, env, s)
  OBVIOUS
<1>2. ASSUME s.op = "basis" PROVE call = DesignBasis(m, s)
  BY <1>1, <1>2 DEF Execute
<1>3. ASSUME s.op = "part" PROVE call = Register(m, s)
  BY <1>1, <1>3 DEF Execute
<1>4. ASSUME s.op = "member part" PROVE call = MemberPart(m, s)
  BY <1>1, <1>4 DEF Execute
<1>5. ASSUME s.op = "member" PROVE call = MemberFromGeometry(m, env, s)
  BY <1>1, <1>5 DEF Execute
<1>6. ASSUME s.op = "axis" PROVE call = MemberAxis(m, env, s)
  BY <1>1, <1>6 DEF Execute
<1>7. ASSUME s.op = "connect" PROVE call = ConnectParts(m, env, s)
  BY <1>1, <1>7 DEF Execute
<1>8. ASSUME s.op = "joint" PROVE call = JointFromGeometry(m, env, s)
  BY <1>1, <1>8 DEF Execute
<1>9. ASSUME s.op = "restraint" PROVE call = RestraintFromConnection(m, env, s)
  BY <1>1, <1>9 DEF Execute
<1>10. ASSUME s.op = "boundary" PROVE call = BoundaryRestraint(m, env, s)
  BY <1>1, <1>10 DEF Execute
<1>11. ASSUME s.op = "stability" PROVE call = Stability(m, s)
  BY <1>1, <1>11 DEF Execute
<1>12. ASSUME s.op = "cross section" PROVE call = CrossSection(m, env, s)
  BY <1>1, <1>12 DEF Execute
<1>13. ASSUME s.op = "member stability" PROVE call = MemberStability(m, env, s)
  BY <1>1, <1>13 DEF Execute
<1>14. ASSUME s.op = "wind" PROVE call = WindBasis(m, s)
  BY <1>1, <1>14 DEF Execute
<1>15. ASSUME s.op = "material" PROVE call = Material(m, s)
  BY <1>1, <1>15 DEF Execute
<1>16. ASSUME s.op = "section" PROVE call = Section(m, s)
  BY <1>1, <1>16 DEF Execute
<1>17. ASSUME s.op = "catalogue" PROVE call = SectionFromCatalog(m, s)
  BY <1>1, <1>17 DEF Execute
<1>18. ASSUME s.op = "ensure" PROVE call = EnsureFromCatalog(m, s)
  BY <1>1, <1>18 DEF Execute
<1>19. ASSUME s.op = "surface load" PROVE call = SurfaceLoad(m, env, s)
  BY <1>1, <1>19 DEF Execute
<1>20. ASSUME s.op = "wind load" PROVE call = WindLoad(m, env, s)
  BY <1>1, <1>20 DEF Execute
<1>21. ASSUME s.op = "distribute" PROVE call = Distribute(m, env, s)
  BY <1>1, <1>21 DEF Execute
<1>22. ASSUME s.op = "uniform" PROVE call = DistributeUniform(m, env, s)
  BY <1>1, <1>22 DEF Execute
<1>23. ASSUME s.op = "point load" PROVE call = PointLoad(m, env, s)
  BY <1>1, <1>23 DEF Execute
<1>24. ASSUME s.op = "line load" PROVE call = DistributedLoad(m, env, s)
  BY <1>1, <1>24 DEF Execute
<1>25. ASSUME s.op = "self weight" PROVE call = SelfWeight(m, env, s)
  BY <1>1, <1>25 DEF Execute
<1>26. ASSUME s.op = "combination" PROVE call = LoadCombination(m, s)
  BY <1>1, <1>26 DEF Execute
<1>27. ASSUME s.op = "assembly" PROVE call = Assembly(m, env, s)
  BY <1>1, <1>27 DEF Execute
<1>28. ASSUME s.op = "manifest" PROVE call = Manifest(m)
  BY <1>1, <1>28 DEF Execute
<1>29. ASSUME s.op = "alias" PROVE call = AliasOf(m, env, s)
  BY <1>1, <1>29 DEF Execute, AliasOf
<1>30. ASSUME s.op = "basis" PROVE CallOK(m, call)
  BY <1>0, <1>2, <1>30, DesignBasisOK
<1>31. ASSUME s.op = "part" PROVE CallOK(m, call)
  BY <1>0, <1>3, <1>31, RegisterOK
<1>32. ASSUME s.op = "member part" PROVE CallOK(m, call)
  BY <1>0, <1>4, <1>32, MemberPartOK
<1>33. ASSUME s.op = "member" PROVE CallOK(m, call)
  BY <1>0, <1>5, <1>33, MemberFromGeometryOK
<1>34. ASSUME s.op = "axis" PROVE CallOK(m, call)
  BY <1>0, <1>6, <1>34, MemberAxisOK
<1>35. ASSUME s.op = "connect" PROVE CallOK(m, call)
  BY <1>0, <1>7, <1>35, ConnectPartsOK
<1>36. ASSUME s.op = "joint" PROVE CallOK(m, call)
  BY <1>0, <1>8, <1>36, JointFromGeometryOK
<1>37. ASSUME s.op = "restraint" PROVE CallOK(m, call)
  BY <1>0, <1>9, <1>37, RestraintOK
<1>38. ASSUME s.op = "boundary" PROVE CallOK(m, call)
  BY <1>0, <1>10, <1>38, BoundaryOK
<1>39. ASSUME s.op = "stability" PROVE CallOK(m, call)
  BY <1>0, <1>11, <1>39, StabilityOK
<1>40. ASSUME s.op = "cross section" PROVE CallOK(m, call)
  BY <1>0, <1>12, <1>40, CrossSectionOK
<1>41. ASSUME s.op = "member stability" PROVE CallOK(m, call)
  BY <1>0, <1>13, <1>41, MemberStabilityOK
<1>42. ASSUME s.op = "wind" PROVE CallOK(m, call)
  BY <1>0, <1>14, <1>42, WindBasisOK
<1>43. ASSUME s.op = "material" PROVE CallOK(m, call)
  BY <1>0, <1>15, <1>43, MaterialOK
<1>44. ASSUME s.op = "section" PROVE CallOK(m, call)
  BY <1>0, <1>16, <1>44, SectionOK
<1>45. ASSUME s.op = "catalogue"
      PROVE  CallOK(m, call) /\ (call.ok => s.material \in IdsOf(call.model.materials))
  BY <1>0, <1>17, <1>45, SectionFromCatalogOK
<1>46. ASSUME s.op = "ensure"
      PROVE  CallOK(m, call) /\ (call.ok => s.material \in IdsOf(call.model.materials))
  BY <1>0, <1>18, <1>46, EnsureFromCatalogOK
<1>47. ASSUME s.op = "surface load" PROVE CallOK(m, call)
  BY <1>0, <1>19, <1>47, SurfaceLoadOK
<1>48. ASSUME s.op = "wind load" PROVE CallOK(m, call)
  BY <1>0, <1>20, <1>48, WindLoadOK
<1>49. ASSUME s.op = "distribute" PROVE CallOK(m, call)
  BY <1>0, <1>21, <1>49, DistributeOK
<1>50. ASSUME s.op = "uniform" PROVE CallOK(m, call)
  BY <1>0, <1>22, <1>50, DistributeUniformOK
<1>51. ASSUME s.op = "point load" PROVE CallOK(m, call)
  BY <1>0, <1>23, <1>51, PointLoadOK
<1>52. ASSUME s.op = "line load" PROVE CallOK(m, call)
  BY <1>0, <1>24, <1>52, DistributedLoadOK
<1>53. ASSUME s.op = "self weight" PROVE CallOK(m, call)
  BY <1>0, <1>25, <1>53, SelfWeightOK
<1>54. ASSUME s.op = "combination" PROVE CallOK(m, call)
  BY <1>0, <1>26, <1>54, LoadCombinationOK
<1>55. ASSUME s.op = "assembly" PROVE CallOK(m, call)
  BY <1>0, <1>27, <1>55, AssemblyOK
<1>56. ASSUME s.op = "manifest" PROVE CallOK(m, call)
  BY <1>0, <1>28, <1>56, ManifestOK
<1>57. ASSUME s.op = "alias" PROVE CallOK(m, call)
  BY <1>0, <1>29, <1>57, AliasOK
<1>58. CallOK(m, call)
  BY <1>0, <1>30, <1>31, <1>32, <1>33, <1>34, <1>35, <1>36, <1>37, <1>38, <1>39, <1>40, <1>41, <1>42, <1>43, <1>44, <1>45, <1>46, <1>47, <1>48, <1>49, <1>50, <1>51, <1>52, <1>53, <1>54, <1>55, <1>56, <1>57 DEF Ops
<1>59. ASSUME s.op \in {"catalogue", "ensure"}, call.ok PROVE s.material \in IdsOf(call.model.materials)
  BY <1>59, <1>45, <1>46
<1> QED BY <1>1, <1>58, <1>59

----
(* Walks along the connections: what loads lead to, and their paths.       *)

Walks == [kind |-> "walk"]
Reaches == [kind |-> "reach"]

WalkStep(d, how, w) ==
    IF how.kind = "walk"
    THEN IF w.queue = <<>> \/ Grounded(d, Last(Head(w.queue))) THEN w ELSE Followed(d, w)
    ELSE w \cup {c.to : c \in {x \in ToSet(d.connections) : x.from \in w}}

WalkTo(f, d, how, b, n) ==
    f = [k \in 0..n |-> IF k = 0 THEN b ELSE WalkStep(d, how, f[k - 1])]

LEMMA SomeWalk ==
    ASSUME NEW d, NEW how, NEW b
    PROVE  \A n \in Nat : \E f : WalkTo(f, d, how, b, n)
<1> DEFINE T == {n \in Nat : \E f : WalkTo(f, d, how, b, n)}
<1>1. 0 \in T
 <2>1. PICK f : f = [k \in 0..0 |-> b]
   OBVIOUS
 <2>2. \A k \in 0..0 : k = 0
   OBVIOUS
 <2>3. WalkTo(f, d, how, b, 0)
   BY <2>1, <2>2, Zenon DEF WalkTo
 <2> QED BY <2>3
<1>2. ASSUME NEW n \in Nat, n \in T PROVE n + 1 \in T
 <2>1. PICK g : WalkTo(g, d, how, b, n)
   BY <1>2
 <2>2. PICK p : p = n + 1
   OBVIOUS
 <2>3. PICK f : f = [k \in 0..p |-> IF k = 0 THEN b ELSE WalkStep(d, how, g[k - 1])]
   OBVIOUS
 <2>4. ASSUME NEW k \in 0..n PROVE f[k] = g[k]
  <3>1. g[k] = IF k = 0 THEN b ELSE WalkStep(d, how, g[k - 1])
    BY <2>1, Zenon DEF WalkTo
  <3>2. k \in 0..p
    BY <2>2
  <3> QED BY <2>3, <3>1, <3>2, Zenon
 <2>5. ASSUME NEW k \in 0..p, k # 0 PROVE g[k - 1] = f[k - 1]
  <3>1. k - 1 \in 0..n
    BY <2>2, <2>5
  <3> QED BY <2>4, <3>1
 <2>6. WalkTo(f, d, how, b, p)
   BY <2>3, <2>5, Zenon DEF WalkTo
 <2> QED BY <2>2, <2>6
<1> HIDE DEF T
<1>3. \A n \in Nat : n \in T
  BY <1>1, <1>2, AllNaturals
<1> QED BY <1>3 DEF T

Walked(d, how, b, n) == CHOOSE f : WalkTo(f, d, how, b, n)

LEMMA WalkSteps ==
    ASSUME NEW d, NEW how, NEW b, NEW n \in Nat, NEW f, f = Walked(d, how, b, n)
    PROVE  f[0] = b /\ \A k \in 0..(n - 1) : f[k + 1] = WalkStep(d, how, f[k])
<1>1. WalkTo(f, d, how, b, n)
  BY SomeWalk DEF Walked
<1>2. ASSUME NEW k \in 0..n PROVE f[k] = IF k = 0 THEN b ELSE WalkStep(d, how, f[k - 1])
  BY <1>1, Zenon DEF WalkTo
<1>3. f[0] = b
  BY <1>2
<1>4. ASSUME NEW k \in 0..(n - 1) PROVE f[k + 1] = WalkStep(d, how, f[k])
 <2>1. PICK p : p = k + 1
   OBVIOUS
 <2>2. p \in 0..n /\ p # 0 /\ p - 1 = k
   BY <2>1
 <2>3. f[p] = WalkStep(d, how, f[p - 1])
   BY <1>2, <2>2
 <2> QED BY <2>1, <2>2, <2>3
<1> QED BY <1>3, <1>4

LEMMA DownstreamWalked ==
    ASSUME NEW m, NEW from
    PROVE  Downstream(m, from)
              = Walked(m, Reaches, {from}, Len(m.connections))[Len(m.connections)]
  BY DEF Downstream, Walked, WalkTo, WalkStep, Reaches

StartAt(load) == [queue |-> <<<<load.component>>>>, seen |-> {load.component}]

LEMMA PathWalked ==
    ASSUME NEW d, NEW load
    PROVE  LoadPath(d, load)
              = IF Walked(d, Walks, StartAt(load), Len(d.parts))[Len(d.parts)].queue = <<>> THEN <<>>
                ELSE Head(Walked(d, Walks, StartAt(load), Len(d.parts))[Len(d.parts)].queue)
  BY DEF LoadPath, Walked, WalkTo, WalkStep, Walks, StartAt

\* What is closed under the connections holds all that a component leads to.
LEMMA DownstreamWithin ==
    ASSUME NEW m, Len(m.connections) \in Nat, NEW from, NEW S, from \in S,
           \A c \in ToSet(m.connections) : c.from \in S => c.to \in S
    PROVE  Downstream(m, from) \subseteq S
<1>1. PICK n \in Nat : n = Len(m.connections)
  OBVIOUS
<1>2. PICK how, b : how = Reaches /\ b = {from}
  OBVIOUS
<1>3. PICK f : f = Walked(m, how, b, n)
  OBVIOUS
<1>4. f[0] = b /\ \A k \in 0..(n - 1) : f[k + 1] = WalkStep(m, how, f[k])
  BY <1>3, WalkSteps
<1> DEFINE T == {k \in Nat : k <= n => f[k] \subseteq S}
<1>5. 0 \in T
  BY <1>2, <1>4
<1>6. ASSUME NEW k \in Nat, k \in T PROVE k + 1 \in T
 <2>1. SUFFICES ASSUME k + 1 <= n PROVE f[k + 1] \subseteq S
   OBVIOUS
 <2>2. f[k] \subseteq S /\ k \in 0..(n - 1)
   BY <1>6, <2>1
 <2>3. PICK w : w = f[k]
   OBVIOUS
 <2>4. f[k + 1] = w \cup {c.to : c \in {x \in ToSet(m.connections) : x.from \in w}}
   BY <1>2, <1>4, <2>2, <2>3 DEF WalkStep, Reaches
 <2> QED BY <2>2, <2>3, <2>4
<1> HIDE DEF T
<1>7. \A k \in Nat : k \in T
  BY <1>5, <1>6, AllNaturals
<1>8. f[n] \subseteq S
  BY <1>7 DEF T
<1>9. Downstream(m, from) = f[n]
  BY <1>1, <1>2, <1>3, DownstreamWalked
<1> QED BY <1>8, <1>9

LEMMA FirstOfList ==
    ASSUME NEW x, IsList(x), x # <<>>
    PROVE  /\ IsList(Tail(x)) /\ ToSet(x) = {Head(x)} \cup ToSet(Tail(x))
           /\ Head(x) \in ToSet(x)
<1>1. PICK S : S = ToSet(x)
  OBVIOUS
<1>2. x \in Seq(S)
  BY <1>1 DEF IsList
<1>3. PICK n \in Nat : n = Len(x) /\ DOMAIN x = 1..n /\ n # 0
  BY <1>2
<1>4. PICK y : y = Tail(x)
  OBVIOUS
<1>5. y \in Seq(S) /\ Len(y) = n - 1 /\ \A i \in 1..(n - 1) : y[i] = x[i + 1]
  BY <1>2, <1>3, <1>4
<1>6. DOMAIN y = 1..(n - 1) /\ Head(x) = x[1] /\ 1 \in 1..n
  BY <1>2, <1>3, <1>5
<1>7. ASSUME NEW i \in 1..n PROVE x[i] \in {Head(x)} \cup ToSet(y)
 <2>1. CASE i = 1
   BY <1>6, <2>1
 <2>2. CASE i # 1
  <3>1. PICK j : j = i - 1
    OBVIOUS
  <3>2. j \in 1..(n - 1) /\ i = j + 1
    BY <2>2, <3>1
  <3> QED BY <1>5, <1>6, <3>2 DEF ToSet
 <2> QED BY <2>1, <2>2
<1>8. \A i \in 1..(n - 1) : y[i] \in ToSet(x)
 <2>1. \A i \in 1..(n - 1) : i + 1 \in 1..n
   OBVIOUS
 <2> QED BY <1>3, <1>5, <2>1 DEF ToSet
<1>9. ToSet(x) = {Head(x)} \cup ToSet(y) /\ Head(x) \in ToSet(x)
  BY <1>3, <1>6, <1>7, <1>8 DEF ToSet
<1>10. IsList(y)
  BY <1>5, ListFacts
<1> QED BY <1>4, <1>9, <1>10

\* A queue of paths, and what they met.
QueueOK(q) == IsList(q) /\ \A p \in ToSet(q) : IsList(p) /\ p # <<>>

IsLast(q, x) == \E p \in ToSet(q) : Last(p) = x

WalkOK(d, start, w) ==
    /\ DOMAIN w = {"queue", "seen"} /\ QueueOK(w.queue) /\ start \in w.seen
    /\ \A x \in w.seen :
          \/ IsLast(w.queue, x)
          \/ ~Grounded(d, x) /\ \A c \in ToSet(d.connections) : c.from = x => c.to \in w.seen

LEMMA LongerPath ==
    ASSUME NEW p, IsList(p), NEW e
    PROVE  IsList(Append(p, e)) /\ Append(p, e) # <<>> /\ Last(Append(p, e)) = e
<1>1. PICK q : q = Append(p, e)
  OBVIOUS
<1>2. PICK n \in Nat : n = Len(p)
  BY LengthOfList
<1>3. IsList(q) /\ Len(q) = n + 1 /\ q[n + 1] = e /\ DOMAIN q = DOMAIN p \cup {n + 1}
  BY <1>1, <1>2, AddedToList
<1>4. q # <<>>
  BY <1>3
<1> QED BY <1>1, <1>3, <1>4 DEF Last

\* The end of the first path, followed along the first k connections.
FollowOK(path, before, seen, connections, k, w) ==
    /\ DOMAIN w = {"queue", "seen"} /\ QueueOK(w.queue)
    /\ ToSet(before) \subseteq ToSet(w.queue) /\ seen \subseteq w.seen
    /\ \A x \in w.seen : x \in seen \/ IsLast(w.queue, x)
    /\ \A i \in 1..k : connections[i].from = Last(path) => connections[i].to \in w.seen

LEMMA FollowOne ==
    ASSUME NEW path, IsList(path), NEW before, NEW seen, NEW connections, NEW k \in Nat, NEW w,
           FollowOK(path, before, seen, connections, k, w), NEW c, c = connections[k + 1],
           NEW how, how.kind = "follow"
    PROVE  FollowOK(path, before, seen, connections, k + 1, FoldStep(path, how, w, c))
<1>0. PICK n : n = k + 1
  OBVIOUS
<1>1. PICK v : v = FoldStep(path, how, w, c)
  OBVIOUS
<1>2. v = IF c.from = Last(path) /\ c.to \notin w.seen
          THEN [queue |-> Append(w.queue, Append(path, c.to)), seen |-> w.seen \cup {c.to}]
          ELSE w
  BY <1>1 DEF FoldStep
<1>3. \A i \in 1..n : i \in 1..k \/ i = n
  BY <1>0
<1>4. CASE c.from = Last(path) /\ c.to \notin w.seen
 <2>1. PICK p : p = Append(path, c.to)
   OBVIOUS
 <2>2. IsList(p) /\ p # <<>> /\ Last(p) = c.to
   BY <2>1, LongerPath
 <2>3. PICK q, r : q = w.queue /\ r = Append(q, p)
   OBVIOUS
 <2>4. IsList(r) /\ ToSet(r) = ToSet(q) \cup {p}
   BY <2>3, AddedToList DEF FollowOK, QueueOK
 <2>5. v = [queue |-> r, seen |-> w.seen \cup {c.to}]
   BY <1>2, <1>4, <2>1, <2>3
 <2>6. DOMAIN v = {"queue", "seen"} /\ v.queue = r /\ v.seen = w.seen \cup {c.to}
   BY <2>5
 <2>7. QueueOK(r)
   BY <2>2, <2>3, <2>4 DEF FollowOK, QueueOK
 <2>8. \A x \in v.seen : x \in seen \/ IsLast(r, x)
   BY <2>2, <2>3, <2>4, <2>6 DEF FollowOK, IsLast
 <2>9. \A i \in 1..n : connections[i].from = Last(path) => connections[i].to \in v.seen
   BY <1>0, <1>3, <2>6 DEF FollowOK
 <2> QED BY <1>0, <1>1, <2>3, <2>4, <2>6, <2>7, <2>8, <2>9 DEF FollowOK
<1>5. CASE ~(c.from = Last(path) /\ c.to \notin w.seen)
 <2>1. v = w
   BY <1>2, <1>5
 <2>2. \A i \in 1..n : connections[i].from = Last(path) => connections[i].to \in v.seen
   BY <1>0, <1>3, <1>5, <2>1 DEF FollowOK
 <2> QED BY <1>0, <1>1, <2>1, <2>2 DEF FollowOK
<1> QED BY <1>4, <1>5

LEMMA FollowedOK ==
    ASSUME NEW d, IsList(d.connections), NEW start, NEW w, WalkOK(d, start, w), w.queue # <<>>,
           ~Grounded(d, Last(Head(w.queue)))
    PROVE  WalkOK(d, start, Followed(d, w))
<1>1. PICK connections : connections = d.connections
  OBVIOUS
<1>2. PICK n \in Nat : n = Len(connections) /\ DOMAIN connections = 1..n
  BY <1>1, LengthOfList
<1>3. PICK queue, path, before, seen :
          queue = w.queue /\ path = Head(queue) /\ before = Tail(queue) /\ seen = w.seen
  OBVIOUS
<1>4. IsList(queue) /\ queue # <<>> /\ QueueOK(queue)
  BY <1>3 DEF WalkOK, QueueOK
<1>5. IsList(before) /\ ToSet(queue) = {path} \cup ToSet(before) /\ path \in ToSet(queue)
  BY <1>3, <1>4, FirstOfList
<1>6. IsList(path) /\ QueueOK(before)
  BY <1>4, <1>5 DEF QueueOK
<1>7. PICK how, b : how = Follows /\ b = [w EXCEPT !.queue = Tail(@)]
  OBVIOUS
<1>8. how.kind = "follow"
  BY <1>7 DEF Follows
<1>9. DOMAIN b = {"queue", "seen"} /\ b.queue = before /\ b.seen = seen
  BY <1>3, <1>7 DEF WalkOK
<1>10. PICK f : Folds(f, path, how, b, connections, n) /\ Folded(path, how, b, connections, n) = f[n]
  BY FoldSteps
<1> DEFINE T == {k \in Nat : k <= n => FollowOK(path, before, seen, connections, k, f[k])}
<1>11. 0 \in T
 <2>1. f[0] = b
   BY <1>10 DEF Folds
 <2>2. FollowOK(path, before, seen, connections, 0, b)
   BY <1>6, <1>9 DEF FollowOK
 <2> QED BY <2>1, <2>2
<1>12. ASSUME NEW k \in Nat, k \in T PROVE k + 1 \in T
 <2>1. SUFFICES ASSUME k + 1 <= n PROVE FollowOK(path, before, seen, connections, k + 1, f[k + 1])
   OBVIOUS
 <2>2. FollowOK(path, before, seen, connections, k, f[k]) /\ k \in 0..(n - 1)
   BY <1>12, <2>1
 <2>3. f[k + 1] = FoldStep(path, how, f[k], connections[k + 1])
   BY <1>10, <2>2 DEF Folds
 <2>4. PICK v, c : v = f[k] /\ c = connections[k + 1]
   OBVIOUS
 <2>5. FollowOK(path, before, seen, connections, k + 1, FoldStep(path, how, v, c))
   BY <1>6, <1>8, <2>2, <2>4, FollowOne
 <2> QED BY <2>3, <2>4, <2>5
<1> HIDE DEF T
<1>13. \A k \in Nat : k \in T
  BY <1>11, <1>12, AllNaturals
<1>14. PICK v : v = f[n]
  OBVIOUS
<1>15. FollowOK(path, before, seen, connections, n, v)
  BY <1>13, <1>14 DEF T
<1>16. Followed(d, w) = v
  BY <1>1, <1>2, <1>3, <1>7, <1>10, <1>14, FollowFolded
<1>17. ASSUME NEW c \in ToSet(connections), c.from = Last(path) PROVE c.to \in v.seen
  BY <1>2, <1>15, <1>17 DEF FollowOK, ToSet
<1>18. ASSUME NEW x \in v.seen
       PROVE  \/ IsLast(v.queue, x)
              \/ ~Grounded(d, x) /\ \A c \in ToSet(connections) : c.from = x => c.to \in v.seen
 <2>1. CASE x \notin seen
   BY <1>15, <2>1 DEF FollowOK
 <2>2. CASE x \in seen /\ IsLast(queue, x)
  <3>1. PICK p \in ToSet(queue) : Last(p) = x
    BY <2>2 DEF IsLast
  <3>2. CASE p = path
    BY <1>3, <1>17, <3>1, <3>2
  <3>3. CASE p # path
   <4>1. p \in ToSet(v.queue)
     BY <1>5, <1>15, <3>1, <3>3 DEF FollowOK
   <4> QED BY <3>1, <4>1 DEF IsLast
  <3> QED BY <3>2, <3>3
 <2>3. CASE x \in seen /\ ~IsLast(queue, x)
  <3>1. ~Grounded(d, x) /\ \A c \in ToSet(connections) : c.from = x => c.to \in seen
    BY <1>1, <1>3, <2>3 DEF WalkOK
  <3>2. seen \subseteq v.seen
    BY <1>15 DEF FollowOK
  <3> QED BY <3>1, <3>2
 <2> QED BY <2>1, <2>2, <2>3
<1>19. DOMAIN v = {"queue", "seen"} /\ QueueOK(v.queue) /\ start \in v.seen
  BY <1>3, <1>15 DEF FollowOK, WalkOK
<1>20. WalkOK(d, start, v)
  BY <1>1, <1>18, <1>19 DEF WalkOK
<1> QED BY <1>16, <1>20

\* A load that is connected to the ground has a path to it.
LEMMA LoadHasPath ==
    ASSUME NEW d, IsList(d.connections), IsList(d.parts), NEW load, ReachesGround(d, load)
    PROVE  LoadPath(d, load) # <<>>
<1>1. PICK n \in Nat : n = Len(d.parts)
  BY LengthOfList
<1>2. PICK start : start = load.component
  OBVIOUS
<1>3. PICK how, b : how = Walks /\ b = StartAt(load)
  OBVIOUS
<1>4. PICK f : f = Walked(d, how, b, n)
  OBVIOUS
<1>5. f[0] = b /\ \A k \in 0..(n - 1) : f[k + 1] = WalkStep(d, how, f[k])
  BY <1>4, WalkSteps
<1>6. WalkOK(d, start, b)
 <2>1. PICK e, p, q : e = <<>> /\ p = Append(e, start) /\ q = Append(e, p)
   OBVIOUS
 <2>2. p = <<start>> /\ q = <<p>>
   BY <2>1
 <2>3. DOMAIN b = {"queue", "seen"} /\ b.queue = q /\ b.seen = {start}
   BY <1>2, <1>3, <2>2 DEF StartAt
 <2>4. IsList(e) /\ ToSet(e) = {}
   BY <2>1, EmptyList
 <2>5. IsList(p) /\ p # <<>> /\ Last(p) = start
   BY <2>1, <2>4, LongerPath
 <2>6. IsList(q) /\ ToSet(q) = {p}
  <3>1. IsList(Append(e, p)) /\ ToSet(Append(e, p)) = ToSet(e) \cup {p}
    BY <2>4, AddedToList
  <3> QED BY <2>1, <2>4, <3>1
 <2> QED BY <2>3, <2>5, <2>6 DEF WalkOK, QueueOK, IsLast
<1> DEFINE T == {k \in Nat : k <= n => WalkOK(d, start, f[k])}
<1>7. 0 \in T
  BY <1>5, <1>6
<1>8. ASSUME NEW k \in Nat, k \in T PROVE k + 1 \in T
 <2>1. SUFFICES ASSUME k + 1 <= n PROVE WalkOK(d, start, f[k + 1])
   OBVIOUS
 <2>2. WalkOK(d, start, f[k]) /\ k \in 0..(n - 1)
   BY <1>8, <2>1
 <2>3. PICK w : w = f[k]
   OBVIOUS
 <2>4. f[k + 1] = IF w.queue = <<>> \/ Grounded(d, Last(Head(w.queue))) THEN w ELSE Followed(d, w)
   BY <1>3, <1>5, <2>2, <2>3 DEF WalkStep, Walks
 <2>5. CASE w.queue = <<>> \/ Grounded(d, Last(Head(w.queue)))
   BY <2>2, <2>3, <2>4, <2>5
 <2>6. CASE ~(w.queue = <<>> \/ Grounded(d, Last(Head(w.queue))))
  <3>1. WalkOK(d, start, Followed(d, w))
    BY <2>2, <2>3, <2>6, FollowedOK
  <3> QED BY <2>4, <2>6, <3>1
 <2> QED BY <2>5, <2>6
<1> HIDE DEF T
<1>9. \A k \in Nat : k \in T
  BY <1>7, <1>8, AllNaturals
<1>10. PICK w : w = f[n]
  OBVIOUS
<1>11. WalkOK(d, start, w)
  BY <1>9, <1>10 DEF T
<1>12. LoadPath(d, load) = IF w.queue = <<>> THEN <<>> ELSE Head(w.queue)
  BY <1>1, <1>3, <1>4, <1>10, PathWalked
<1>13. ASSUME w.queue = <<>> PROVE FALSE
 <2>1. \A x : ~IsLast(w.queue, x)
   BY <1>13, EmptyList DEF IsLast
 <2>2. /\ start \in w.seen /\ \A x \in w.seen : ~Grounded(d, x)
       /\ \A c \in ToSet(d.connections) : c.from \in w.seen => c.to \in w.seen
   BY <1>11, <2>1 DEF WalkOK
 <2>3. PICK seen : seen = w.seen
   OBVIOUS
 <2>4. Downstream(d, start) \subseteq seen
  <3>1. Len(d.connections) \in Nat
    BY LengthOfList
  <3> QED BY <2>2, <2>3, <3>1, DownstreamWithin
 <2> QED BY <1>2, <2>2, <2>3, <2>4 DEF ReachesGround
<1>14. ASSUME w.queue # <<>> PROVE Head(w.queue) # <<>>
 <2>1. PICK q : q = w.queue
   OBVIOUS
 <2>2. IsList(q) /\ q # <<>> /\ QueueOK(q)
   BY <1>11, <1>14, <2>1 DEF WalkOK, QueueOK
 <2>3. Head(q) \in ToSet(q)
   BY <2>2, FirstOfList
 <2> QED BY <2>1, <2>2, <2>3 DEF QueueOK
<1> QED BY <1>12, <1>13, <1>14

----
(* What is declared of a whole model is accepted.                          *)

\* A declaration of a model: its combinations, or one of all its cases.
DeclaredOf(m, d) ==
    /\ ModelOK(m) /\ IsModel(d)
    /\ \A f \in ModelFields \ {"candidates", "geometry", "materialIds", "sectionIds", "combos"} :
          d[f] = m[f]
    /\ \/ m.combos # <<>> /\ d.combos = m.combos
       \/ /\ m.combos = <<>>
          /\ \A c \in ToSet(d.combos) : c.sound /\ c.factors = DOMAIN m.cases

LEMMA DeclaredIs ==
    ASSUME NEW m, ModelOK(m)
    PROVE  DeclaredOf(m, Declared(m))
<1>1. PICK r : r = [id |-> "SLS-1.0", limit |-> "serviceability", factors |-> DOMAIN m.cases,
                    sound |-> TRUE]
  OBVIOUS
<1>2. PICK e, combos : e = <<>> /\ combos = (IF m.combos # <<>> THEN m.combos ELSE Append(e, r))
  OBVIOUS
<1>3. Append(e, r) = <<r>>
  BY <1>2
<1>4. PICK d : d = Declared(m)
  OBVIOUS
<1>5. d = [m EXCEPT !.candidates = <<>>, !.geometry = {}, !.materialIds = {}, !.sectionIds = {},
                    !.combos = combos]
  BY <1>1, <1>2, <1>3, <1>4 DEF Declared
<1>6. DOMAIN d = ModelFields /\ d.candidates = e /\ d.combos = combos
      /\ \A f \in ModelFields \ {"candidates", "geometry", "materialIds", "sectionIds", "combos"} :
            d[f] = m[f]
  BY <1>2, <1>5 DEF ModelOK, IsModel, ModelFields
<1>7. IsRegister(e) /\ ToSet(e) = {} /\ IdsOf(e) = {}
  BY <1>2, EmptyRegister
<1>8. IsRegister(Append(e, r)) /\ ToSet(Append(e, r)) = {r}
  BY <1>7, Registered
<1>9. IsRegister(m.combos)
  BY FieldsAre DEF ModelOK
<1>10. IsRegister(combos)
  BY <1>2, <1>8, <1>9
<1>11. \A f \in RegisterFields : IsRegister(d[f])
 <2>1. \A f \in RegisterFields : f = "candidates" \/ f = "combos" \/ d[f] = m[f]
   BY <1>6 DEF ModelFields, RegisterFields
 <2> QED BY <1>6, <1>7, <1>10, <2>1 DEF ModelOK, IsModel
<1>12. \/ m.combos # <<>> /\ d.combos = m.combos
       \/ /\ m.combos = <<>>
          /\ \A c \in ToSet(d.combos) : c.sound /\ c.factors = DOMAIN m.cases
 <2>1. CASE m.combos # <<>>
   BY <1>2, <1>6, <2>1
 <2>2. CASE m.combos = <<>>
  <3>1. ToSet(d.combos) = {r}
    BY <1>2, <1>6, <1>8, <2>2
  <3> QED BY <1>1, <2>2, <3>1
 <2> QED BY <2>1, <2>2
<1> QED BY <1>4, <1>6, <1>11, <1>12 DEF DeclaredOf, IsModel

LEMMA DeclaredFields ==
    ASSUME NEW m, NEW d, DeclaredOf(m, d)
    PROVE  /\ d.winds = m.winds /\ d.stability = m.stability /\ d.crossSection = m.crossSection
           /\ d.memberStability = m.memberStability /\ d.parts = m.parts
           /\ d.connections = m.connections /\ d.loads = m.loads /\ d.materials = m.materials
           /\ d.sections = m.sections /\ d.members = m.members /\ d.points = m.points
           /\ d.lines = m.lines /\ d.cases = m.cases
           /\ \A f \in RegisterFields : IsRegister(d[f])
  BY DEF DeclaredOf, ModelFields, IsModel

\* Of the gaps: there is a case; a stability definition has no directions or is
\* sound; an authored segment names restraints of its own member.
LEMMA NoGap ==
    ASSUME NEW d, ~IsKnownGap(d)
    PROVE  /\ d.cases # <<>>
           /\ StabilityIsSound(d) \/ \A t \in ToSet(d.stability) : t.directions = <<>>
           /\ \A v \in ToSet(d.memberStability) : \A g \in ToSet(v.segments) :
                 \A id \in g.starts \cup g.ends :
                    \E c \in ToSet(v.candidates) : c.id = id /\ c.member = g.member
<1>1. d.cases # <<>>
  BY DEF IsKnownGap
<1>2. StabilityIsSound(d) \/ \A t \in ToSet(d.stability) : t.directions = <<>>
  BY DEF IsKnownGap
<1>3. ASSUME NEW v \in ToSet(d.memberStability), NEW g \in ToSet(v.segments),
             NEW id \in g.starts \cup g.ends
      PROVE  \E c \in ToSet(v.candidates) : c.id = id /\ c.member = g.member
  BY DEF IsKnownGap
<1> QED BY <1>1, <1>2, <1>3

LEMMA UniqueIds ==
    ASSUME NEW m, NEW d, DeclaredOf(m, d)
    PROVE  IdsAreUnique(d)
<1>1. \A f \in RegisterFields : IsRegister(d[f])
  BY DeclaredFields
<1>2. ASSUME NEW x \in {d.parts, d.connections, d.loads, d.winds, d.materials, d.sections,
                        d.members, d.points, d.lines, d.combos}
      PROVE  IsRegister(x)
  BY <1>1 DEF RegisterFields
<1>3. ASSUME NEW x \in {d.parts, d.connections, d.loads, d.winds, d.materials, d.sections,
                        d.members, d.points, d.lines, d.combos}
      PROVE  AllDiffer(IdList(x))
  BY <1>2, RegisterIds
<1> QED BY <1>3 DEF IdsAreUnique

LEMMA GraphAccepted ==
    ASSUME NEW m, NEW d, DeclaredOf(m, d), IsWhole(m), d.cases # <<>>
    PROVE  GraphIsSound(d)
<1>1. ModelOK(m) /\ d.parts = m.parts /\ d.connections = m.connections /\ d.loads = m.loads
      /\ d.cases = m.cases
  BY DeclaredFields DEF DeclaredOf
<1>2. d.parts # <<>>
  BY <1>1 DEF ModelOK, CasesOK
<1>3. AllDiffer([i \in DOMAIN d.parts |-> d.parts[i].node])
 <2>1. PICK x : x = d.parts
   OBVIOUS
 <2>2. IsRegister(x)
   BY <1>1, <2>1, FieldsAre DEF ModelOK
 <2>3. PICK n \in Nat : DOMAIN x = 1..n
   BY <2>2, LengthOfList DEF IsRegister
 <2>4. PICK y : y = [i \in DOMAIN x |-> x[i].node]
   OBVIOUS
 <2>5. DOMAIN y = 1..n /\ y = [i \in 1..n |-> y[i]]
   BY <2>3, <2>4
 <2>6. IsList(y)
   BY <2>5, ListOver
 <2>7. \A i, j \in DOMAIN x : x[i].node = x[j].node => i = j
   BY <1>1, <2>1 DEF ModelOK, NodesDiffer
 <2>8. \A i, j \in DOMAIN y : y[i] = y[j] => i = j
   BY <2>3, <2>4, <2>5, <2>7
 <2>9. AllDiffer(y)
   BY <2>6, <2>8, DifferentPlaces
 <2> QED BY <2>1, <2>4, <2>9
<1>4. ASSUME NEW c \in ToSet(d.connections)
      PROVE  /\ {c.from, c.to} \subseteq IdsOf(d.parts) /\ c.from # c.to
             /\ \A v \in ToSet(c.via) : \E p \in ToSet(d.parts) : p.id = v /\ p.kind = "connector"
 <2>1. ConnectionOK(m, c)
   BY <1>1 DEF ModelOK, RecordsOK
 <2> QED BY <1>1, <2>1 DEF ConnectionOK, HasPart
<1>5. LooseParts(d) = {}
  BY <1>1 DEF IsWhole, LooseParts
<1>6. ASSUME NEW l \in ToSet(d.loads)
      PROVE  \E p \in ToSet(d.parts) : p.id = l.component /\ p.kind = "surface"
 <2>1. LoadOK(m, l)
   BY <1>1 DEF ModelOK, RecordsOK
 <2> QED BY <1>1, <2>1 DEF LoadOK, HasPart
<1> QED BY <1>2, <1>3, <1>4, <1>5, <1>6 DEF GraphIsSound

LEMMA LoadsAccepted ==
    ASSUME NEW m, NEW d, DeclaredOf(m, d)
    PROVE  LoadsAreSound(d)
<1>1. ModelOK(m) /\ d.loads = m.loads /\ d.winds = m.winds
  BY DeclaredFields DEF DeclaredOf
<1>2. ASSUME NEW l \in ToSet(d.loads) PROVE LoadOK(m, l)
  BY <1>1 DEF ModelOK, RecordsOK
<1> QED BY <1>1, <1>2 DEF LoadsAreSound, LoadOK

LEMMA MembersAccepted ==
    ASSUME NEW m, NEW d, DeclaredOf(m, d), IsWhole(m), d.cases # <<>>
    PROVE  MembersAreSound(d)
<1>1. /\ ModelOK(m) /\ d.sections = m.sections /\ d.members = m.members /\ d.parts = m.parts
      /\ d.materials = m.materials /\ d.cases = m.cases /\ d.points = m.points
      /\ d.lines = m.lines /\ d.loads = m.loads
      /\ IsRegister(d.points) /\ IsRegister(d.lines)
  BY DeclaredFields DEF DeclaredOf, RegisterFields
<1>2. \A x \in ToSet(d.sections) : x.sound
  BY <1>1 DEF ModelOK, RecordsOK
<1>3. ASSUME NEW x \in ToSet(d.members)
      PROVE  /\ x.sound /\ x.length > 0
             /\ \E p \in ToSet(d.parts) : p.id = x.component /\ p.kind = "member"
             /\ x.section \in IdsOf(d.sections) /\ x.material \in IdsOf(d.materials)
 <2>1. MemberOK(m, x)
   BY <1>1 DEF ModelOK, RecordsOK
 <2> QED BY <1>1, <2>1 DEF MemberOK, HasPart
<1>4. \A c \in DOMAIN d.cases :
          d.cases[c].category \in {"dead", "live", "wind", "imperfection", "fixture"}
  BY <1>1 DEF ModelOK, CasesOK
<1>5. ASSUME NEW l \in ToSet(d.points)
      PROVE  OnMember(m, l) /\ l.at \in 0..Named(d.members, l.member).length
 <2>1. PointOK(m, l)
   BY <1>1 DEF ModelOK, RecordsOK
 <2> QED BY <1>1, <2>1 DEF PointOK
<1>6. ASSUME NEW l \in ToSet(d.lines)
      PROVE  /\ OnMember(m, l) /\ 0 <= l.from /\ l.from < l.to
             /\ l.to <= Named(d.members, l.member).length
 <2>1. LineOK(m, l)
   BY <1>1 DEF ModelOK, RecordsOK
 <2> QED BY <1>1, <2>1 DEF LineOK
<1>7. ToSet(d.points \o d.lines) = ToSet(d.points) \cup ToSet(d.lines)
 <2>1. PICK x, y : x = d.points /\ y = d.lines
   OBVIOUS
 <2>2. IsList(x) /\ IsList(y)
   BY <1>1, <2>1 DEF IsRegister
 <2>3. ToSet(x \o y) = ToSet(x) \cup ToSet(y)
   BY <2>2, JoinedLists
 <2> QED BY <2>1, <2>3
<1>8. ASSUME NEW l \in ToSet(d.points \o d.lines)
      PROVE  /\ l.member \in IdsOf(d.members) /\ l.case \in DOMAIN d.cases
             /\ l.source # "none" => l.source \in IdsOf(d.loads)
 <2>1. OnMember(m, l)
   BY <1>5, <1>6, <1>7
 <2> QED BY <1>1, <2>1 DEF OnMember
<1>9. ASSUME NEW c \in ToSet(d.combos)
      PROVE  c.sound /\ c.factors # {} /\ c.factors \subseteq DOMAIN d.cases
 <2>1. CASE m.combos # <<>> /\ d.combos = m.combos
   BY <1>1, <2>1 DEF ModelOK, RecordsOK, IsWhole
 <2>2. CASE c.sound /\ c.factors = DOMAIN m.cases
   BY <1>1, <2>2 DEF ModelOK, CasesOK
 <2> QED BY <2>1, <2>2 DEF DeclaredOf
<1> QED BY <1>2, <1>3, <1>4, <1>5, <1>6, <1>8, <1>9 DEF MembersAreSound

\* What is declared with the combinations of a limit is among those declared.
LEMMA CombosStay ==
    ASSUME NEW m, NEW d, DeclaredOf(m, d), NEW limits
    PROVE  CombosOf(m, limits) \subseteq CombosOf(d, limits) /\ CombosOf(d, limits) \subseteq IdsOf(d.combos)
<1>1. m.combos = <<>> => CombosOf(m, limits) = {}
  BY EmptyList DEF CombosOf
<1>2. m.combos # <<>> => CombosOf(d, limits) = CombosOf(m, limits)
  BY DEF DeclaredOf, CombosOf
<1>3. CombosOf(d, limits) \subseteq IdsOf(d.combos)
  BY DEF CombosOf, IdsOf
<1> QED BY <1>1, <1>2, <1>3

LEMMA StabilityAccepted ==
    ASSUME NEW m, NEW d, DeclaredOf(m, d), IsWhole(m),
           \A t \in ToSet(d.stability) : t.directions = <<>>
    PROVE  StabilityIsSound(d)
<1>1. ModelOK(m) /\ d.stability = m.stability /\ d.cases = m.cases
  BY DeclaredFields DEF DeclaredOf
<1>2. PICK limits : limits = Limits
  OBVIOUS
<1>3. CombosOf(m, limits) \subseteq IdsOf(d.combos)
  BY CombosStay
<1>4. ASSUME NEW t \in ToSet(d.stability)
      PROVE  /\ t.sound /\ t.combo \in IdsOf(d.combos) /\ CaseIs(d, t.case, "imperfection")
             /\ \A x \in ToSet(t.directions) :
                   {x.combo, x.nhf} \subseteq IdsOf(d.combos) /\ x.case \in DOMAIN d.cases
 <2>1. t.sound
   BY <1>1 DEF ModelOK, OptionsOK
 <2>2. t.combo \in CombosOf(m, limits) /\ CaseIs(m, t.case, "imperfection")
   BY <1>1, <1>2 DEF IsWhole, StabilityIsDeclared
 <2>3. CaseIs(d, t.case, "imperfection")
   BY <1>1, <2>2 DEF CaseIs
 <2>4. ToSet(t.directions) = {}
   BY EmptyList
 <2> QED BY <1>3, <2>1, <2>2, <2>3, <2>4
<1> QED BY <1>4 DEF StabilityIsSound

LEMMA VerificationsAccepted ==
    ASSUME NEW m, NEW d, DeclaredOf(m, d), IsWhole(m), ~IsKnownGap(d)
    PROVE  VerificationsAreSound(d)
<1>1. /\ ModelOK(m) /\ d.crossSection = m.crossSection /\ d.memberStability = m.memberStability
      /\ d.members = m.members /\ d.parts = m.parts /\ d.connections = m.connections
  BY DeclaredFields DEF DeclaredOf
<1>2. PICK limits : limits = {"ultimate"}
  OBVIOUS
<1>3. CombosOf(m, limits) \subseteq CombosOf(d, limits)
  BY CombosStay
<1>4. ASSUME NEW v \in ToSet(d.crossSection) \cup ToSet(d.memberStability)
      PROVE  v.sound /\ v.combos # <<>> /\ ToSet(v.combos) \subseteq CombosOf(d, {"ultimate"})
 <2>1. ToSet(v.combos) \subseteq CombosOf(m, {"ultimate"})
   BY <1>1 DEF IsWhole, VerificationsAreUltimate
 <2>2. v.sound /\ v.combos # <<>>
   BY <1>1 DEF ModelOK, OptionsOK, CrossOK, BucklingOK
 <2> QED BY <1>2, <1>3, <2>1, <2>2
<1>5. ASSUME NEW v \in ToSet(d.crossSection)
      PROVE  AllDiffer(v.members) /\ ToSet(v.members) \subseteq IdsOf(d.members)
  BY <1>1 DEF ModelOK, OptionsOK, CrossOK
<1>6. ASSUME NEW v \in ToSet(d.memberStability) PROVE BucklingOK(m, v)
  BY <1>1 DEF ModelOK, OptionsOK
<1>7. ASSUME NEW v \in ToSet(d.memberStability), NEW c \in ToSet(v.candidates)
      PROVE  /\ c.member \in IdsOf(d.members) /\ c.brace \in IdsOf(d.parts)
             /\ c.connection \in IdsOf(d.connections)
             /\ c.at \in 0..Named(d.members, c.member).length
             /\ c.ground # "none" => c.ground \in IdsOf(d.parts) /\ Grounded(d, c.ground)
 <2>1. CandidateOK(m, c)
   BY <1>6 DEF BucklingOK
 <2> QED BY <1>1, <2>1 DEF CandidateOK, Grounded
<1>8. ASSUME NEW v \in ToSet(d.memberStability), NEW g \in ToSet(v.segments)
      PROVE  /\ g.member \in IdsOf(d.members)
             /\ 0 <= g.from /\ g.from < g.to /\ g.to <= Named(d.members, g.member).length
             /\ \A id \in g.starts \cup g.ends :
                   \E c \in ToSet(v.candidates) : c.id = id /\ c.member = g.member
 <2>1. SegmentOK(m, g)
   BY <1>6 DEF BucklingOK
 <2>2. \A id \in g.starts \cup g.ends :
           \E c \in ToSet(v.candidates) : c.id = id /\ c.member = g.member
   BY NoGap
 <2> QED BY <1>1, <2>1, <2>2 DEF SegmentOK
<1>9. ASSUME NEW v \in ToSet(d.memberStability)
      PROVE  AllDiffer(IdList(v.candidates)) /\ AllDiffer(IdList(v.segments))
  BY <1>6 DEF BucklingOK
<1> QED BY <1>4, <1>5, <1>7, <1>8, <1>9 DEF VerificationsAreSound

\* What execution generates of a model whose calls were checked one by one.
LEMMA DeclaredAccepted ==
    ASSUME NEW m, ModelOK(m), IsWhole(m), NEW d, d = Declared(m), ~IsKnownGap(d)
    PROVE  /\ IsAccepted(d) /\ IsList(d.connections) /\ IsList(d.parts)
           /\ \A l \in ToSet(d.loads) : ReachesGround(d, l)
<1>1. DeclaredOf(m, d)
  BY DeclaredIs
<1>2. d.parts = m.parts /\ d.connections = m.connections /\ d.loads = m.loads
  BY <1>1, DeclaredFields
<1>3. d.cases # <<>>
  BY NoGap
<1>4. IdsAreUnique(d) /\ GraphIsSound(d) /\ LoadsAreSound(d) /\ MembersAreSound(d)
  BY <1>1, <1>3, UniqueIds, GraphAccepted, LoadsAccepted, MembersAccepted
<1>5. StabilityIsSound(d)
  BY <1>1, NoGap, StabilityAccepted
<1>6. VerificationsAreSound(d)
  BY <1>1, VerificationsAccepted
<1>7. ASSUME NEW l \in ToSet(d.loads) PROVE ReachesGround(d, l)
 <2>1. ReachesGround(m, l)
   BY <1>2 DEF IsWhole
 <2>2. PICK c \in Downstream(m, l.component) : Grounded(m, c)
   BY <2>1 DEF ReachesGround
 <2>3. PICK from : from = l.component
   OBVIOUS
 <2>4. Downstream(d, from) = Downstream(m, from)
  <3>1. PICK how, b, n : how = Reaches /\ b = {from} /\ n = Len(m.connections)
    OBVIOUS
  <3>2. ASSUME NEW f PROVE WalkTo(f, d, how, b, n) <=> WalkTo(f, m, how, b, n)
    BY <1>2, <3>1 DEF WalkTo, WalkStep, Reaches
  <3>3. Walked(d, how, b, n) = Walked(m, how, b, n)
    BY <3>2 DEF Walked
  <3>4. Downstream(d, from) = Walked(d, Reaches, {from}, Len(d.connections))[Len(d.connections)]
        /\ Downstream(m, from) = Walked(m, Reaches, {from}, Len(m.connections))[Len(m.connections)]
    BY DownstreamWalked
  <3> QED BY <1>2, <3>1, <3>3, <3>4
 <2>5. Grounded(d, c)
   BY <1>2, <2>2 DEF Grounded
 <2> QED BY <2>2, <2>3, <2>4, <2>5 DEF ReachesGround
<1>8. IsList(d.connections) /\ IsList(d.parts)
  BY <1>1, DeclaredFields DEF RegisterFields, IsRegister
<1> QED BY <1>4, <1>5, <1>6, <1>7, <1>8 DEF IsAccepted

----
(* A manifest that execution generates is captured.                        *)

Carried(d) == IsAccepted(d) /\ \A l \in ToSet(d.loads) : LoadPath(d, l) # <<>>

\* A run's model is one that its checks leave, and the manifest it generated, if it
\* did, is accepted with a path of each load.
RunOK(r) ==
    /\ DOMAIN r = {"status", "model", "env", "manifest"}
    /\ ModelOK(r.model) /\ EnvOK(r.model, r.env)
    /\ \/ r.manifest = <<>>
       \/ \E d : r.manifest = <<d>> /\ (~IsKnownGap(d) => Carried(d))

CaptureInv ==
    /\ RunOK(run) /\ design_ \in Scripted /\ line \in Nat \ {0}
    /\ captured # <<>> => line > Len(Statements(design_))
    /\ ManifestIsCaptured

LEMMA GeneratedCarried ==
    ASSUME NEW m, ModelOK(m), IsWhole(m), NEW d, d = Declared(m), ~IsKnownGap(d)
    PROVE  Carried(d)
<1>1. /\ IsAccepted(d) /\ IsList(d.connections) /\ IsList(d.parts)
      /\ \A l \in ToSet(d.loads) : ReachesGround(d, l)
  BY DeclaredAccepted
<1>2. ASSUME NEW l \in ToSet(d.loads) PROVE LoadPath(d, l) # <<>>
  BY <1>1, LoadHasPath
<1> QED BY <1>1, <1>2 DEF Carried

LEMMA AssignedOK ==
    ASSUME NEW m, NEW env, EnvOK(m, env), NEW s, NEW h, HandleOK(m, h),
           s.op \in {"catalogue", "ensure"} => s.material \in IdsOf(m.materials)
    PROVE  EnvOK(m, Assigned(env, s, h))
<1>1. PICK own : own = IF s.name = "" THEN env ELSE Put(env, s.name, h)
  OBVIOUS
<1>2. EnvOK(m, own)
  BY <1>1, EnvPut
<1>3. CASE s.op \in {"catalogue", "ensure"}
 <2>1. PICK g : g = Handle("material", s.material)
   OBVIOUS
 <2>2. HandleOK(m, g)
   BY <1>3, <2>1 DEF HandleOK, Handle
 <2>3. EnvOK(m, Put(own, s.also, g))
   BY <1>2, <2>2, EnvPut
 <2> QED BY <1>1, <1>3, <2>1, <2>3 DEF Assigned
<1>4. CASE s.op = "joint"
 <2>1. PICK g : g = Handle("part", s.id)
   OBVIOUS
 <2>2. HandleOK(m, g)
   BY <2>1 DEF HandleOK, Handle
 <2>3. EnvOK(m, Put(own, s.also, g))
   BY <1>2, <2>2, EnvPut
 <2> QED BY <1>1, <1>4, <2>1, <2>3 DEF Assigned
<1>5. CASE s.op \notin {"catalogue", "ensure"} /\ s.op # "joint"
  BY <1>1, <1>2, <1>5 DEF Assigned
<1> QED BY <1>3, <1>4, <1>5

LEMMA AfterCallOK ==
    ASSUME RunOK(run), NEW s, IsStatement(s)
    PROVE  RunOK(AfterCall(s, Execute(run.model, run.env, s)))
<1>1. PICK m, env : m = run.model /\ env = run.env
  OBVIOUS
<1>2. PICK call : call = Execute(m, env, s)
  OBVIOUS
<1>3. ModelOK(m) /\ EnvOK(m, env)
  BY <1>1 DEF RunOK
<1>4. /\ CallOK(m, call)
      /\ s.op \in {"catalogue", "ensure"} /\ call.ok => s.material \in IdsOf(call.model.materials)
  BY <1>2, <1>3, ExecuteOK
<1>5. PICK n : n = call.model
  OBVIOUS
<1>6. ModelOK(n) /\ EnvOK(n, env)
  BY <1>3, <1>4, <1>5, EnvStays DEF CallOK
<1>7. PICK after : after = AfterCall(s, call)
  OBVIOUS
<1>8. CASE run.status # "running"
 <2>1. after = run
   BY <1>7, <1>8 DEF AfterCall
 <2> QED BY <1>1, <1>2, <1>7, <2>1
<1>9. CASE run.status = "running" /\ call.ok
 <2>1. PICK names : names = Assigned(env, s, call.handle)
   OBVIOUS
 <2>2. EnvOK(n, names)
  <3>1. PICK h : h = call.handle
    OBVIOUS
  <3>2. HandleOK(n, h)
    BY <1>4, <1>5, <1>9, <3>1 DEF CallOK
  <3>3. s.op \in {"catalogue", "ensure"} => s.material \in IdsOf(n.materials)
    BY <1>4, <1>5, <1>9
  <3>4. EnvOK(n, Assigned(env, s, h))
    BY <1>6, <3>2, <3>3, AssignedOK
  <3> QED BY <2>1, <3>1, <3>4
 <2>3. PICK made : made = IF s.op = "manifest" /\ s.name = Declaration THEN <<Declared(n)>>
                          ELSE run.manifest
   OBVIOUS
 <2>4. after = [run EXCEPT !.model = n, !.env = names, !.manifest = made]
   BY <1>1, <1>5, <1>7, <1>9, <2>1, <2>3 DEF AfterCall
 <2>5. DOMAIN after = {"status", "model", "env", "manifest"} /\ after.model = n
       /\ after.env = names /\ after.manifest = made
   BY <2>4 DEF RunOK
 <2>6. made = <<>> \/ \E d : made = <<d>> /\ (~IsKnownGap(d) => Carried(d))
  <3>1. CASE s.op = "manifest" /\ s.name = Declaration
   <4>1. call = Manifest(m)
     BY <1>2, <3>1 DEF Execute
   <4>2. IsWhole(m) /\ n = m
     BY <1>5, <1>9, <4>1 DEF Manifest, Take, Done, Refused
   <4>3. PICK d : d = Declared(n)
     OBVIOUS
   <4>4. ~IsKnownGap(d) => Carried(d)
     BY <1>6, <4>2, <4>3, GeneratedCarried
   <4>5. made = <<d>>
     BY <2>3, <3>1, <4>3
   <4> QED BY <4>4, <4>5
  <3>2. CASE ~(s.op = "manifest" /\ s.name = Declaration)
    BY <2>3, <3>2 DEF RunOK
  <3> QED BY <3>1, <3>2
 <2>7. RunOK(after)
   BY <1>6, <2>2, <2>5, <2>6 DEF RunOK
 <2> QED BY <1>1, <1>2, <1>7, <2>7
<1>10. CASE run.status = "running" /\ ~call.ok /\ s.form = "hidden"
 <2>1. after = [run EXCEPT !.model = n]
   BY <1>4, <1>5, <1>7, <1>10 DEF AfterCall, CallOK
 <2>2. DOMAIN after = {"status", "model", "env", "manifest"} /\ after.model = n
       /\ after.env = env /\ after.manifest = run.manifest
   BY <1>1, <2>1 DEF RunOK
 <2>3. RunOK(after)
   BY <1>6, <2>2 DEF RunOK
 <2> QED BY <1>1, <1>2, <1>7, <2>3
<1>11. CASE run.status = "running" /\ ~call.ok /\ s.form # "hidden"
 <2>1. after = [run EXCEPT !.status = "failed"]
   BY <1>4, <1>7, <1>11 DEF AfterCall, CallOK
 <2>2. DOMAIN after = {"status", "model", "env", "manifest"} /\ after.model = m
       /\ after.env = env /\ after.manifest = run.manifest
   BY <1>1, <2>1 DEF RunOK
 <2>3. RunOK(after)
   BY <1>3, <2>2 DEF RunOK
 <2> QED BY <1>1, <1>2, <1>7, <2>3
<1> QED BY <1>8, <1>9, <1>10, <1>11

LEMMA NewModelOK == ModelOK(NewModel)
<1>1. PICK m : m = NewModel
  OBVIOUS
<1>2. PICK e : e = <<>>
  OBVIOUS
<1>3. DOMAIN m = ModelFields
  BY <1>1 DEF NewModel, ModelFields
<1>4. /\ m.stability = e /\ m.crossSection = e /\ m.memberStability = e /\ m.parts = e
      /\ m.connections = e /\ m.candidates = e /\ m.loads = e /\ m.materials = e
      /\ m.sections = e /\ m.members = e /\ m.points = e /\ m.lines = e /\ m.combos = e
      /\ m.winds = e /\ m.cases = e
  BY <1>1, <1>2 DEF NewModel
<1>5. IsRegister(e) /\ ToSet(e) = {} /\ IdsOf(e) = {} /\ DOMAIN e = {}
  BY <1>2, EmptyRegister
<1>6. \A f \in RegisterFields : m[f] = e
  BY <1>4 DEF RegisterFields
<1>7. IsModel(m)
  BY <1>3, <1>5, <1>6 DEF IsModel
<1>8. NodesDiffer(m) /\ IdsKept(m)
  BY <1>4, <1>5 DEF NodesDiffer, IdsKept
<1>9. CasesOK(m)
  BY <1>2, <1>4, <1>5 DEF CasesOK
<1>10. RecordsOK(m) /\ OptionsOK(m)
  BY <1>4, <1>5 DEF RecordsOK, OptionsOK
<1> QED BY <1>1, <1>7, <1>8, <1>9, <1>10 DEF ModelOK

\* What is captured of a declaration that is accepted with a path of each load.
LEMMA CarriedIsCaptured ==
    ASSUME NEW d, Carried(d)
    PROVE  CaptureOf(d).accepted /\ <<>> \notin ToSet(CaptureOf(d).paths)
<1>1. PICK paths : paths = [i \in DOMAIN d.loads |-> LoadPath(d, d.loads[i])]
  OBVIOUS
<1>2. CaptureOf(d) = [accepted |-> TRUE, paths |-> paths]
  BY <1>1 DEF CaptureOf, Carried
<1>3. \A i \in DOMAIN d.loads : d.loads[i] \in ToSet(d.loads)
  BY DEF ToSet
<1>4. \A i \in DOMAIN d.loads : LoadPath(d, d.loads[i]) # <<>>
  BY <1>3 DEF Carried
<1>5. <<>> \notin ToSet(paths)
  BY <1>1, <1>4 DEF ToSet
<1> QED BY <1>2, <1>5

\* The theorem: of any design, with whatever departures and refusals, a manifest
\* that its execution generates is captured with every load carried to ground.
THEOREM CaptureCorrect == AuthoringSpec => []ManifestIsCaptured
<1>1. AuthoringInit => CaptureInv
 <2>1. SUFFICES ASSUME AuthoringInit PROVE CaptureInv
   OBVIOUS
 <2>2. PICK m, e : m = NewModel /\ e = <<>>
   OBVIOUS
 <2>3. run = [status |-> "running", model |-> m, env |-> e, manifest |-> e] /\ captured = e
   BY <2>1, <2>2 DEF AuthoringInit
 <2>4. EnvOK(m, e)
   BY <2>2 DEF EnvOK
 <2>5. RunOK(run)
   BY <2>2, <2>3, <2>4, NewModelOK DEF RunOK
 <2>6. ManifestIsCaptured
   BY <2>2, <2>3, EmptyList DEF ManifestIsCaptured
 <2> QED BY <2>1, <2>2, <2>3, <2>5, <2>6 DEF CaptureInv, AuthoringInit
<1>2. CaptureInv /\ [AuthoringNext]_authoringVars => CaptureInv'
 <2>1. SUFFICES ASSUME CaptureInv, [AuthoringNext]_authoringVars PROVE CaptureInv'
   OBVIOUS
 <2>2. ASSUME UNCHANGED <<run, captured>>, line' \in Nat \ {0}, design_' = design_, line' >= line
       PROVE  CaptureInv'
  <3>1. ManifestIsCaptured'
    BY <2>1, <2>2 DEF CaptureInv, ManifestIsCaptured
  <3>2. RunOK(run')
    BY <2>1, <2>2 DEF CaptureInv
  <3>3. Len(Statements(design_)) \in Nat
    BY <2>1, StatementsAssumption DEF CaptureInv
  <3>4. captured' # <<>> => line' > Len(Statements(design_'))
    BY <2>1, <2>2, <3>3 DEF CaptureInv
  <3> QED BY <2>1, <2>2, <3>1, <3>2, <3>4 DEF CaptureInv
 <2>3. CASE WriteNext
  <3>1. /\ line <= Len(Statements(design_)) /\ line \in Nat \ {0} /\ design_ \in Scripted
        /\ Len(Statements(design_)) \in Nat
    BY <2>1, <2>3, StatementsAssumption DEF WriteNext, CaptureInv
  <3>2. PICK written : written = Statements(design_)[line]
    OBVIOUS
  <3>3. PICK s \in Chosen(written), again \in BOOLEAN :
            TakeStatement(s) /\ line' = IF again THEN line ELSE line + 1
    BY <2>3, <3>2 DEF WriteNext
  <3>4. s \in {written.own} \cup written.others
    BY <3>3 DEF Chosen
  <3>5. line \in DOMAIN Statements(design_)
    BY <3>1, StatementsAssumption
  <3>6. IsStatement(s)
    BY <3>1, <3>2, <3>4, <3>5, StatementsAssumption
  <3>7. run' = AfterCall(s, Execute(run.model, run.env, s)) /\ captured' = captured
    BY <3>3 DEF TakeStatement
  <3>8. RunOK(run')
    BY <2>1, <3>6, <3>7, AfterCallOK DEF CaptureInv
  <3>9. captured = <<>>
    BY <2>1, <3>1 DEF CaptureInv
  <3>10. ManifestIsCaptured'
    BY <3>7, <3>9, EmptyList DEF ManifestIsCaptured
  <3>11. line' \in Nat \ {0} /\ design_' = design_
    BY <2>3, <3>1, <3>3 DEF WriteNext
  <3> QED BY <3>1, <3>7, <3>8, <3>9, <3>10, <3>11 DEF CaptureInv
 <2>4. CASE LeaveOut
   BY <2>1, <2>2, <2>4 DEF LeaveOut, CaptureInv
 <2>5. CASE CaptureBoth
  <3>1. line > Len(Statements(design_)) /\ UNCHANGED <<design_, line, run>>
    BY <2>5 DEF CaptureBoth
  <3>2. PICK made, read :
            /\ captured' = <<[manifest |-> made, declaration |-> read]>>
            /\ made = IF run.status = "running" /\ run.manifest # <<>>
                      THEN <<CaptureOf(Head(run.manifest))>> ELSE <<>>
    BY <2>5 DEF CaptureBoth
  <3>3. PICK both : both = [manifest |-> made, declaration |-> read]
    OBVIOUS
  <3>4. ToSet(captured') = {both} /\ both.manifest = made
    BY <3>2, <3>3, OnlyOne
  <3>5. ASSUME NEW c \in ToSet(made), ~IsKnownGap(Head(run.manifest))
        PROVE  c.accepted /\ <<>> \notin ToSet(c.paths)
   <4>1. run.manifest # <<>> /\ made = <<CaptureOf(Head(run.manifest))>>
     BY <3>2, <3>5, EmptyList
   <4>2. PICK d : run.manifest = <<d>> /\ (~IsKnownGap(d) => Carried(d))
     BY <2>1, <4>1 DEF CaptureInv, RunOK
   <4>3. Head(run.manifest) = d
     BY <4>2
   <4>4. c = CaptureOf(d)
     BY <3>5, <4>1, <4>3, OnlyOne
   <4> QED BY <3>5, <4>2, <4>3, <4>4, CarriedIsCaptured
  <3>6. ManifestIsCaptured'
    BY <3>1, <3>4, <3>5 DEF ManifestIsCaptured
  <3> QED BY <2>1, <3>1, <3>6 DEF CaptureInv
 <2>6. CASE UNCHANGED authoringVars
   BY <2>1, <2>2, <2>6 DEF authoringVars, CaptureInv
 <2> QED BY <2>1, <2>3, <2>4, <2>5, <2>6 DEF AuthoringNext
<1>3. CaptureInv => ManifestIsCaptured
  BY DEF CaptureInv
<1> QED BY <1>1, <1>2, <1>3, PTL DEF AuthoringSpec

----
(* Reading beside execution: what is read keeps reading's model like the one *)
(* that execution builds, as long as nothing is passed over.                 *)

SameFields == ModelFields \ {"candidates", "geometry", "materialIds", "sectionIds"}

\* No restraint is read.
Alike(m, k) ==
    /\ DOMAIN m = ModelFields /\ DOMAIN k = ModelFields
    /\ \A f \in SameFields : m[f] = k[f]
    /\ m.candidates = <<>>

IsCase(x) == x = [category |-> x.category, label |-> x.label]
CasesAre(cases) == cases = [c \in DOMAIN cases |-> cases[c]] /\ \A c \in DOMAIN cases : IsCase(cases[c])

\* The assembly has every part, since none is registered behind it.
Assembled(m) ==
    m.assembled # <<>> =>
        AllDiffer(Head(m.assembled)) /\ ToSet(Head(m.assembled)) = IdsOf(m.parts)

Read(m, k) == Alike(m, k) /\ CasesAre(m.cases) /\ Assembled(m)

\* A variable of the design stands for what reading has under its kind.
ReadKinds == {"part", "section", "material", "load", "wind"}
EnvKnown(env, h) ==
    \A x \in DOMAIN env :
        /\ env[x].kind # "axis"
        /\ env[x].kind \in ReadKinds =>
              <<env[x].kind, x>> \in DOMAIN h /\ h[<<env[x].kind, x>>] = env[x].id

\* A call that is taken by both.
SameHandle(s, g, r) ==
    \/ s.form = "assign" /\ g = r /\ g.kind \in ReadKinds
    \/ r.kind \in {"none", "manifest"} /\ (s.form = "expr" \/ g.kind \notin ReadKinds \cup {"axis"})
Both(s, call, read) ==
    read.ok /\ Read(call.model, read.model) /\ SameHandle(s, call.handle, read.handle)

Changed(m, n, f, v) ==
    DOMAIN n = ModelFields /\ n[f] = v /\ \A g \in ModelFields : g # f => n[g] = m[g]

LEMMA ChangedBoth ==
    ASSUME NEW m, NEW k, Read(m, k), NEW f \in SameFields, NEW v, NEW n, NEW j,
           Changed(m, n, f, v), Changed(k, j, f, v), f = "cases" => CasesAre(v),
           f \notin {"parts", "assembled"}
    PROVE  Read(n, j)
<1>1. DOMAIN n = ModelFields /\ DOMAIN j = ModelFields /\ SameFields \subseteq ModelFields
  BY DEF Changed, SameFields
<1>2. \A g \in SameFields : n[g] = j[g]
  BY <1>1 DEF Changed, Read, Alike
<1>3. n.candidates = <<>> /\ n.parts = m.parts /\ n.assembled = m.assembled
  BY DEF Changed, Read, Alike, SameFields, ModelFields
<1>4. CasesAre(n.cases)
  BY DEF Changed, Read, ModelFields
<1> QED BY <1>1, <1>2, <1>3, <1>4 DEF Read, Alike, Assembled

LEMMA SameAre ==
    ASSUME NEW m, NEW k, Read(m, k)
    PROVE  /\ DOMAIN m = ModelFields /\ DOMAIN k = ModelFields
           /\ m.basis = k.basis /\ m.winds = k.winds /\ m.stability = k.stability
           /\ m.crossSection = k.crossSection /\ m.memberStability = k.memberStability
           /\ m.parts = k.parts /\ m.connections = k.connections /\ m.loads = k.loads
           /\ m.materials = k.materials /\ m.sections = k.sections /\ m.members = k.members
           /\ m.points = k.points /\ m.lines = k.lines /\ m.combos = k.combos
           /\ m.cases = k.cases /\ m.assembled = k.assembled
  BY DEF Read, Alike, SameFields, ModelFields

LEMMA BothDone ==
    ASSUME NEW s, NEW n, NEW j, Read(n, j), NEW kind, NEW id, NEW other, NEW id2,
           SameHandle(s, Handle(kind, id), Handle(other, id2))
    PROVE  Both(s, Done(n, kind, id), Done(j, other, id2))
  BY DEF Both, Done

LEMMA RefusedNot == ASSUME NEW m PROVE ~Refused(m).ok
  BY DEF Refused

----
(* Bases, parts, materials, sections, connections.                         *)

LEMMA BasisBoth ==
    ASSUME NEW m, NEW k, Read(m, k), NEW s, DesignBasis(m, s).ok
    PROVE  Both(s, DesignBasis(m, s), ReadBasis(k, s))
<1>1. m.basis = <<>> /\ k.basis = <<>>
  BY SameAre, RefusedNot DEF DesignBasis, Take
<1>2. PICK f, v : f = "basis" /\ v = <<s.id>>
  OBVIOUS
<1>3. PICK n, j : n = [m EXCEPT !.basis = v] /\ j = [k EXCEPT !.basis = v]
  OBVIOUS
<1>4. Changed(m, n, f, v) /\ Changed(k, j, f, v) /\ f \in SameFields
  BY <1>2, <1>3, SameAre DEF Changed, ModelFields, SameFields
<1>5. Read(n, j)
  BY <1>2, <1>4, ChangedBoth
<1>6. PICK none : none = "none"
  OBVIOUS
<1>7. SameHandle(s, Handle(none, none), Handle(none, none))
  BY <1>6 DEF SameHandle, Handle, ReadKinds
<1>8. DesignBasis(m, s) = Done(n, none, none) /\ ReadBasis(k, s) = Done(j, none, none)
  BY <1>1, <1>2, <1>3, <1>6, RefusedNot DEF DesignBasis, ReadBasis, Take
<1> QED BY <1>5, <1>7, <1>8, BothDone

LEMMA PartBoth ==
    ASSUME NEW m, ModelOK(m), NEW k, Read(m, k), NEW s, s.form = "assign", Register(m, s).ok
    PROVE  Both(s, Register(m, s), ReadPart(k, s))
<1>0. m.assembled = <<>> /\ k.parts = m.parts /\ k.assembled = <<>>
  BY SameAre, RefusedNot DEF Register, Take
<1>1. PICK f : f = "parts"
  OBVIOUS
<1>2. PICK e : e = [id |-> s.id, kind |-> s.kind, node |-> s.node]
  OBVIOUS
<1>3. PICK n, j : n = [m EXCEPT !.parts = Append(@, e)] /\ j = [k EXCEPT !.parts = Append(@, e)]
  OBVIOUS
<1>4. PICK v : v = Append(m.parts, e)
  OBVIOUS
<1>5. Changed(m, n, f, v) /\ Changed(k, j, f, v)
  BY <1>0, <1>1, <1>3, <1>4, SameAre DEF Changed, ModelFields
<1>6. Alike(n, j)
  BY <1>1, <1>5 DEF Changed, Alike, Read, SameFields, ModelFields
<1>7. n.cases = m.cases /\ n.assembled = <<>>
  BY <1>0, <1>1, <1>5 DEF Changed, ModelFields
<1>8. Read(n, j)
  BY <1>6, <1>7 DEF Read, Assembled
<1>9. PICK part, id : part = "part" /\ id = s.id
  OBVIOUS
<1>10. SameHandle(s, Handle(part, id), Handle(part, id))
  BY <1>9 DEF SameHandle, Handle, ReadKinds
<1>11. Register(m, s) = Done(n, part, id) /\ ReadPart(k, s) = Done(j, part, id)
  BY <1>2, <1>3, <1>9, RefusedNot DEF Register, ReadPart, Take
<1> QED BY <1>8, <1>10, <1>11, BothDone

LEMMA MaterialBoth ==
    ASSUME NEW m, NEW k, Read(m, k), NEW s, s.form = "assign", Material(m, s).ok
    PROVE  Both(s, Material(m, s), ReadMaterial(k, s))
<1>1. PICK f : f = "materials"
  OBVIOUS
<1>2. PICK e : e = [id |-> s.id, of |-> s.of]
  OBVIOUS
<1>3. PICK kept : kept = [m EXCEPT !.materialIds = @ \cup {s.id}]
  OBVIOUS
<1>4. PICK n, j : n = [kept EXCEPT !.materials = Append(@, e)]
                  /\ j = [k EXCEPT !.materials = Append(@, e)]
  OBVIOUS
<1>5. DOMAIN n = ModelFields /\ DOMAIN j = ModelFields /\ n.materials = j.materials
      /\ (\A g \in ModelFields : g \notin {"materials", "materialIds"} => n[g] = m[g])
      /\ (\A g \in ModelFields : g # "materials" => j[g] = k[g])
  BY <1>3, <1>4, SameAre DEF ModelFields
<1>6. Alike(n, j)
  BY <1>5 DEF Alike, Read, SameFields, ModelFields
<1>7. n.cases = m.cases /\ n.assembled = m.assembled /\ n.parts = m.parts
  BY <1>5 DEF ModelFields
<1>8. Read(n, j)
  BY <1>6, <1>7 DEF Read, Assembled
<1>9. PICK kind, id : kind = "material" /\ id = s.id
  OBVIOUS
<1>10. SameHandle(s, Handle(kind, id), Handle(kind, id))
  BY <1>9 DEF SameHandle, Handle, ReadKinds
<1>11. Material(m, s) = Done(n, kind, id)
  BY <1>2, <1>3, <1>4, <1>9, RefusedNot DEF Material, Take
<1>12. ReadMaterial(k, s) = Done(j, kind, id)
  BY <1>2, <1>4, <1>9 DEF ReadMaterial
<1> QED BY <1>8, <1>10, <1>11, <1>12, BothDone

LEMMA SectionBoth ==
    ASSUME NEW m, NEW k, Read(m, k), NEW s, s.form = "assign", Section(m, s).ok
    PROVE  Both(s, Section(m, s), ReadSection(k, s))
<1>0. s.flaw = "none"
  BY RefusedNot DEF Section, Take
<1>2. PICK e : e = [id |-> s.id, of |-> s.of, mass |-> s.mass, sound |-> TRUE]
  OBVIOUS
<1>3. PICK kept : kept = [m EXCEPT !.sectionIds = @ \cup {s.id}]
  OBVIOUS
<1>4. PICK n, j : n = [kept EXCEPT !.sections = Append(@, e)]
                  /\ j = [k EXCEPT !.sections = Append(@, e)]
  OBVIOUS
<1>5. DOMAIN n = ModelFields /\ DOMAIN j = ModelFields /\ n.sections = j.sections
      /\ (\A g \in ModelFields : g \notin {"sections", "sectionIds"} => n[g] = m[g])
      /\ (\A g \in ModelFields : g # "sections" => j[g] = k[g])
  BY <1>3, <1>4, SameAre DEF ModelFields
<1>6. Alike(n, j)
  BY <1>5 DEF Alike, Read, SameFields, ModelFields
<1>7. n.cases = m.cases /\ n.assembled = m.assembled /\ n.parts = m.parts
  BY <1>5 DEF ModelFields
<1>8. Read(n, j)
  BY <1>6, <1>7 DEF Read, Assembled
<1>9. PICK kind, id : kind = "section" /\ id = s.id
  OBVIOUS
<1>10. SameHandle(s, Handle(kind, id), Handle(kind, id))
  BY <1>9 DEF SameHandle, Handle, ReadKinds
<1>11. Section(m, s) = Done(n, kind, id)
  BY <1>2, <1>3, <1>4, <1>9, RefusedNot DEF Section, Take
<1>12. IsSound(s) = TRUE
  BY <1>0 DEF IsSound
<1>13. ReadSection(k, s) = Done(j, kind, id)
  BY <1>2, <1>4, <1>9, <1>12 DEF ReadSection
<1> QED BY <1>8, <1>10, <1>11, <1>13, BothDone

LEMMA WindBoth ==
    ASSUME NEW m, NEW k, Read(m, k), NEW s, s.form = "assign", WindBasis(m, s).ok
    PROVE  Both(s, WindBasis(m, s), ReadWindBasis(k, s))
<1>0. s.id \notin IdsOf(m.winds) /\ k.winds = m.winds
  BY SameAre, RefusedNot DEF WindBasis, Take
<1>1. PICK f, e : f = "winds" /\ e = [id |-> s.id]
  OBVIOUS
<1>2. PICK v : v = Append(m.winds, e)
  OBVIOUS
<1>3. PICK n, j : n = [m EXCEPT !.winds = Append(@, e)] /\ j = [k EXCEPT !.winds = Append(@, e)]
  OBVIOUS
<1>4. Changed(m, n, f, v) /\ Changed(k, j, f, v) /\ f \in SameFields
  BY <1>0, <1>1, <1>2, <1>3, SameAre DEF Changed, ModelFields, SameFields
<1>5. Read(n, j)
  BY <1>1, <1>4, ChangedBoth
<1>9. PICK kind, id : kind = "wind" /\ id = s.id
  OBVIOUS
<1>10. SameHandle(s, Handle(kind, id), Handle(kind, id))
  BY <1>9 DEF SameHandle, Handle, ReadKinds
<1>11. WindBasis(m, s) = Done(n, kind, id) /\ ReadWindBasis(k, s) = Done(j, kind, id)
  BY <1>0, <1>1, <1>3, <1>9, RefusedNot DEF WindBasis, ReadWindBasis, Take
<1> QED BY <1>5, <1>10, <1>11, BothDone

\* What a variable stands for, reading has.
LEMMA HeldKnown ==
    ASSUME NEW env, NEW h, EnvKnown(env, h), NEW x, NEW kind \in ReadKinds, Holds(env, x, kind)
    PROVE  Known(h, kind, x) /\ h[<<kind, x>>] = env[x].id
  BY DEF EnvKnown, Holds, Known

LEMMA PartKnown ==
    ASSUME NEW env, NEW h, EnvKnown(env, h), NEW m, NEW x, PartOf(m, env, x) # {}
    PROVE  Known(h, "part", x) /\ h[<<"part", x>>] = env[x].id
<1>1. PICK kind : kind = "part"
  OBVIOUS
<1>2. Holds(env, x, kind) /\ kind \in ReadKinds
  BY <1>1 DEF PartOf, ReadKinds
<1> QED BY <1>1, <1>2, HeldKnown

LEMMA ConnectBoth ==
    ASSUME NEW m, NEW k, Read(m, k), NEW env, NEW h, EnvKnown(env, h), NEW s, s.form = "expr",
           ConnectParts(m, env, s).ok
    PROVE  Both(s, ConnectParts(m, env, s), ReadConnect(k, h, s))
<1>0. /\ PartOf(m, env, s.from) # {} /\ PartOf(m, env, s.to) # {}
      /\ \A i \in DOMAIN s.via : IsPart(m, env, s.via[i], {"connector"})
  BY RefusedNot DEF ConnectParts, Take
<1>1. ASSUME NEW x \in {s.from, s.to} \cup ToSet(s.via)
      PROVE  Known(h, "part", x) /\ h[<<"part", x>>] = env[x].id
 <2>1. PartOf(m, env, x) # {}
   BY <1>0 DEF IsPart, ToSet
 <2> QED BY <2>1, PartKnown
<1>2. PICK ends : ends = [i \in DOMAIN s.via |-> env[s.via[i]].id]
  OBVIOUS
<1>3. \A i \in DOMAIN s.via : s.via[i] \in ToSet(s.via)
  BY DEF ToSet
<1>4. ends = [i \in DOMAIN s.via |-> h[<<"part", s.via[i]>>]]
  BY <1>1, <1>2, <1>3
<1>5. h[<<"part", s.from>>] = env[s.from].id /\ h[<<"part", s.to>>] = env[s.to].id
  BY <1>1
<1>6. PICK e : e = [id |-> s.id, from |-> env[s.from].id, to |-> env[s.to].id, via |-> ends]
  OBVIOUS
<1>7. PICK f, v : f = "connections" /\ v = Append(m.connections, e)
  OBVIOUS
<1>8. PICK n, j : n = [m EXCEPT !.connections = Append(@, e)]
                  /\ j = [k EXCEPT !.connections = Append(@, e)]
  OBVIOUS
<1>9. Changed(m, n, f, v) /\ Changed(k, j, f, v) /\ f \in SameFields
  BY <1>7, <1>8, SameAre DEF Changed, ModelFields, SameFields
<1>10. Read(n, j)
  BY <1>7, <1>9, ChangedBoth
<1>11. PICK kind, none : kind = "connection" /\ none = "none"
  OBVIOUS
<1>12. SameHandle(s, Handle(kind, s.id), Handle(none, none))
  BY <1>11 DEF SameHandle, Handle
<1>13. ConnectParts(m, env, s) = Done(n, kind, s.id)
  BY <1>2, <1>6, <1>8, <1>11, RefusedNot DEF ConnectParts, Take
<1>14. ReadConnect(k, h, s)
          = Done([k EXCEPT !.connections =
                 Append(@, [id |-> s.id, from |-> h[<<"part", s.from>>],
                            to |-> h[<<"part", s.to>>],
                            via |-> [i \in DOMAIN s.via |-> h[<<"part", s.via[i]>>]]])], none, none)
  BY <1>1, <1>11 DEF ReadConnect, Take
<1>15. ReadConnect(k, h, s) = Done(j, none, none)
  BY <1>4, <1>5, <1>6, <1>8, <1>14
<1> QED BY <1>10, <1>12, <1>13, <1>15, BothDone

LEMMA CombinationBoth ==
    ASSUME NEW m, NEW k, Read(m, k), NEW s, LoadCombination(m, s).ok
    PROVE  Both(s, LoadCombination(m, s), ReadCombination(k, s))
<1>0. s.flaw = "none"
  BY RefusedNot DEF LoadCombination, Take
<1>1. PICK e : e = [id |-> s.id, limit |-> s.limit, factors |-> s.factors, sound |-> TRUE]
  OBVIOUS
<1>2. PICK f, v : f = "combos" /\ v = Append(m.combos, e)
  OBVIOUS
<1>3. PICK n, j : n = [m EXCEPT !.combos = Append(@, e)] /\ j = [k EXCEPT !.combos = Append(@, e)]
  OBVIOUS
<1>4. Changed(m, n, f, v) /\ Changed(k, j, f, v) /\ f \in SameFields
  BY <1>2, <1>3, SameAre DEF Changed, ModelFields, SameFields
<1>5. Read(n, j)
  BY <1>2, <1>4, ChangedBoth
<1>6. PICK none : none = "none"
  OBVIOUS
<1>7. SameHandle(s, Handle(none, none), Handle(none, none))
  BY <1>6 DEF SameHandle, Handle, ReadKinds
<1>8. LoadCombination(m, s) = Done(n, none, none)
  BY <1>1, <1>3, <1>6, RefusedNot DEF LoadCombination, Take
<1>9. IsSound(s) = TRUE
  BY <1>0 DEF IsSound
<1>10. ReadCombination(k, s) = Done(j, none, none)
  BY <1>1, <1>3, <1>6, <1>9 DEF ReadCombination
<1> QED BY <1>5, <1>7, <1>8, <1>10, BothDone

LEMMA StabilityBoth ==
    ASSUME NEW m, NEW k, Read(m, k), NEW s, Stability(m, s).ok
    PROVE  Both(s, Stability(m, s), ReadStability(k, s))
<1>0. s.flaw = "none" /\ m.stability = <<>> /\ k.stability = <<>>
  BY SameAre, RefusedNot DEF Stability, Take
<1>1. PICK e : e = [combo |-> s.combo, case |-> s.case, directions |-> s.directions,
                    members |-> s.named, sound |-> TRUE]
  OBVIOUS
<1>2. PICK f, v : f = "stability" /\ v = <<e>>
  OBVIOUS
<1>3. PICK n, j : n = [m EXCEPT !.stability = v] /\ j = [k EXCEPT !.stability = v]
  OBVIOUS
<1>4. Changed(m, n, f, v) /\ Changed(k, j, f, v) /\ f \in SameFields
  BY <1>2, <1>3, SameAre DEF Changed, ModelFields, SameFields
<1>5. Read(n, j)
  BY <1>2, <1>4, ChangedBoth
<1>6. PICK none : none = "none"
  OBVIOUS
<1>7. SameHandle(s, Handle(none, none), Handle(none, none))
  BY <1>6 DEF SameHandle, Handle, ReadKinds
<1>8. Stability(m, s) = Done(n, none, none)
  BY <1>1, <1>2, <1>3, <1>6, RefusedNot DEF Stability, Take
<1>9. IsSound(s) = TRUE
  BY <1>0 DEF IsSound
<1>10. ReadStability(k, s) = Done(j, none, none)
  BY <1>0, <1>1, <1>2, <1>3, <1>6, <1>9 DEF ReadStability, Take
<1> QED BY <1>5, <1>7, <1>8, <1>10, BothDone

LEMMA CrossSectionBoth ==
    ASSUME NEW m, NEW k, Read(m, k), NEW env, NEW s, s.members = <<>>, CrossSection(m, env, s).ok
    PROVE  Both(s, CrossSection(m, env, s), ReadCrossSection(k, s))
<1>0. s.flaw = "none" /\ m.crossSection = <<>> /\ k.crossSection = <<>>
  BY SameAre, RefusedNot DEF CrossSection, Take
<1>1. PICK e : e = [combos |-> s.combos, members |-> <<>>, sound |-> TRUE]
  OBVIOUS
<1>2. PICK f, v : f = "crossSection" /\ v = <<e>>
  OBVIOUS
<1>3. PICK n, j : n = [m EXCEPT !.crossSection = v] /\ j = [k EXCEPT !.crossSection = v]
  OBVIOUS
<1>4. Changed(m, n, f, v) /\ Changed(k, j, f, v) /\ f \in SameFields
  BY <1>2, <1>3, SameAre DEF Changed, ModelFields, SameFields
<1>5. Read(n, j)
  BY <1>2, <1>4, ChangedBoth
<1>6. PICK none : none = "none"
  OBVIOUS
<1>7. SameHandle(s, Handle(none, none), Handle(none, none))
  BY <1>6 DEF SameHandle, Handle, ReadKinds
<1>8. PICK axes : axes = [i \in DOMAIN s.members |-> TheAxis(m, env, s.members[i])]
  OBVIOUS
<1>9. DOMAIN s.members = {}
  OBVIOUS
<1>10. DOMAIN axes = {}
  BY <1>8, <1>9
<1>11. [i \in DOMAIN axes |-> axes[i].id] = <<>>
  BY <1>10
<1>12. CrossSection(m, env, s) = Done(n, none, none)
  BY <1>1, <1>2, <1>3, <1>6, <1>8, <1>11, RefusedNot DEF CrossSection, Take
<1>13. IsSound(s) = TRUE
  BY <1>0 DEF IsSound
<1>14. ReadCrossSection(k, s) = Done(j, none, none)
  BY <1>0, <1>1, <1>2, <1>3, <1>6, <1>13 DEF ReadCrossSection, Take
<1> QED BY <1>5, <1>7, <1>12, <1>14, BothDone

LEMMA NoCandidates ==
    ASSUME NEW segments
    PROVE  CandidatesOf(<<>>, segments) = <<>>
<1>1. PICK c, z : c = <<>> /\ z = 0
  OBVIOUS
<1>2. DOMAIN c = 1..z /\ z \in Nat
  BY <1>1
<1>3. CandidatesOf(c, segments) = Folded(segments, Keeps, <<>>, c, z)
  BY <1>2, KeptFolded
<1>4. PICK how, b : how = Keeps /\ b = <<>>
  OBVIOUS
<1>5. PICK g : Folds(g, segments, how, b, c, z) /\ Folded(segments, how, b, c, z) = g[z]
  BY <1>2, FoldSteps
<1>6. g[0] = b
  BY <1>5 DEF Folds
<1> QED BY <1>1, <1>3, <1>4, <1>5, <1>6

LEMMA MemberStabilityBoth ==
    ASSUME NEW m, NEW k, Read(m, k), NEW env, NEW s, s.members = <<>>,
           MemberStability(m, env, s).ok
    PROVE  Both(s, MemberStability(m, env, s), ReadMemberStability(k, s))
<1>0. /\ s.flaw = "none" /\ m.memberStability = <<>> /\ k.memberStability = <<>>
      /\ (s.segments = <<>>) # (s.members = <<>>)
  BY SameAre, RefusedNot DEF MemberStability, Take
<1>00. s.segments # <<>>
  BY <1>0
<1>1. PICK e : e = [combos |-> s.combos, segments |-> s.segments, sound |-> TRUE,
                    candidates |-> <<>>]
  OBVIOUS
<1>2. PICK f, v : f = "memberStability" /\ v = <<e>>
  OBVIOUS
<1>3. PICK n, j : n = [m EXCEPT !.memberStability = v] /\ j = [k EXCEPT !.memberStability = v]
  OBVIOUS
<1>4. Changed(m, n, f, v) /\ Changed(k, j, f, v) /\ f \in SameFields
  BY <1>2, <1>3, SameAre DEF Changed, ModelFields, SameFields
<1>5. Read(n, j)
  BY <1>2, <1>4, ChangedBoth
<1>6. PICK none : none = "none"
  OBVIOUS
<1>7. SameHandle(s, Handle(none, none), Handle(none, none))
  BY <1>6 DEF SameHandle, Handle, ReadKinds
<1>8. CandidatesOf(m.candidates, s.segments) = <<>>
  BY NoCandidates DEF Read, Alike
<1>9. MemberStability(m, env, s)
        = Done([m EXCEPT !.memberStability =
                    <<[combos |-> s.combos, segments |-> s.segments, sound |-> TRUE,
                       candidates |-> CandidatesOf(m.candidates, s.segments)]>>], none, none)
  BY <1>00, <1>6, RefusedNot DEF MemberStability, Take
<1>10. MemberStability(m, env, s) = Done(n, none, none)
  BY <1>1, <1>2, <1>3, <1>8, <1>9
<1>13. IsSound(s) = TRUE
  BY <1>0 DEF IsSound
<1>14. ReadMemberStability(k, s) = Done(j, none, none)
  BY <1>0, <1>00, <1>1, <1>2, <1>3, <1>6, <1>13 DEF ReadMemberStability, Take
<1> QED BY <1>5, <1>7, <1>10, <1>14, BothDone

LEMMA AssemblyBoth ==
    ASSUME NEW m, NEW k, Read(m, k), NEW env, NEW h, EnvKnown(env, h), NEW s, Assembly(m, env, s).ok
    PROVE  Both(s, Assembly(m, env, s), ReadAssembly(k, h, s))
<1>1. PICK ids : ids = [i \in DOMAIN s.parts |-> env[s.parts[i]].id]
  OBVIOUS
<1>2. /\ \A i \in DOMAIN s.parts : PartOf(m, env, s.parts[i]) # {}
      /\ AllDiffer(ids) /\ ToSet(ids) = IdsOf(m.parts)
  BY <1>1, RefusedNot DEF Assembly, Take
<1>3. \A i \in DOMAIN s.parts :
          Known(h, "part", s.parts[i]) /\ h[<<"part", s.parts[i]>>] = env[s.parts[i]].id
  BY <1>2, PartKnown
<1>4. ids = [i \in DOMAIN s.parts |-> h[<<"part", s.parts[i]>>]]
  BY <1>1, <1>3
<1>5. PICK f, v : f = "assembled" /\ v = <<ids>>
  OBVIOUS
<1>6. PICK n, j : n = [m EXCEPT !.assembled = v] /\ j = [k EXCEPT !.assembled = v]
  OBVIOUS
<1>7. Changed(m, n, f, v) /\ Changed(k, j, f, v) /\ f \in SameFields
  BY <1>5, <1>6, SameAre DEF Changed, ModelFields, SameFields
<1>8. Alike(n, j)
  BY <1>5, <1>7 DEF Changed, Alike, Read, SameFields, ModelFields
<1>9. n.cases = m.cases /\ n.parts = m.parts /\ n.assembled = <<ids>>
  BY <1>5, <1>7 DEF Changed, ModelFields
<1>10. Head(n.assembled) = ids
  BY <1>9
<1>11. Read(n, j)
  BY <1>2, <1>8, <1>9, <1>10 DEF Read, Assembled
<1>12. PICK none : none = "none"
  OBVIOUS
<1>13. SameHandle(s, Handle(none, none), Handle(none, none))
  BY <1>12 DEF SameHandle, Handle, ReadKinds
<1>14. Assembly(m, env, s) = Done(n, none, none)
  BY <1>1, <1>5, <1>6, <1>12, RefusedNot DEF Assembly, Take
<1>15. ReadAssembly(k, h, s)
          = Done([k EXCEPT !.assembled =
                     <<[i \in DOMAIN s.parts |-> h[<<"part", s.parts[i]>>]]>>], none, none)
  BY <1>3, <1>12 DEF ReadAssembly, Take
<1>16. ReadAssembly(k, h, s) = Done(j, none, none)
  BY <1>4, <1>5, <1>6, <1>15
<1> QED BY <1>11, <1>13, <1>14, <1>16, BothDone

LEMMA ManifestBoth ==
    ASSUME NEW m, NEW k, Read(m, k), NEW s, Manifest(m).ok
    PROVE  Both(s, Manifest(m), ReadManifest(k)) /\ Manifest(m).model = m /\ ReadManifest(k).model = k
<1>1. m.assembled # <<>>
  BY RefusedNot DEF Manifest, Take
<1>2. /\ k.assembled # <<>> /\ AllDiffer(Head(k.assembled))
      /\ ToSet(Head(k.assembled)) = IdsOf(k.parts)
  BY <1>1, SameAre DEF Read, Assembled
<1>3. PICK kind, none : kind = "manifest" /\ none = "none"
  OBVIOUS
<1>4. SameHandle(s, Handle(kind, none), Handle(kind, none))
  BY <1>3 DEF SameHandle, Handle, ReadKinds
<1>5. Manifest(m) = Done(m, kind, none)
  BY <1>3, RefusedNot DEF Manifest, Take
<1>6. ReadManifest(k) = Done(k, kind, none)
  BY <1>2, <1>3 DEF ReadManifest, Take
<1> QED BY <1>4, <1>5, <1>6, BothDone DEF Done

LEMMA AxisBoth ==
    ASSUME NEW m, NEW k, Read(m, k), NEW env, NEW h, EnvKnown(env, h), NEW s, s.form = "expr",
           MemberAxis(m, env, s).ok
    PROVE  Both(s, MemberAxis(m, env, s), ReadAxis(k, h, s))
<1>1. PICK component : component = env[s.part].id
  OBVIOUS
<1>2. PartOf(m, env, s.part) # {} /\ MemberAxis(m, env, s) = Axis(m, component, env, s)
  BY <1>1, RefusedNot DEF MemberAxis, Take
<1>3. /\ s.flaw = "none" /\ Holds(env, s.section, "section") /\ Holds(env, s.material, "material")
  BY <1>2, RefusedNot DEF Axis, Take
<1>4. PICK section, material : section = "section" /\ material = "material"
  OBVIOUS
<1>5. /\ Known(h, section, s.section) /\ h[<<section, s.section>>] = env[s.section].id
      /\ Known(h, material, s.material) /\ h[<<material, s.material>>] = env[s.material].id
 <2>1. section \in ReadKinds /\ material \in ReadKinds
   BY <1>4 DEF ReadKinds
 <2> QED BY <1>3, <1>4, <2>1, HeldKnown
<1>6. Known(h, "part", s.part) /\ h[<<"part", s.part>>] = component
  BY <1>1, <1>2, PartKnown
<1>7. PICK e : e = [id |-> s.axis, component |-> component, length |-> s.length,
                    section |-> env[s.section].id, material |-> env[s.material].id,
                    sound |-> TRUE]
  OBVIOUS
<1>8. PICK f, v : f = "members" /\ v = Append(m.members, e)
  OBVIOUS
<1>9. PICK n, j : n = [m EXCEPT !.members = Append(@, e)] /\ j = [k EXCEPT !.members = Append(@, e)]
  OBVIOUS
<1>10. Changed(m, n, f, v) /\ Changed(k, j, f, v) /\ f \in SameFields
  BY <1>8, <1>9, SameAre DEF Changed, ModelFields, SameFields
<1>11. Read(n, j)
  BY <1>8, <1>10, ChangedBoth
<1>12. PICK kind, none : kind = "axis" /\ none = "none"
  OBVIOUS
<1>13. SameHandle(s, Handle(kind, s.axis), Handle(none, none))
  BY <1>12 DEF SameHandle, Handle
<1>14. MemberAxis(m, env, s) = Done(n, kind, s.axis)
  BY <1>2, <1>7, <1>9, <1>12, RefusedNot DEF Axis, Take
<1>15. IsSound(s) = TRUE
  BY <1>3 DEF IsSound
<1>16. ReadAxis(k, h, s) = Done(j, none, none)
  BY <1>4, <1>5, <1>6, <1>7, <1>9, <1>12, <1>15 DEF ReadAxis, Take
<1> QED BY <1>11, <1>13, <1>14, <1>16, BothDone

\* The first place of a list at which something is so.
FirstAt(seq, I) == IF I # {} THEN Min(I) ELSE 0

LEMMA FirstAtIs ==
    ASSUME NEW n \in Nat, NEW I \in SUBSET (1..n), I # {}
    PROVE  FirstAt(n, I) \in I /\ FirstAt(n, I) > 0
<1>1. I \in SUBSET Nat
  OBVIOUS
<1>2. \E x \in I : \A y \in I : x <= y
  BY <1>1, LeastNatural
<1>3. PICK x \in I : \A y \in I : x <= y
  BY <1>2
<1>4. ASSUME NEW y \in I PROVE x <= y
  BY <1>3
<1>5. Min(I) \in I
  BY <1>4 DEF Min
<1>6. PICK a : a = Min(I)
  OBVIOUS
<1>7. a \in I /\ a \in 1..n /\ FirstAt(n, I) = a
  BY <1>5, <1>6 DEF FirstAt
<1>8. a > 0
  BY <1>7
<1> QED BY <1>7, <1>8

\* The axis of a part is the first of it, if it has only one.
LEMMA AxisFound ==
    ASSUME NEW m, ModelOK(m), NEW k, Read(m, k), NEW env, NEW h, EnvKnown(env, h), NEW x,
           AxisOf(m, env, x) # {}
    PROVE  AxisAt(k, h, x) > 0 /\ k.members[AxisAt(k, h, x)] = TheAxis(m, env, x)
<1>1. PICK l : l = m.members
  OBVIOUS
<1>2. IsList(l) /\ k.members = l
  BY <1>1, SameAre, FieldsAre DEF ModelOK, IsRegister
<1>3. PICK n : n = Len(l)
  OBVIOUS
<1>4. n \in Nat /\ DOMAIN l = 1..n
  BY <1>2, <1>3 DEF IsList
<1>5. ~Holds(env, x, "axis")
  BY DEF EnvKnown, Holds
<1>6. PICK part : part = "part"
  OBVIOUS
<1>7. PICK met : met = {a \in ToSet(l) : Holds(env, x, part) /\ a.component = env[x].id}
  OBVIOUS
<1>8. AxisOf(m, env, x) = met /\ Cardinality(met) = 1 /\ met # {}
  BY <1>1, <1>5, <1>6, <1>7 DEF AxisOf
<1>9. IsFiniteSet(met)
 <2>1. IsFiniteSet(ToSet(l))
  <3>1. PICK S, T : S = 1..n /\ T = ToSet(l)
    OBVIOUS
  <3>2. l \in Surjection(S, T)
    BY <1>2, <1>3, <1>4, <3>1, LengthOfList DEF Surjection, ToSet
  <3>3. IsFiniteSet(S)
    BY <1>4, <3>1, FS_Interval
  <3> QED BY <3>1, <3>2, <3>3, FS_Surjection
 <2> QED BY <1>7, <2>1, FS_Subset
<1>10. PICK a : met = {a}
  BY <1>8, <1>9, FS_Singleton
<1>11. TheAxis(m, env, x) = a
  BY <1>8, <1>10 DEF TheAxis
<1>12. Known(h, part, x) /\ h[<<part, x>>] = env[x].id
 <2>1. Holds(env, x, part) /\ part \in ReadKinds
   BY <1>6, <1>7, <1>8 DEF ReadKinds
 <2> QED BY <2>1, HeldKnown
<1>13. PICK I : I = {i \in 1..n : l[i].component = h[<<part, x>>]}
  OBVIOUS
<1>14. AxisAt(k, h, x) = FirstAt(n, I)
  BY <1>2, <1>3, <1>6, <1>12, <1>13 DEF AxisAt, SelectInSeq, FirstAt
<1>15. \A i \in I : l[i] = a
  BY <1>4, <1>7, <1>8, <1>10, <1>12, <1>13 DEF ToSet
<1>16. I \in SUBSET (1..n) /\ I # {}
  BY <1>4, <1>7, <1>10, <1>12, <1>13 DEF ToSet
<1>17. FirstAt(n, I) \in I /\ FirstAt(n, I) > 0
  BY <1>4, <1>16, FirstAtIs
<1> QED BY <1>2, <1>11, <1>14, <1>15, <1>17

\* The load that a variable stands for.
LEMMA LoadFound ==
    ASSUME NEW m, ModelOK(m), NEW k, Read(m, k), NEW env, NEW h, EnvKnown(env, h), NEW x,
           LoadOf(m, env, x) # {}
    PROVE  /\ Known(h, "load", x) /\ h[<<"load", x>>] = env[x].id
           /\ k.loads[LoadAt(k, h, x)]
                = (CHOOSE l \in LoadOf(m, env, x) : TRUE)
<1>1. PICK loads : loads = m.loads
  OBVIOUS
<1>2. IsRegister(loads) /\ k.loads = loads
  BY <1>1, SameAre, FieldsAre DEF ModelOK
<1>3. PICK n : n = Len(loads)
  OBVIOUS
<1>4. n \in Nat /\ DOMAIN loads = 1..n
  BY <1>2, <1>3 DEF IsRegister, IsList
<1>5. PICK load : load = "load"
  OBVIOUS
<1>6. PICK e : e = CHOOSE l \in LoadOf(m, env, x) : TRUE
  OBVIOUS
<1>7. e \in LoadOf(m, env, x)
  BY <1>6
<1>8. Holds(env, x, load) /\ e \in ToSet(loads) /\ e.id = env[x].id
  BY <1>1, <1>5, <1>7 DEF LoadOf
<1>9. Known(h, load, x) /\ h[<<load, x>>] = env[x].id
 <2>1. load \in ReadKinds
   BY <1>5 DEF ReadKinds
 <2> QED BY <1>8, <2>1, HeldKnown
<1>10. PICK I : I = {i \in 1..n : loads[i].id = h[<<load, x>>]}
  OBVIOUS
<1>11. LoadAt(k, h, x) = FirstAt(n, I)
  BY <1>2, <1>3, <1>5, <1>10 DEF LoadAt, SelectInSeq, FirstAt
<1>12. I \in SUBSET (1..n) /\ I # {}
  BY <1>4, <1>8, <1>9, <1>10 DEF ToSet
<1>13. FirstAt(n, I) \in I
  BY <1>4, <1>12, FirstAtIs
<1>14. PICK i : i = FirstAt(n, I)
  OBVIOUS
<1>15. loads[i] \in ToSet(loads) /\ loads[i].id = e.id
  BY <1>4, <1>8, <1>9, <1>10, <1>13, <1>14 DEF ToSet
<1>16. loads[i] = e
  BY <1>2, <1>8, <1>15, RegisterIds
<1> QED BY <1>2, <1>5, <1>6, <1>9, <1>11, <1>14, <1>16

\* A case that is put anew, or again as it was.
LEMMA CasePut ==
    ASSUME NEW cases, CasesAre(cases), NEW c, NEW v, IsCase(v)
    PROVE  CasesAre(Put(cases, c, v))
<1>1. PICK p : p = Put(cases, c, v)
  OBVIOUS
<1>2. DOMAIN p = DOMAIN cases \cup {c} /\ \A x \in DOMAIN p : p[x] = IF x = c THEN v ELSE cases[x]
  BY <1>1 DEF Put
<1>3. p = [x \in DOMAIN p |-> p[x]]
  BY <1>1 DEF Put
<1>4. \A x \in DOMAIN p : IsCase(p[x])
  BY <1>2 DEF CasesAre
<1> QED BY <1>1, <1>3, <1>4 DEF CasesAre

LEMMA CasePutAgain ==
    ASSUME NEW cases, CasesAre(cases), NEW c \in DOMAIN cases, NEW v, v = cases[c]
    PROVE  Put(cases, c, v) = cases
<1>1. DOMAIN cases \cup {c} = DOMAIN cases
  OBVIOUS
<1>2. Put(cases, c, v) = [x \in DOMAIN cases |-> cases[x]]
  BY <1>1 DEF Put
<1> QED BY <1>2 DEF CasesAre

LEMMA WithCaseBoth ==
    ASSUME NEW m, NEW k, Read(m, k), NEW s
    PROVE  Read(WithCase(m, s), WithCase(k, s))
<1>1. PICK v : v = [category |-> s.category, label |-> s.label]
  OBVIOUS
<1>2. IsCase(v)
  BY <1>1 DEF IsCase
<1>3. PICK p, f : p = Put(m.cases, s.case, v) /\ f = "cases"
  OBVIOUS
<1>4. CasesAre(p)
  BY <1>2, <1>3, CasePut DEF Read
<1>5. PICK n, j : n = [m EXCEPT !.cases = p] /\ j = [k EXCEPT !.cases = p]
  OBVIOUS
<1>6. WithCase(m, s) = n /\ WithCase(k, s) = j
  BY <1>1, <1>3, <1>5, SameAre DEF WithCase
<1>7. Changed(m, n, f, p) /\ Changed(k, j, f, p) /\ f \in SameFields
  BY <1>3, <1>5, SameAre DEF Changed, ModelFields, SameFields
<1>8. Read(n, j)
  BY <1>3, <1>4, <1>7, ChangedBoth
<1> QED BY <1>6, <1>8

\* A record more, behind the case.
LEMMA AppendedBoth ==
    ASSUME NEW m, NEW k, Read(m, k), NEW f \in SameFields \ {"cases", "parts", "assembled"},
           NEW e, NEW n, NEW j,
           Changed(m, n, f, Append(m[f], e)), Changed(k, j, f, Append(k[f], e))
    PROVE  Read(n, j)
<1>1. m[f] = k[f]
  BY DEF Read, Alike
<1>2. PICK v : v = Append(m[f], e)
  OBVIOUS
<1>3. Changed(m, n, f, v) /\ Changed(k, j, f, v)
  BY <1>1, <1>2
<1> QED BY <1>3, ChangedBoth

AtTop(s) == s.form \in {"assign", "expr"}

LEMMA SurfaceLoadBoth ==
    ASSUME NEW m, NEW k, Read(m, k), NEW env, NEW h, EnvKnown(env, h), NEW s,
           AtTop(s), SurfaceLoad(m, env, s).ok
    PROVE  Both(s, SurfaceLoad(m, env, s), ReadSurfaceLoad(k, h, s))
<1>1. IsPart(m, env, s.part, {"surface"}) /\ s.flaw = "none"
  BY RefusedNot DEF SurfaceLoad, Take
<1>2. PartOf(m, env, s.part) # {}
  BY <1>1 DEF IsPart
<1>3. Known(h, "part", s.part) /\ h[<<"part", s.part>>] = env[s.part].id
  BY <1>2, PartKnown
<1>4. PICK e : e = [id |-> s.id, component |-> env[s.part].id, case |-> s.case,
                    category |-> s.category, wind |-> s.wind, sound |-> TRUE]
  OBVIOUS
<1>5. PICK p, q : p = WithCase(m, s) /\ q = WithCase(k, s)
  OBVIOUS
<1>6. Read(p, q)
  BY <1>5, WithCaseBoth
<1>7. PICK n, j : n = [p EXCEPT !.loads = Append(@, e)] /\ j = [q EXCEPT !.loads = Append(@, e)]
  OBVIOUS
<1>8. PICK f : f = "loads"
  OBVIOUS
<1>9. f \in SameFields \ {"cases", "parts", "assembled"}
      /\ Changed(p, n, f, Append(p[f], e)) /\ Changed(q, j, f, Append(q[f], e))
  BY <1>6, <1>7, <1>8, SameAre DEF Changed, ModelFields, SameFields
<1>10. Read(n, j)
  BY <1>6, <1>9, AppendedBoth
<1>11. PICK kind, none, id : kind = "load" /\ none = "none" /\ id = s.id
  OBVIOUS
<1>12. SurfaceLoad(m, env, s) = Done(n, kind, id)
  BY <1>4, <1>5, <1>7, <1>11, RefusedNot DEF SurfaceLoad, Take
<1>13. IsSound(s) = TRUE
  BY <1>1 DEF IsSound
<1>14. PICK other : other = IF s.form = "assign" THEN kind ELSE none
  OBVIOUS
<1>15. ReadSurfaceLoad(k, h, s) = Done(j, other, id)
  BY <1>3, <1>4, <1>5, <1>7, <1>11, <1>13, <1>14 DEF ReadSurfaceLoad, Take
<1>16. SameHandle(s, Handle(kind, id), Handle(other, id))
  BY <1>11, <1>14 DEF SameHandle, Handle, ReadKinds, AtTop
<1> QED BY <1>10, <1>12, <1>15, <1>16, BothDone

LEMMA WindLoadBoth ==
    ASSUME NEW m, NEW k, Read(m, k), NEW env, NEW h, EnvKnown(env, h), NEW s,
           AtTop(s), DOMAIN s = Arguments, WindLoad(m, env, s).ok
    PROVE  Both(s, WindLoad(m, env, s), ReadWindLoad(k, h, s))
<1>1. PICK t : t = [s EXCEPT !.category = "wind", !.wind = env[s.wind].id]
  OBVIOUS
<1>2. Holds(env, s.wind, "wind") /\ WindLoad(m, env, s) = SurfaceLoad(m, env, t)
  BY <1>1, RefusedNot DEF WindLoad, Take
<1>3. PICK wind : wind = "wind"
  OBVIOUS
<1>4. Known(h, wind, s.wind) /\ h[<<wind, s.wind>>] = env[s.wind].id
 <2>1. wind \in ReadKinds
   BY <1>3 DEF ReadKinds
 <2> QED BY <1>2, <1>3, <2>1, HeldKnown
<1>5. t.form = s.form /\ AtTop(t)
  BY <1>1 DEF Arguments, AtTop
<1>6. Both(t, SurfaceLoad(m, env, t), ReadSurfaceLoad(k, h, t))
  BY <1>2, <1>5, SurfaceLoadBoth
<1>7. ReadWindLoad(k, h, s) = ReadSurfaceLoad(k, h, t)
  BY <1>1, <1>3, <1>4 DEF ReadWindLoad, Take
<1> QED BY <1>2, <1>5, <1>6, <1>7 DEF Both, SameHandle

LEMMA PointLoadBoth ==
    ASSUME NEW m, ModelOK(m), NEW k, Read(m, k), NEW env, NEW h, EnvKnown(env, h), NEW s,
           PointLoad(m, env, s).ok
    PROVE  Both(s, PointLoad(m, env, s), ReadPointLoad(k, h, s))
<1>1. AxisOf(m, env, s.part) # {}
  BY RefusedNot DEF PointLoad
<1>2. AxisAt(k, h, s.part) > 0 /\ k.members[AxisAt(k, h, s.part)] = TheAxis(m, env, s.part)
  BY <1>1, AxisFound
<1>3. PICK axis : axis = TheAxis(m, env, s.part)
  OBVIOUS
<1>4. PICK e : e = [id |-> <<s.id, 0>>, member |-> axis.id, case |-> s.case,
                    at |-> s.at, source |-> "none"]
  OBVIOUS
<1>5. PICK p, q : p = WithCase(m, s) /\ q = WithCase(k, s)
  OBVIOUS
<1>6. Read(p, q)
  BY <1>5, WithCaseBoth
<1>7. PICK n, j : n = [p EXCEPT !.points = Append(@, e)] /\ j = [q EXCEPT !.points = Append(@, e)]
  OBVIOUS
<1>8. PICK f : f = "points"
  OBVIOUS
<1>9. f \in SameFields \ {"cases", "parts", "assembled"}
      /\ Changed(p, n, f, Append(p[f], e)) /\ Changed(q, j, f, Append(q[f], e))
  BY <1>6, <1>7, <1>8, SameAre DEF Changed, ModelFields, SameFields
<1>10. Read(n, j)
  BY <1>6, <1>9, AppendedBoth
<1>11. PICK none : none = "none"
  OBVIOUS
<1>12. PointLoad(m, env, s) = Done(n, none, none)
  BY <1>3, <1>4, <1>5, <1>7, <1>11, RefusedNot DEF PointLoad, Take
<1>13. ReadPointLoad(k, h, s) = Done(j, none, none)
  BY <1>2, <1>3, <1>4, <1>5, <1>7, <1>11 DEF ReadPointLoad, Take
<1>14. SameHandle(s, Handle(none, none), Handle(none, none))
  BY <1>11 DEF SameHandle, Handle, ReadKinds
<1> QED BY <1>10, <1>12, <1>13, <1>14, BothDone

\* Execution and reading have the same line load of the same axis, though they may be
\* told its end in different ways.
SameLine(s, t, axis) ==
    /\ s.id = t.id /\ s.case = t.case /\ s.category = t.category /\ s.label = t.label
    /\ s.start = t.start /\ s.by = t.by /\ s.source = t.source /\ s.form = t.form
    /\ s.end = (IF t.end < 0 THEN axis.length ELSE t.end)

LEMMA LineLoadBoth ==
    ASSUME NEW m, ModelOK(m), NEW k, Read(m, k), NEW env, NEW h, EnvKnown(env, h), NEW axis,
           NEW s, NEW t, SameLine(s, t, axis), AxisAt(k, h, t.part) > 0,
           k.members[AxisAt(k, h, t.part)] = axis, LineLoad(m, env, axis, s).ok
    PROVE  Both(s, LineLoad(m, env, axis, s), ReadLineLoad(k, h, t))
<1>1. /\ s.flaw = "none" /\ (s.source # "none") = (s.by = "surface")
      /\ ~(s.by = "surface" /\ \A l \in LoadOf(m, env, s.source) : l.category # s.category)
      /\ ~(s.case \in DOMAIN m.cases /\ m.cases[s.case].category # s.category)
  BY RefusedNot DEF LineLoad, Take
<1>2. PICK load : load = "load"
  OBVIOUS
<1>3. t.source # "none" => Known(h, load, t.source) /\ h[<<load, t.source>>] = env[s.source].id
 <2>1. SUFFICES ASSUME s.source # "none"
                PROVE  Known(h, load, s.source) /\ h[<<load, s.source>>] = env[s.source].id
   BY DEF SameLine
 <2>2. LoadOf(m, env, s.source) # {}
   BY <1>1, <2>1
 <2>3. Holds(env, s.source, load) /\ load \in ReadKinds
   BY <1>2, <2>2 DEF LoadOf, ReadKinds
 <2> QED BY <2>3, HeldKnown
<1>4. PICK source : source = IF s.source = "none" THEN "none" ELSE env[s.source].id
  OBVIOUS
<1>5. source = IF t.source = "none" THEN "none" ELSE h[<<load, t.source>>]
  BY <1>3, <1>4 DEF SameLine
<1>6. PICK e : e = [id |-> <<s.id, 0>>, member |-> axis.id, case |-> s.case,
                    from |-> s.start, to |-> s.end, by |-> s.by, source |-> source]
  OBVIOUS
<1>7. PICK cases : cases = IF s.case \in DOMAIN m.cases THEN m.cases
                           ELSE Put(m.cases, s.case, [category |-> s.category, label |-> s.label])
  OBVIOUS
<1>8. PICK label : label = IF s.case \in DOMAIN m.cases THEN m.cases[s.case].label ELSE s.label
  OBVIOUS
<1>9. PICK v : v = [category |-> s.category, label |-> label]
  OBVIOUS
<1>10. IsCase(v)
  BY <1>9 DEF IsCase
<1>11. Put(m.cases, s.case, v) = cases
 <2>1. CASE s.case \in DOMAIN m.cases
  <3>1. v = m.cases[s.case]
    BY <1>1, <1>8, <1>9, <2>1 DEF Read, CasesAre, IsCase
  <3>2. CasesAre(m.cases)
    BY DEF Read
  <3> QED BY <1>7, <2>1, <3>1, <3>2, CasePutAgain
 <2>2. CASE s.case \notin DOMAIN m.cases
   BY <1>7, <1>8, <1>9, <2>2
 <2> QED BY <2>1, <2>2
<1>12. CasesAre(cases)
  BY <1>10, <1>11, CasePut DEF Read
<1>13. PICK p, q : p = [m EXCEPT !.cases = cases] /\ q = [k EXCEPT !.cases = cases]
  OBVIOUS
<1>14. PICK c : c = "cases"
  OBVIOUS
<1>15. Changed(m, p, c, cases) /\ Changed(k, q, c, cases) /\ c \in SameFields
  BY <1>13, <1>14, SameAre DEF Changed, ModelFields, SameFields
<1>16. Read(p, q)
  BY <1>12, <1>14, <1>15, ChangedBoth
<1>17. PICK n, j : n = [p EXCEPT !.lines = Append(@, e)] /\ j = [q EXCEPT !.lines = Append(@, e)]
  OBVIOUS
<1>18. PICK f : f = "lines"
  OBVIOUS
<1>19. f \in SameFields \ {"cases", "parts", "assembled"}
       /\ Changed(p, n, f, Append(p[f], e)) /\ Changed(q, j, f, Append(q[f], e))
  BY <1>16, <1>17, <1>18, SameAre DEF Changed, ModelFields, SameFields
<1>20. Read(n, j)
  BY <1>16, <1>19, AppendedBoth
<1>21. PICK none : none = "none"
  OBVIOUS
<1>22. LineLoad(m, env, axis, s) = Done(n, none, none)
 <2>1. p = [m EXCEPT !.cases = IF s.case \in DOMAIN @ THEN @
               ELSE Put(@, s.case, [category |-> s.category, label |-> s.label])]
   BY <1>7, <1>13, SameAre
 <2> QED BY <1>4, <1>6, <1>17, <1>21, <2>1, RefusedNot DEF LineLoad, Take
<1>23. ReadLineLoad(k, h, t) = Done(j, none, none)
 <2>1. k.cases = m.cases
   BY SameAre
 <2>2. label = IF t.case \in DOMAIN k.cases THEN k.cases[t.case].label ELSE t.label
   BY <1>8, <2>1 DEF SameLine
 <2>3. q = [k EXCEPT !.cases = Put(@, t.case, [category |-> t.category, label |-> label])]
   BY <1>9, <1>11, <1>13, <2>1 DEF SameLine
 <2>4. DOMAIN k = ModelFields
   BY SameAre
 <2>5. j = [k EXCEPT !.cases = Put(@, t.case, [category |-> t.category, label |-> label]),
                     !.lines = Append(@, e)]
   BY <1>17, <2>3, <2>4 DEF ModelFields
 <2>6. e = [id |-> <<t.id, 0>>, member |-> axis.id, case |-> t.case, from |-> t.start,
            to |-> IF t.end < 0 THEN axis.length ELSE t.end, by |-> t.by,
            source |-> IF t.source = "none" THEN "none" ELSE h[<<load, t.source>>]]
   BY <1>5, <1>6 DEF SameLine
 <2> QED BY <1>2, <1>3, <1>21, <2>2, <2>5, <2>6 DEF ReadLineLoad, Take
<1>24. SameHandle(s, Handle(none, none), Handle(none, none))
  BY <1>21 DEF SameHandle, Handle, ReadKinds
<1> QED BY <1>20, <1>22, <1>23, <1>24, BothDone

LEMMA DistributedLoadBoth ==
    ASSUME NEW m, ModelOK(m), NEW k, Read(m, k), NEW env, NEW h, EnvKnown(env, h), NEW s,
           DOMAIN s = Arguments, DistributedLoad(m, env, s).ok
    PROVE  Both(s, DistributedLoad(m, env, s), ReadLineLoad(k, h, s))
<1>1. PICK axis : axis = TheAxis(m, env, s.part)
  OBVIOUS
<1>2. PICK t : t = [s EXCEPT !.end = IF @ < 0 THEN axis.length ELSE @]
  OBVIOUS
<1>3. AxisOf(m, env, s.part) # {} /\ DistributedLoad(m, env, s) = LineLoad(m, env, axis, t)
  BY <1>1, <1>2, RefusedNot DEF DistributedLoad, Take
<1>4. SameLine(t, s, axis)
  BY <1>2 DEF SameLine, Arguments
<1>5. AxisAt(k, h, s.part) > 0 /\ k.members[AxisAt(k, h, s.part)] = axis
  BY <1>1, <1>3, AxisFound
<1>6. Both(t, LineLoad(m, env, axis, t), ReadLineLoad(k, h, s))
  BY <1>3, <1>4, <1>5, LineLoadBoth
<1> QED BY <1>3, <1>4, <1>6 DEF Both, SameHandle, SameLine

LEMMA SelfWeightBoth ==
    ASSUME NEW m, ModelOK(m), NEW k, Read(m, k), NEW env, NEW h, EnvKnown(env, h), NEW s,
           DOMAIN s = Arguments, SelfWeight(m, env, s).ok
    PROVE  Both(s, SelfWeight(m, env, s), ReadSelfWeight(k, h, s))
<1>1. PICK axis : axis = TheAxis(m, env, s.part)
  OBVIOUS
<1>2. PICK t : t = [s EXCEPT !.category = "dead", !.case = "dead", !.label = "Dead load",
                             !.start = 0, !.end = axis.length, !.by = "self_weight",
                             !.source = "none"]
  OBVIOUS
<1>3. PICK r : r = [s EXCEPT !.category = "dead", !.case = "dead", !.label = "Dead load",
                             !.start = 0, !.end = -1, !.by = "self_weight", !.source = "none"]
  OBVIOUS
<1>4. /\ AxisOf(m, env, s.part) # {} /\ Named(m.sections, axis.section).mass
      /\ SelfWeight(m, env, s) = LineLoad(m, env, axis, t)
  BY <1>1, <1>2, RefusedNot DEF SelfWeight, Take
<1>5. SameLine(t, r, axis) /\ r.part = s.part /\ t.form = s.form
  BY <1>2, <1>3 DEF SameLine, Arguments
<1>6. AxisAt(k, h, s.part) > 0 /\ k.members[AxisAt(k, h, s.part)] = axis
  BY <1>1, <1>4, AxisFound
<1>7. Both(t, LineLoad(m, env, axis, t), ReadLineLoad(k, h, r))
  BY <1>4, <1>5, <1>6, LineLoadBoth
<1>8. k.sections = m.sections
  BY SameAre
<1>9. ReadSelfWeight(k, h, s) = ReadLineLoad(k, h, r)
  BY <1>3, <1>4, <1>6, <1>8 DEF ReadSelfWeight, Take
<1> QED BY <1>4, <1>5, <1>7, <1>9 DEF Both, SameHandle

LEMMA DistributeBoth ==
    ASSUME NEW m, ModelOK(m), NEW k, Read(m, k), NEW env, NEW h, EnvKnown(env, h), NEW s,
           Distribute(m, env, s).ok
    PROVE  Both(s, Distribute(m, env, s), ReadDistribute(k, h, s))
<1>1. PICK axis : axis = TheAxis(m, env, s.part)
  OBVIOUS
<1>2. PICK load : load = CHOOSE l \in LoadOf(m, env, s.source) : TRUE
  OBVIOUS
<1>3. /\ AxisOf(m, env, s.part) # {} /\ LoadOf(m, env, s.source) # {}
      /\ s.along # <<>> /\ AllDiffer(s.along) /\ s.flaw = "none"
      /\ \A i \in DOMAIN s.along : 0 < s.along[i] /\ s.along[i] < axis.length
  BY <1>1, RefusedNot DEF Distribute, Take
<1>4. AxisAt(k, h, s.part) > 0 /\ k.members[AxisAt(k, h, s.part)] = axis
  BY <1>1, <1>3, AxisFound
<1>5. Known(h, "load", s.source) /\ k.loads[LoadAt(k, h, s.source)] = load
  BY <1>2, <1>3, LoadFound
<1>6. PICK more : more = [i \in DOMAIN s.along |->
                             [id |-> <<s.id, i>>, member |-> axis.id, case |-> load.case,
                              at |-> s.along[i], source |-> load.id]]
  OBVIOUS
<1>7. PICK n, j : n = [m EXCEPT !.points = @ \o more] /\ j = [k EXCEPT !.points = @ \o more]
  OBVIOUS
<1>8. PICK f, v : f = "points" /\ v = m.points \o more
  OBVIOUS
<1>9. Changed(m, n, f, v) /\ Changed(k, j, f, v) /\ f \in SameFields
  BY <1>7, <1>8, SameAre DEF Changed, ModelFields, SameFields
<1>10. Read(n, j)
  BY <1>8, <1>9, ChangedBoth
<1>11. PICK none : none = "none"
  OBVIOUS
<1>12. Distribute(m, env, s) = Done(n, none, none)
  BY <1>1, <1>2, <1>6, <1>7, <1>11, RefusedNot DEF Distribute, Take
<1>13. IsSound(s)
  BY <1>3 DEF IsSound
<1>14. ReadDistribute(k, h, s) = Done(j, none, none)
  BY <1>3, <1>4, <1>5, <1>6, <1>7, <1>11, <1>13 DEF ReadDistribute, Take
<1>15. SameHandle(s, Handle(none, none), Handle(none, none))
  BY <1>11 DEF SameHandle, Handle, ReadKinds
<1> QED BY <1>10, <1>12, <1>14, <1>15, BothDone

\* The calls that are read.
LEMMA ReadCallBoth ==
    ASSUME NEW m, ModelOK(m), NEW k, Read(m, k), NEW env, NEW h, EnvKnown(env, h), NEW s,
           IsStatement(s), IsRead(s), ~IsForeign(s), Execute(m, env, s).ok
    PROVE  Both(s, Execute(m, env, s), ReadCall(k, h, s))
<1>0. DOMAIN s = Arguments /\ AtTop(s)
  BY DEF IsStatement, IsRead, AtTop
<1>1. CASE s.op = "basis"
  BY <1>1, BasisBoth DEF Execute, ReadCall
<1>2. CASE s.op = "part"
 <2>1. s.form = "assign"
   BY <1>2 DEF IsRead
 <2> QED BY <1>2, <2>1, PartBoth DEF Execute, ReadCall
<1>3. CASE s.op = "material"
 <2>1. s.form = "assign"
   BY <1>3 DEF IsRead
 <2> QED BY <1>3, <2>1, MaterialBoth DEF Execute, ReadCall
<1>4. CASE s.op = "section"
 <2>1. s.form = "assign"
   BY <1>4 DEF IsRead
 <2> QED BY <1>4, <2>1, SectionBoth DEF Execute, ReadCall
<1>5. CASE s.op = "wind"
 <2>1. s.form = "assign"
   BY <1>5 DEF IsRead
 <2> QED BY <1>5, <2>1, WindBoth DEF Execute, ReadCall
<1>6. CASE s.op = "wind load"
  BY <1>0, <1>6, WindLoadBoth DEF Execute, ReadCall
<1>7. CASE s.op = "surface load"
  BY <1>0, <1>7, SurfaceLoadBoth DEF Execute, ReadCall
<1>8. CASE s.op = "connect"
 <2>1. s.form = "expr"
   BY <1>8 DEF IsRead
 <2> QED BY <1>8, <2>1, ConnectBoth DEF Execute, ReadCall
<1>9. CASE s.op = "axis"
 <2>1. s.form = "expr"
   BY <1>9 DEF IsRead
 <2> QED BY <1>9, <2>1, AxisBoth DEF Execute, ReadCall
<1>10. CASE s.op = "distribute"
  BY <1>10, DistributeBoth DEF Execute, ReadCall
<1>11. CASE s.op = "point load"
  BY <1>11, PointLoadBoth DEF Execute, ReadCall
<1>12. CASE s.op = "line load"
  BY <1>0, <1>12, DistributedLoadBoth DEF Execute, ReadCall
<1>13. CASE s.op = "self weight"
  BY <1>0, <1>13, SelfWeightBoth DEF Execute, ReadCall
<1>14. CASE s.op = "stability"
  BY <1>14, StabilityBoth DEF Execute, ReadCall
<1>15. CASE s.op = "cross section"
 <2>1. s.members = <<>>
   BY <1>15 DEF IsForeign
 <2> QED BY <1>15, <2>1, CrossSectionBoth DEF Execute, ReadCall
<1>16. CASE s.op = "member stability"
 <2>1. s.members = <<>>
   BY <1>16 DEF IsForeign
 <2> QED BY <1>16, <2>1, MemberStabilityBoth DEF Execute, ReadCall
<1>17. CASE s.op = "combination"
  BY <1>17, CombinationBoth DEF Execute, ReadCall
<1>18. CASE s.op = "assembly"
  BY <1>18, AssemblyBoth DEF Execute, ReadCall
<1>19. CASE s.op = "manifest"
  BY <1>19, ManifestBoth DEF Execute, ReadCall
<1> QED BY <1>1, <1>2, <1>3, <1>4, <1>5, <1>6, <1>7, <1>8, <1>9, <1>10, <1>11, <1>12, <1>13,
           <1>14, <1>15, <1>16, <1>17, <1>18, <1>19 DEF IsRead

LEMMA DeclaredSame ==
    ASSUME NEW m, NEW k, Alike(m, k)
    PROVE  Declared(m) = Declared(k)
<1>1. PICK combos : combos = IF m.combos # <<>> THEN m.combos
              ELSE <<[id |-> "SLS-1.0", limit |-> "serviceability",
                      factors |-> DOMAIN m.cases, sound |-> TRUE]>>
  OBVIOUS
<1>2. DOMAIN m = ModelFields /\ DOMAIN k = ModelFields /\ k.combos = m.combos /\ k.cases = m.cases
  BY DEF Alike, SameFields, ModelFields
<1>3. PICK d : d = [m EXCEPT !.candidates = <<>>, !.geometry = {}, !.materialIds = {},
                             !.sectionIds = {}, !.combos = combos]
  OBVIOUS
<1>4. PICK e : e = [k EXCEPT !.candidates = <<>>, !.geometry = {}, !.materialIds = {},
                             !.sectionIds = {}, !.combos = combos]
  OBVIOUS
<1>5. Declared(m) = d
  BY <1>1, <1>2, <1>3 DEF Declared, ModelFields
<1>6. Declared(k) = e
  BY <1>1, <1>2, <1>4 DEF Declared, ModelFields
<1>7. d = [g \in ModelFields |-> d[g]] /\ e = [g \in ModelFields |-> e[g]]
  BY <1>2, <1>3, <1>4
<1>8. ASSUME NEW g \in ModelFields PROVE d[g] = e[g]
 <2>1. CASE g \in {"candidates", "geometry", "materialIds", "sectionIds", "combos"}
   BY <1>2, <1>3, <1>4, <2>1
 <2>2. CASE g \notin {"candidates", "geometry", "materialIds", "sectionIds", "combos"}
  <3>1. d[g] = m[g] /\ e[g] = k[g] /\ g \in SameFields
    BY <1>2, <1>3, <1>4, <2>2 DEF SameFields
  <3> QED BY <3>1 DEF Alike
 <2> QED BY <2>1, <2>2
<1> QED BY <1>5, <1>6, <1>7, <1>8

\* What reading keeps of handles.
HandlesAfter(h, s, r) == IF r.kind \in {"none", "manifest"} THEN h ELSE Put(h, <<r.kind, s.name>>, r.id)

LEMMA KnownAfter ==
    ASSUME NEW env, NEW h, EnvKnown(env, h), NEW s, IsStatement(s), IsRead(s), NEW g, NEW r,
           SameHandle(s, g, r)
    PROVE  EnvKnown(Assigned(env, s, g), HandlesAfter(h, s, r))
<1>1. PICK own : own = IF s.name = "" THEN env ELSE Put(env, s.name, g)
  OBVIOUS
<1>2. Assigned(env, s, g) = own
  BY <1>1 DEF Assigned, IsRead
<1>3. CASE s.form = "expr"
 <2>1. own = env
   BY <1>1, <1>3 DEF IsStatement
 <2>2. r.kind \in {"none", "manifest"}
   BY <1>3 DEF SameHandle
 <2>3. HandlesAfter(h, s, r) = h
   BY <2>2 DEF HandlesAfter
 <2> QED BY <1>2, <2>1, <2>3
<1>4. CASE s.form = "assign"
 <2>1. PICK x : x = s.name
   OBVIOUS
 <2>2. x # "" /\ own = Put(env, x, g)
   BY <1>1, <1>4, <2>1 DEF IsStatement
 <2>3. DOMAIN own = DOMAIN env \cup {x} /\ own[x] = g
       /\ \A y \in DOMAIN own : y # x => own[y] = env[y]
   BY <2>2 DEF Put
 <2>4. CASE g = r /\ g.kind \in ReadKinds
  <3>1. PICK kind, id : kind = g.kind /\ id = g.id
    OBVIOUS
  <3>2. HandlesAfter(h, s, r) = Put(h, <<kind, x>>, id)
    BY <2>1, <2>4, <3>1 DEF HandlesAfter, ReadKinds
  <3>3. PICK p : p = Put(h, <<kind, x>>, id)
    OBVIOUS
  <3>4. DOMAIN p = DOMAIN h \cup {<<kind, x>>} /\ p[<<kind, x>>] = id
        /\ \A z \in DOMAIN h : z # <<kind, x>> => p[z] = h[z]
    BY <3>3 DEF Put
  <3>5. ASSUME NEW y \in DOMAIN own
        PROVE  /\ own[y].kind # "axis"
               /\ own[y].kind \in ReadKinds =>
                     <<own[y].kind, y>> \in DOMAIN p /\ p[<<own[y].kind, y>>] = own[y].id
   <4>1. CASE y = x
     BY <2>3, <2>4, <3>1, <3>4, <4>1 DEF ReadKinds
   <4>2. CASE y # x
    <5>1. own[y] = env[y] /\ y \in DOMAIN env
      BY <2>3, <4>2
    <5>2. PICK other : other = env[y].kind
      OBVIOUS
    <5>3. <<other, y>> # <<kind, x>>
      BY <4>2
    <5>4. other # "axis" /\ (other \in ReadKinds =>
              <<other, y>> \in DOMAIN h /\ h[<<other, y>>] = env[y].id)
      BY <5>1, <5>2 DEF EnvKnown
    <5> QED BY <3>4, <5>1, <5>2, <5>3, <5>4
   <4> QED BY <4>1, <4>2
  <3> QED BY <1>2, <3>2, <3>3, <3>5 DEF EnvKnown
 <2>5. CASE r.kind \in {"none", "manifest"} /\ g.kind \notin ReadKinds \cup {"axis"}
  <3>1. HandlesAfter(h, s, r) = h
    BY <2>5 DEF HandlesAfter
  <3>2. ASSUME NEW y \in DOMAIN own
        PROVE  /\ own[y].kind # "axis"
               /\ own[y].kind \in ReadKinds =>
                     <<own[y].kind, y>> \in DOMAIN h /\ h[<<own[y].kind, y>>] = own[y].id
   <4>1. CASE y = x
     BY <2>3, <2>5, <4>1
   <4>2. CASE y # x
     BY <2>3, <4>2 DEF EnvKnown
   <4> QED BY <4>1, <4>2
  <3> QED BY <1>2, <3>1, <3>2 DEF EnvKnown
 <2> QED BY <1>4, <2>4, <2>5 DEF SameHandle
<1> QED BY <1>3, <1>4 DEF IsRead

\* As long as nothing is passed over, reading is where execution is, or it has ended
\* with the manifest that execution generated.
Meets(r, g) ==
    r.status = "running" /\ ~g.passed /\ g.status # "foreign" =>
        \/ /\ g.status = "reading" /\ r.manifest = <<>>
           /\ Read(r.model, g.model) /\ EnvKnown(r.env, g.handles)
        \/ g.status = "declared" /\ r.manifest = <<Declared(g.model)>>

IsReading(g) == DOMAIN g = {"status", "model", "handles", "passed"} /\ g.passed \in BOOLEAN

LEMMA MeetsOn ==
    ASSUME RunOK(run), IsReading(reading), Meets(run, reading), NEW s, IsStatement(s),
           NEW call, call = Execute(run.model, run.env, s),
           NEW read, read = ReadCall(reading.model, reading.handles, s)
    PROVE  IsReading(AfterReading(s, read)) /\ Meets(AfterCall(s, call), AfterReading(s, read))
<1>1. PICK after, next : after = AfterCall(s, call) /\ next = AfterReading(s, read)
  OBVIOUS
<1>2. IsReading(next)
  BY <1>1 DEF AfterReading, IsReading
<1>3. after.status = "running" => run.status = "running"
  BY <1>1 DEF AfterCall, RunOK
<1>4. CASE reading.status \in {"refused", "foreign"}
 <2>1. next = reading
   BY <1>1, <1>4 DEF AfterReading
 <2> QED BY <1>1, <1>2, <1>3, <1>4, <2>1 DEF Meets
<1>5. CASE reading.status \notin {"refused", "foreign"}
           /\ (reading.status = "declared" \/ ~IsRead(s))
 <2>1. next.passed
   BY <1>1, <1>5 DEF AfterReading, IsReading
 <2> QED BY <1>1, <1>2, <2>1 DEF Meets
<1>6. CASE reading.status \notin {"refused", "foreign", "declared"} /\ IsRead(s) /\ IsForeign(s)
 <2>1. next.status = "foreign"
   BY <1>1, <1>6 DEF AfterReading, IsReading
 <2> QED BY <1>1, <1>2, <2>1 DEF Meets
<1>7. CASE reading.status \notin {"refused", "foreign", "declared"} /\ IsRead(s) /\ ~IsForeign(s)
 <2>1. SUFFICES ASSUME after.status = "running", ~next.passed, next.status # "foreign"
                PROVE  \/ /\ next.status = "reading" /\ after.manifest = <<>>
                          /\ Read(after.model, next.model) /\ EnvKnown(after.env, next.handles)
                       \/ next.status = "declared" /\ after.manifest = <<Declared(next.model)>>
   BY <1>1, <1>2 DEF Meets
 <2>2. ~reading.passed
   BY <1>1, <1>7, <2>1 DEF AfterReading, IsReading
 <2>3. /\ run.status = "running" /\ reading.status = "reading" /\ run.manifest = <<>>
       /\ Read(run.model, reading.model) /\ EnvKnown(run.env, reading.handles)
   BY <1>3, <1>7, <2>1, <2>2 DEF Meets
 <2>4. call.ok
   BY <1>1, <1>7, <2>1, <2>3 DEF AfterCall, RunOK, IsRead
 <2>5. PICK m, env, k, h : m = run.model /\ env = run.env /\ k = reading.model
                           /\ h = reading.handles
   OBVIOUS
 <2>6. ModelOK(m)
   BY <2>5 DEF RunOK
 <2>7. Both(s, call, read)
   BY <1>7, <2>3, <2>4, <2>5, <2>6, ReadCallBoth
 <2>8. Read(call.model, read.model) /\ SameHandle(s, call.handle, read.handle) /\ read.ok
   BY <2>7 DEF Both
 <2>9. PICK given, had : given = call.handle /\ had = read.handle
   OBVIOUS
 <2>10. EnvKnown(Assigned(env, s, given), HandlesAfter(h, s, had))
   BY <1>7, <2>3, <2>5, <2>8, <2>9, KnownAfter
 <2>11. after.model = call.model /\ after.env = Assigned(env, s, given)
        /\ after.manifest = IF s.op = "manifest" /\ s.name = Declaration
                            THEN <<Declared(call.model)>> ELSE run.manifest
   BY <1>1, <2>3, <2>4, <2>5, <2>9 DEF AfterCall, RunOK
 <2>12. next.model = read.model
        /\ next.status = IF s.op = "manifest" THEN "declared" ELSE reading.status
   BY <1>1, <1>7, <2>3, <2>8 DEF AfterReading, IsReading
 <2>13. next.handles = HandlesAfter(h, s, had)
   BY <1>1, <1>7, <2>3, <2>5, <2>8, <2>9 DEF AfterReading, IsReading, HandlesAfter
 <2>14. CASE s.op = "manifest"
  <3>1. s.name = Declaration
    BY <1>7, <2>14 DEF IsRead
  <3>2. Declared(call.model) = Declared(read.model)
    BY <2>8, DeclaredSame DEF Read
  <3> QED BY <2>11, <2>12, <2>14, <3>1, <3>2
 <2>15. CASE s.op # "manifest"
   BY <2>3, <2>8, <2>10, <2>11, <2>12, <2>13, <2>15
 <2> QED BY <2>14, <2>15
<1> QED BY <1>4, <1>5, <1>6, <1>7

ReadingInv ==
    /\ RunOK(run) /\ design_ \in Scripted /\ line \in Nat \ {0}
    /\ IsReading(reading) /\ Meets(run, reading)

LEMMA ReadingStarts ==
    ASSUME AuthoringInit
    PROVE  ReadingInv
<1>1. PICK m, e : m = NewModel /\ e = <<>>
  OBVIOUS
<1>2. /\ run = [status |-> "running", model |-> m, env |-> e, manifest |-> e]
      /\ reading = [status |-> "reading", model |-> m, handles |-> e, passed |-> FALSE]
  BY <1>1 DEF AuthoringInit
<1>3. EnvOK(m, e) /\ EnvKnown(e, e)
  BY <1>1 DEF EnvOK, EnvKnown
<1>4. RunOK(run)
  BY <1>1, <1>2, <1>3, NewModelOK DEF RunOK
<1>5. Alike(m, m)
  BY <1>1 DEF Alike, NewModel, ModelFields
<1>6. m.cases = e /\ m.assembled = e
  BY <1>1 DEF NewModel
<1>7. CasesAre(m.cases)
 <2>1. DOMAIN e = {} /\ e = [c \in DOMAIN e |-> e[c]]
   BY <1>1
 <2> QED BY <1>6, <2>1 DEF CasesAre
<1>8. Read(m, m)
  BY <1>1, <1>5, <1>6, <1>7 DEF Read, Assembled
<1>9. IsReading(reading) /\ Meets(run, reading)
  BY <1>1, <1>2, <1>3, <1>8 DEF IsReading, Meets
<1> QED BY <1>4, <1>9 DEF ReadingInv, AuthoringInit

\* The theorem: of any design, with whatever departures and refusals, that runs and
\* is read without a call passed over, reading declares exactly what running generates.
THEOREM DeclarationCorrect == AuthoringSpec => []DeclarationIsManifest
<1>1. AuthoringInit => ReadingInv
  BY ReadingStarts
<1>2. ReadingInv /\ [AuthoringNext]_authoringVars => ReadingInv'
 <2>1. SUFFICES ASSUME ReadingInv, [AuthoringNext]_authoringVars PROVE ReadingInv'
   OBVIOUS
 <2>2. CASE WriteNext
  <3>1. /\ line <= Len(Statements(design_)) /\ line \in Nat \ {0} /\ design_ \in Scripted
        /\ Len(Statements(design_)) \in Nat
    BY <2>1, <2>2, StatementsAssumption DEF WriteNext, ReadingInv
  <3>2. PICK written : written = Statements(design_)[line]
    OBVIOUS
  <3>3. PICK s \in Chosen(written), again \in BOOLEAN :
            TakeStatement(s) /\ line' = IF again THEN line ELSE line + 1
    BY <2>2, <3>2 DEF WriteNext
  <3>4. s \in {written.own} \cup written.others
    BY <3>3 DEF Chosen
  <3>5. line \in DOMAIN Statements(design_)
    BY <3>1, StatementsAssumption
  <3>6. IsStatement(s)
    BY <3>1, <3>2, <3>4, <3>5, StatementsAssumption
  <3>7. PICK call, read : /\ call = Execute(run.model, run.env, s)
                          /\ read = ReadCall(reading.model, reading.handles, s)
    OBVIOUS
  <3>8. run' = AfterCall(s, call) /\ reading' = AfterReading(s, read)
    BY <3>3, <3>7 DEF TakeStatement
  <3>9. RunOK(run')
    BY <2>1, <3>6, <3>7, <3>8, AfterCallOK DEF ReadingInv
  <3>10. IsReading(reading') /\ Meets(run', reading')
    BY <2>1, <3>6, <3>7, <3>8, MeetsOn DEF ReadingInv
  <3>11. line' \in Nat \ {0} /\ design_' = design_
    BY <2>2, <3>1, <3>3 DEF WriteNext
  <3> QED BY <3>1, <3>9, <3>10, <3>11 DEF ReadingInv
 <2>3. CASE LeaveOut
   BY <2>1, <2>3 DEF LeaveOut, ReadingInv
 <2>4. CASE CaptureBoth
   BY <2>1, <2>4 DEF CaptureBoth, ReadingInv
 <2>5. CASE UNCHANGED authoringVars
   BY <2>1, <2>5 DEF authoringVars, ReadingInv
 <2> QED BY <2>1, <2>2, <2>3, <2>4, <2>5 DEF AuthoringNext
<1>3. ReadingInv => DeclarationIsManifest
  BY DEF ReadingInv, Meets, DeclarationIsManifest
<1> QED BY <1>1, <1>2, <1>3, PTL DEF AuthoringSpec

----
(* The paths of loads: chains of connections, and found when there is one.   *)

ChainOK(d, start, p) ==
    /\ IsList(p) /\ p # <<>> /\ p[1] = start
    /\ \A i, j \in DOMAIN p : p[i] = p[j] => i = j
    /\ \A i \in 1..(Len(p) - 1) :
          \E c \in ToSet(d.connections) : c.from = p[i] /\ c.to = p[i + 1]

\* A queue of chains of components that were met, in place of count of these.
ChainsOK(d, start, ids, count, w) ==
    /\ DOMAIN w = {"queue", "seen"} /\ IsList(w.queue)
    /\ \A p \in ToSet(w.queue) : ChainOK(d, start, p) /\ ToSet(p) \subseteq w.seen
    /\ w.seen \subseteq ids /\ Cardinality(w.seen) = Len(w.queue) + count

LEMMA LongerChain ==
    ASSUME NEW d, NEW start, NEW p, ChainOK(d, start, p), NEW c \in ToSet(d.connections),
           c.from = Last(p), c.to \notin ToSet(p)
    PROVE  /\ ChainOK(d, start, Append(p, c.to))
           /\ ToSet(Append(p, c.to)) = ToSet(p) \cup {c.to}
<1>1. PICK q, e : e = c.to /\ q = Append(p, e)
  OBVIOUS
<1>2. PICK n \in Nat : n = Len(p) /\ DOMAIN p = 1..n
  BY LengthOfList DEF ChainOK
<1>3. n # 0 /\ Last(p) = p[n]
 <2>1. n # 0
   BY <1>2 DEF ChainOK, IsList
 <2> QED BY <1>2, <2>1 DEF Last
<1>4. /\ IsList(q) /\ ToSet(q) = ToSet(p) \cup {e} /\ Len(q) = n + 1 /\ q[n + 1] = e
      /\ \A i \in 1..n : q[i] = p[i]
      /\ DOMAIN q = 1..(n + 1)
 <2>1. IsList(p)
   BY DEF ChainOK
 <2>2. /\ IsList(q) /\ ToSet(q) = ToSet(p) \cup {e} /\ Len(q) = n + 1 /\ q[n + 1] = e
       /\ \A i \in 1..n : q[i] = p[i]
       /\ DOMAIN q = DOMAIN p \cup {n + 1}
   BY <1>1, <1>2, <2>1, AddedToList
 <2> QED BY <1>2, <2>2
<1>5. q # <<>> /\ q[1] = start
  BY <1>3, <1>4 DEF ChainOK
<1>6. ASSUME NEW i \in DOMAIN q, NEW j \in DOMAIN q, q[i] = q[j] PROVE i = j
 <2>1. \A k \in 1..n : p[k] # e
   BY <1>1, <1>2 DEF ToSet
 <2>2. CASE i \in 1..n /\ j \in 1..n
   BY <1>2, <1>4, <1>6, <2>2 DEF ChainOK
 <2>3. CASE i = n + 1 \/ j = n + 1
   BY <1>2, <1>4, <1>6, <2>1, <2>3
 <2> QED BY <1>4, <2>2, <2>3
<1>7. ASSUME NEW i \in 1..(Len(q) - 1)
      PROVE  \E x \in ToSet(d.connections) : x.from = q[i] /\ x.to = q[i + 1]
 <2>1. i \in 1..n
   BY <1>2, <1>4
 <2>2. CASE i = n
   BY <1>1, <1>3, <1>4, <2>1, <2>2
 <2>3. CASE i # n
  <3>1. PICK j : j = i + 1
    OBVIOUS
  <3>2. i \in 1..(n - 1) /\ j \in 1..n
    BY <1>2, <2>1, <2>3, <3>1
  <3>3. \E x \in ToSet(d.connections) : x.from = p[i] /\ x.to = p[i + 1]
    BY <1>2, <3>2 DEF ChainOK
  <3> QED BY <1>4, <2>1, <3>1, <3>2, <3>3
 <2> QED BY <2>2, <2>3
<1>8. ChainOK(d, start, q)
  BY <1>4, <1>5, <1>6, <1>7 DEF ChainOK
<1> QED BY <1>1, <1>4, <1>8

LEMMA ChainsOne ==
    ASSUME NEW d, NEW start, NEW ids, IsFiniteSet(ids), NEW count, count \in Int, NEW path,
           ChainOK(d, start, path), NEW how, how.kind = "follow",
           NEW c \in ToSet(d.connections), c.to \in ids,
           NEW w, ChainsOK(d, start, ids, count, w), ToSet(path) \subseteq w.seen
    PROVE  /\ ChainsOK(d, start, ids, count, FoldStep(path, how, w, c))
           /\ ToSet(path) \subseteq FoldStep(path, how, w, c).seen
<1>1. PICK v : v = FoldStep(path, how, w, c)
  OBVIOUS
<1>2. v = IF c.from = Last(path) /\ c.to \notin w.seen
          THEN [queue |-> Append(w.queue, Append(path, c.to)), seen |-> w.seen \cup {c.to}]
          ELSE w
  BY <1>1 DEF FoldStep
<1>3. CASE c.from = Last(path) /\ c.to \notin w.seen
 <2>1. PICK p : p = Append(path, c.to)
   OBVIOUS
 <2>2. ChainOK(d, start, p) /\ ToSet(p) = ToSet(path) \cup {c.to}
   BY <1>3, <2>1, LongerChain
 <2>3. PICK q, r : q = w.queue /\ r = Append(q, p)
   OBVIOUS
 <2>4. IsList(q) /\ IsList(r) /\ ToSet(r) = ToSet(q) \cup {p} /\ Len(r) = Len(q) + 1 /\ Len(q) \in Nat
   BY <2>3, AddedToList, LengthOfList DEF ChainsOK
 <2>5. PICK seen : seen = w.seen
   OBVIOUS
 <2>6. v = [queue |-> r, seen |-> seen \cup {c.to}]
   BY <1>2, <1>3, <2>1, <2>3, <2>5
 <2>7. DOMAIN v = {"queue", "seen"} /\ v.queue = r /\ v.seen = seen \cup {c.to}
   BY <2>6
 <2>8. IsFiniteSet(seen) /\ seen \subseteq ids
   BY <2>5, FS_Subset DEF ChainsOK
 <2>9. Cardinality(v.seen) = Cardinality(seen) + 1
  <3>1. PICK x, more : x = c.to /\ more = seen \cup {x}
    OBVIOUS
  <3>2. Cardinality(more) = IF x \in seen THEN Cardinality(seen) ELSE Cardinality(seen) + 1
    BY <2>8, <3>1, FS_AddElement
  <3> QED BY <1>3, <2>5, <2>7, <3>1, <3>2
 <2>10. Cardinality(v.seen) = Len(r) + count
  <3>1. PICK a, b : a = Cardinality(seen) /\ b = Len(q)
    OBVIOUS
  <3>2. a = b + count
    BY <2>3, <2>5, <3>1 DEF ChainsOK
  <3> QED BY <2>4, <2>9, <3>1, <3>2
 <2>11. ASSUME NEW x \in ToSet(r) PROVE ChainOK(d, start, x) /\ ToSet(x) \subseteq v.seen
  <3>1. CASE x = p
    BY <2>2, <2>5, <2>7, <3>1
  <3>2. CASE x \in ToSet(q)
    BY <2>3, <2>5, <2>7, <3>2 DEF ChainsOK
  <3> QED BY <2>4, <3>1, <3>2
 <2>12. v.seen \subseteq ids /\ ToSet(path) \subseteq v.seen
   BY <2>5, <2>7, <2>8
 <2> QED BY <1>1, <2>4, <2>7, <2>10, <2>11, <2>12 DEF ChainsOK
<1>4. CASE ~(c.from = Last(path) /\ c.to \notin w.seen)
  BY <1>1, <1>2, <1>4
<1> QED BY <1>3, <1>4

LEMMA FollowedChains ==
    ASSUME NEW d, IsList(d.connections), NEW start, NEW ids, IsFiniteSet(ids), NEW count,
           count \in Int, \A c \in ToSet(d.connections) : c.to \in ids,
           NEW w, ChainsOK(d, start, ids, count, w), w.queue # <<>>
    PROVE  ChainsOK(d, start, ids, count + 1, Followed(d, w))
<1>1. PICK connections : connections = d.connections
  OBVIOUS
<1>2. PICK n \in Nat : n = Len(connections) /\ DOMAIN connections = 1..n
  BY <1>1, LengthOfList
<1>3. PICK queue, path, before, seen :
          queue = w.queue /\ path = Head(queue) /\ before = Tail(queue) /\ seen = w.seen
  OBVIOUS
<1>4. IsList(queue) /\ queue # <<>>
  BY <1>3 DEF ChainsOK
<1>5. IsList(before) /\ ToSet(queue) = {path} \cup ToSet(before) /\ path \in ToSet(queue)
  BY <1>3, <1>4, FirstOfList
<1>6. ChainOK(d, start, path) /\ ToSet(path) \subseteq seen
  BY <1>3, <1>5 DEF ChainsOK
<1>7. PICK how, b : how = Follows /\ b = [w EXCEPT !.queue = Tail(@)]
  OBVIOUS
<1>8. how.kind = "follow"
  BY <1>7 DEF Follows
<1>9. DOMAIN b = {"queue", "seen"} /\ b.queue = before /\ b.seen = seen
  BY <1>3, <1>7 DEF ChainsOK
<1>10. PICK f : Folds(f, path, how, b, connections, n) /\ Folded(path, how, b, connections, n) = f[n]
  BY FoldSteps
<1>11. PICK more \in Int : more = count + 1
  OBVIOUS
<1>12. ChainsOK(d, start, ids, more, b)
 <2>1. Len(queue) \in Nat /\ Len(before) = Len(queue) - 1
  <3>1. queue \in Seq(ToSet(queue))
    BY <1>4 DEF IsList
  <3>2. PICK S : S = ToSet(queue)
    OBVIOUS
  <3> QED BY <1>3, <1>4, <3>1, <3>2
 <2>2. PICK a, k : a = Cardinality(seen) /\ k = Len(queue)
   OBVIOUS
 <2>3. a = k + count
   BY <1>3, <2>2 DEF ChainsOK
 <2>4. Cardinality(b.seen) = Len(b.queue) + more
   BY <1>9, <1>11, <2>1, <2>2, <2>3
 <2>5. \A p \in ToSet(before) : ChainOK(d, start, p) /\ ToSet(p) \subseteq b.seen
   BY <1>3, <1>5, <1>9 DEF ChainsOK
 <2> QED BY <1>3, <1>5, <1>9, <2>4, <2>5 DEF ChainsOK
<1> DEFINE Good(v) == ChainsOK(d, start, ids, more, v) /\ ToSet(path) \subseteq v.seen
<1> DEFINE T == {k \in Nat : k <= n => Good(f[k])}
<1>13. 0 \in T
  BY <1>6, <1>9, <1>10, <1>12 DEF Folds
<1>14. ASSUME NEW k \in Nat, k \in T PROVE k + 1 \in T
 <2>1. SUFFICES ASSUME k + 1 <= n PROVE Good(f[k + 1])
   OBVIOUS
 <2>2. Good(f[k]) /\ k \in 0..(n - 1) /\ k + 1 \in 1..n
   BY <1>14, <2>1
 <2>3. f[k + 1] = FoldStep(path, how, f[k], connections[k + 1])
   BY <1>10, <2>2 DEF Folds
 <2>4. PICK v, c : v = f[k] /\ c = connections[k + 1]
   OBVIOUS
 <2>5. c \in ToSet(d.connections)
   BY <1>1, <1>2, <2>2, <2>4 DEF ToSet
 <2>6. ChainsOK(d, start, ids, more, v) /\ ToSet(path) \subseteq v.seen /\ c.to \in ids
   BY <2>2, <2>4, <2>5
 <2>7. Good(FoldStep(path, how, v, c))
   BY <1>6, <1>8, <2>5, <2>6, ChainsOne
 <2> QED BY <2>3, <2>4, <2>7
<1> HIDE DEF T
<1>15. \A k \in Nat : k \in T
  BY <1>13, <1>14, AllNaturals
<1>16. ChainsOK(d, start, ids, more, f[n])
  BY <1>15 DEF T
<1>17. Followed(d, w) = f[n]
  BY <1>1, <1>2, <1>3, <1>7, <1>10, FollowFolded
<1> QED BY <1>11, <1>16, <1>17

\* There are no more identifiers than records.
LEMMA FewIds ==
    ASSUME NEW x, IsList(x)
    PROVE  IsFiniteSet(IdsOf(x)) /\ Cardinality(IdsOf(x)) <= Len(x)
<1>1. PICK n \in Nat : n = Len(x) /\ DOMAIN x = 1..n
  BY LengthOfList
<1>2. PICK S, T, f : S = 1..n /\ T = IdsOf(x) /\ f = [i \in 1..n |-> x[i].id]
  OBVIOUS
<1>3. T = {x[i].id : i \in 1..n}
  BY <1>1, <1>2 DEF IdsOf, ToSet
<1>4. f \in [S -> T]
  BY <1>2, <1>3
<1>5. \A t \in T : \E i \in S : f[i] = t
  BY <1>2, <1>3
<1>6. f \in Surjection(S, T)
  BY <1>4, <1>5 DEF Surjection
<1>7. IsFiniteSet(S) /\ Cardinality(S) = n
  BY <1>2, FS_Interval
<1>8. IsFiniteSet(T) /\ Cardinality(T) <= Cardinality(S)
  BY <1>6, <1>7, FS_Surjection
<1> QED BY <1>1, <1>2, <1>7, <1>8

\* The path of a load is a chain to the ground if there is one.
LEMMA PathIsChain ==
    ASSUME NEW d, IsList(d.connections), IsList(d.parts), NEW load, load.component \in IdsOf(d.parts),
           \A c \in ToSet(d.connections) : c.to \in IdsOf(d.parts)
    PROVE  LoadPath(d, load) # <<>> => IsChain(d, load, LoadPath(d, load))
<1>1. PICK n \in Nat : n = Len(d.parts)
  BY LengthOfList
<1>2. PICK start, ids : start = load.component /\ ids = IdsOf(d.parts)
  OBVIOUS
<1>3. IsFiniteSet(ids) /\ Cardinality(ids) <= n
  BY <1>1, <1>2, FewIds
<1>4. PICK how, b : how = Walks /\ b = StartAt(load)
  OBVIOUS
<1>5. PICK f : f = Walked(d, how, b, n)
  OBVIOUS
<1>6. f[0] = b /\ \A k \in 0..(n - 1) : f[k + 1] = WalkStep(d, how, f[k])
  BY <1>5, WalkSteps
<1>7. ChainsOK(d, start, ids, 0, b)
 <2>1. PICK e, p, q : e = <<>> /\ p = Append(e, start) /\ q = Append(e, p)
   OBVIOUS
 <2>2. p = <<start>> /\ q = <<p>>
   BY <2>1
 <2>3. DOMAIN b = {"queue", "seen"} /\ b.queue = q /\ b.seen = {start}
   BY <1>2, <1>4, <2>2 DEF StartAt
 <2>4. IsList(e) /\ ToSet(e) = {} /\ Len(e) = 0 /\ DOMAIN e = {}
   BY <2>1, EmptyList
 <2>5. IsList(p) /\ ToSet(p) = {start} /\ Len(p) = 1 /\ p[1] = start /\ DOMAIN p = {1}
  <3>1. /\ IsList(Append(e, start)) /\ ToSet(Append(e, start)) = ToSet(e) \cup {start}
    BY <2>4, AddedToList
  <3> QED BY <2>1, <2>2, <2>4, <3>1
 <2>6. ChainOK(d, start, p)
   BY <2>2, <2>5 DEF ChainOK
 <2>7. IsList(q) /\ ToSet(q) = {p} /\ Len(q) = 1
  <3>1. IsList(Append(e, p)) /\ ToSet(Append(e, p)) = ToSet(e) \cup {p}
    BY <2>4, AddedToList
  <3> QED BY <2>1, <2>2, <2>4, <3>1
 <2>8. Cardinality({start}) = 1
   BY FS_Singleton
 <2> QED BY <1>2, <2>3, <2>5, <2>6, <2>7, <2>8 DEF ChainsOK
\* Every step that does not end the walk follows one of the paths.
<1> DEFINE Ends(w) == w.queue = <<>> \/ Grounded(d, Last(Head(w.queue)))
<1> DEFINE Good(k, w) == \E count \in Int : ChainsOK(d, start, ids, count, w) /\ (Ends(w) \/ count = k)
<1> DEFINE T == {k \in Nat : k <= n => Good(k, f[k])}
<1>8. 0 \in T
  BY <1>6, <1>7
<1>9. ASSUME NEW k \in Nat, k \in T PROVE k + 1 \in T
 <2>1. SUFFICES ASSUME k + 1 <= n PROVE Good(k + 1, f[k + 1])
   OBVIOUS
 <2>2. PICK w : w = f[k]
   OBVIOUS
 <2>3. k \in 0..(n - 1) /\ Good(k, w)
   BY <1>9, <2>1, <2>2
 <2>4. PICK count \in Int : ChainsOK(d, start, ids, count, w) /\ (Ends(w) \/ count = k)
   BY <2>3
 <2>5. f[k + 1] = IF Ends(w) THEN w ELSE Followed(d, w)
   BY <1>4, <1>6, <2>2, <2>3 DEF WalkStep, Walks
 <2>6. CASE Ends(w)
   BY <2>4, <2>5, <2>6
 <2>7. CASE ~Ends(w)
  <3>1. ChainsOK(d, start, ids, count + 1, Followed(d, w))
    BY <1>2, <1>3, <2>4, <2>7, FollowedChains
  <3> QED BY <2>4, <2>5, <2>7, <3>1
 <2> QED BY <2>6, <2>7
<1> HIDE DEF T
<1>10. \A k \in Nat : k \in T
  BY <1>8, <1>9, AllNaturals
<1>11. PICK w : w = f[n]
  OBVIOUS
<1>12. PICK count \in Int : ChainsOK(d, start, ids, count, w) /\ (Ends(w) \/ count = n)
  BY <1>10, <1>11 DEF T
<1>13. LoadPath(d, load) = IF w.queue = <<>> THEN <<>> ELSE Head(w.queue)
  BY <1>1, <1>4, <1>5, <1>11, PathWalked
<1>14. ASSUME w.queue # <<>> PROVE IsChain(d, load, Head(w.queue))
 <2>1. PICK q, p : q = w.queue /\ p = Head(q)
   OBVIOUS
 <2>2. IsList(q) /\ q # <<>>
   BY <1>12, <1>14, <2>1 DEF ChainsOK
 <2>3. p \in ToSet(q)
   BY <2>1, <2>2, FirstOfList
 <2>4. ChainOK(d, start, p)
   BY <1>12, <2>1, <2>3 DEF ChainsOK
 <2>5. Ends(w)
  <3>1. SUFFICES ASSUME count = n PROVE FALSE
    BY <1>12
  <3>2. Cardinality(w.seen) <= Cardinality(ids) /\ Cardinality(ids) \in Nat
    BY <1>3, <1>12, FS_Subset, FS_CardinalityType DEF ChainsOK
  <3>3. PICK a, c, k : a = Cardinality(w.seen) /\ c = Cardinality(ids) /\ k = Len(q)
    OBVIOUS
  <3>4. k \in Nat /\ k # 0
   <4>1. PICK S : S = ToSet(q)
     OBVIOUS
   <4>2. q \in Seq(S)
     BY <2>2, <4>1 DEF IsList
   <4> QED BY <2>2, <3>3, <4>2
  <3>5. a = k + count /\ a <= c /\ c <= n /\ c \in Nat
    BY <1>3, <1>12, <2>1, <3>2, <3>3 DEF ChainsOK
  <3> QED BY <3>1, <3>4, <3>5
 <2>6. Grounded(d, Last(p))
   BY <1>14, <2>1, <2>5
 <2>7. AllDiffer(p)
   BY <2>4, DifferentPlaces DEF ChainOK
 <2>8. IsChain(d, load, p)
   BY <1>2, <2>4, <2>6, <2>7 DEF IsChain, ChainOK
 <2> QED BY <2>1, <2>8
<1> QED BY <1>13, <1>14

GraphLists(m) ==
    DOMAIN m = ModelFields /\ IsList(m.parts) /\ IsList(m.connections) /\ IsList(m.loads)

SameGraph(m, n) ==
    /\ DOMAIN n = ModelFields
    /\ n.parts = m.parts /\ n.connections = m.connections /\ n.loads = m.loads

\* A record more at the end of a list, or none.
MoreGraph(m, n, f) ==
    /\ DOMAIN n = ModelFields
    /\ n[f] = m[f] \/ \E e : n[f] = Append(m[f], e)
    /\ \A g \in {"parts", "connections", "loads"} \ {f} : n[g] = m[g]

LEMMA GraphGrows ==
    ASSUME NEW m, GraphLists(m), NEW f \in {"parts", "connections", "loads"}, NEW n,
           MoreGraph(m, n, f)
    PROVE  GraphLists(n)
<1>1. IsList(n[f])
 <2>1. PICK x : x = m[f]
   OBVIOUS
 <2>2. IsList(x)
   BY <2>1 DEF GraphLists
 <2>3. CASE n[f] = x
   BY <2>2, <2>3
 <2>4. CASE \E e : n[f] = Append(x, e)
   BY <2>2, <2>4, AddedToList
 <2> QED BY <2>1, <2>3, <2>4 DEF MoreGraph
<1> QED BY <1>1 DEF GraphLists, MoreGraph

LEMMA CaseKeepsGraph ==
    ASSUME NEW m, DOMAIN m = ModelFields, NEW s
    PROVE  SameGraph(m, WithCase(m, s))
<1>1. PICK p : p = Put(m.cases, s.case, [category |-> s.category, label |-> s.label])
  OBVIOUS
<1>2. WithCase(m, s) = [m EXCEPT !.cases = p]
  BY <1>1 DEF WithCase
<1> QED BY <1>2 DEF SameGraph, ModelFields

LEMMA ReadKeepsGraph ==
    ASSUME NEW m, DOMAIN m = ModelFields, NEW h, NEW s, IsRead(s),
           s.op \notin {"part", "surface load", "wind load", "connect"}
    PROVE  SameGraph(m, ReadCall(m, h, s).model)
<1>0. SameGraph(m, m)
  BY DEF SameGraph
<1>1. PICK n : n = ReadCall(m, h, s).model
  OBVIOUS
<1>3. CASE s.op = "basis"
  BY <1>0, <1>1, <1>3 DEF ReadCall, ReadBasis, Take, Done, Refused, SameGraph, ModelFields
<1>4. CASE s.op = "material"
  BY <1>0, <1>1, <1>4 DEF ReadCall, ReadMaterial, Take, Done, Refused, SameGraph, ModelFields
<1>5. CASE s.op = "section"
  BY <1>0, <1>1, <1>5 DEF ReadCall, ReadSection, Take, Done, Refused, SameGraph, ModelFields
<1>6. CASE s.op = "wind"
  BY <1>0, <1>1, <1>6 DEF ReadCall, ReadWindBasis, Take, Done, Refused, SameGraph, ModelFields
<1>7. CASE s.op = "axis"
  BY <1>0, <1>1, <1>7 DEF ReadCall, ReadAxis, Take, Done, Refused, SameGraph, ModelFields
<1>8. CASE s.op = "distribute"
  BY <1>0, <1>1, <1>8 DEF ReadCall, ReadDistribute, Take, Done, Refused, SameGraph, ModelFields
<1>9. CASE s.op = "point load"
 <2>1. PICK k : k = WithCase(m, s)
   OBVIOUS
 <2>2. SameGraph(m, k)
   BY <2>1, CaseKeepsGraph
 <2>3. n = m \/ \E v : n = [k EXCEPT !.points = v]
   BY <1>1, <1>9, <2>1 DEF ReadCall, ReadPointLoad, Take, Done, Refused
 <2> QED BY <1>0, <1>1, <2>2, <2>3 DEF SameGraph, ModelFields
<1>10. ASSUME NEW t PROVE SameGraph(m, ReadLineLoad(m, h, t).model)
 <2>1. PICK k : k = ReadLineLoad(m, h, t).model
   OBVIOUS
 <2>2. k = m \/ \E v, w : k = [m EXCEPT !.cases = v, !.lines = w]
   BY <2>1 DEF ReadLineLoad, Take, Done, Refused
 <2> QED BY <1>0, <2>1, <2>2 DEF SameGraph, ModelFields
<1>11. CASE s.op = "line load"
  BY <1>1, <1>10, <1>11 DEF ReadCall
<1>12. CASE s.op = "self weight"
 <2>1. n = m \/ \E t : n = ReadLineLoad(m, h, t).model
   BY <1>1, <1>12 DEF ReadCall, ReadSelfWeight, Take, Refused
 <2> QED BY <1>0, <1>1, <1>10, <2>1
<1>13. CASE s.op = "stability"
  BY <1>0, <1>1, <1>13 DEF ReadCall, ReadStability, Take, Done, Refused, SameGraph, ModelFields
<1>14. CASE s.op = "cross section"
  BY <1>0, <1>1, <1>14 DEF ReadCall, ReadCrossSection, Take, Done, Refused, SameGraph, ModelFields
<1>15. CASE s.op = "member stability"
  BY <1>0, <1>1, <1>15 DEF ReadCall, ReadMemberStability, Take, Done, Refused, SameGraph, ModelFields
<1>16. CASE s.op = "combination"
  BY <1>0, <1>1, <1>16 DEF ReadCall, ReadCombination, Take, Done, Refused, SameGraph, ModelFields
<1>17. CASE s.op = "assembly"
  BY <1>0, <1>1, <1>17 DEF ReadCall, ReadAssembly, Take, Done, Refused, SameGraph, ModelFields
<1>18. CASE s.op = "manifest"
  BY <1>0, <1>1, <1>18 DEF ReadCall, ReadManifest, Take, Done, Refused
<1> QED BY <1>3, <1>4, <1>5, <1>6, <1>7, <1>8, <1>9, <1>11, <1>12, <1>13, <1>14, <1>15, <1>16, <1>17, <1>18 DEF IsRead

LEMMA ReadLists ==
    ASSUME NEW m, GraphLists(m), NEW h, NEW s, IsRead(s)
    PROVE  GraphLists(ReadCall(m, h, s).model)
<1>1. PICK n : n = ReadCall(m, h, s).model
  OBVIOUS
<1>2. DOMAIN m = ModelFields /\ SameGraph(m, m)
  BY DEF GraphLists, SameGraph
<1>3. CASE s.op = "part"
 <2>1. \E e : n = [m EXCEPT !.parts = Append(@, e)]
   BY <1>1, <1>3 DEF ReadCall, ReadPart, Done
 <2>2. PICK f : f = "parts"
   OBVIOUS
 <2>3. MoreGraph(m, n, f)
   BY <1>2, <2>1, <2>2 DEF MoreGraph, ModelFields
 <2> QED BY <1>1, <2>2, <2>3, GraphGrows
<1>4. ASSUME NEW t PROVE GraphLists(ReadSurfaceLoad(m, h, t).model)
 <2>1. PICK j, k : j = ReadSurfaceLoad(m, h, t).model /\ k = WithCase(m, t)
   OBVIOUS
 <2>2. SameGraph(m, k)
   BY <1>2, <2>1, CaseKeepsGraph
 <2>3. j = m \/ \E e : j = [k EXCEPT !.loads = Append(@, e)]
   BY <2>1 DEF ReadSurfaceLoad, Take, Done, Refused
 <2>4. PICK f : f = "loads"
   OBVIOUS
 <2>5. MoreGraph(m, j, f)
   BY <1>2, <2>2, <2>3, <2>4 DEF MoreGraph, SameGraph, ModelFields
 <2> QED BY <2>1, <2>4, <2>5, GraphGrows
<1>5. CASE s.op = "surface load"
  BY <1>1, <1>4, <1>5 DEF ReadCall
<1>6. CASE s.op = "wind load"
 <2>1. n = m \/ \E t : n = ReadSurfaceLoad(m, h, t).model
   BY <1>1, <1>6 DEF ReadCall, ReadWindLoad, Take, Refused
 <2> QED BY <1>1, <1>4, <2>1
<1>7. CASE s.op = "connect"
 <2>1. n = m \/ \E e : n = [m EXCEPT !.connections = Append(@, e)]
   BY <1>1, <1>7 DEF ReadCall, ReadConnect, Take, Done, Refused
 <2>2. PICK f : f = "connections"
   OBVIOUS
 <2>3. MoreGraph(m, n, f)
   BY <1>2, <2>1, <2>2 DEF MoreGraph, ModelFields
 <2> QED BY <1>1, <2>2, <2>3, GraphGrows
<1>8. CASE s.op \notin {"part", "surface load", "wind load", "connect"}
 <2>1. SameGraph(m, n)
   BY <1>1, <1>2, <1>8, ReadKeepsGraph
 <2> QED BY <1>1, <2>1 DEF SameGraph, GraphLists
<1> QED BY <1>3, <1>5, <1>6, <1>7, <1>8

\* What is declared has the parts, connections and loads of the model.
LEMMA DeclaredGraph ==
    ASSUME NEW m, DOMAIN m = ModelFields
    PROVE  SameGraph(m, Declared(m))
<1>1. PICK combos : Declared(m) = [m EXCEPT !.candidates = <<>>, !.geometry = {}, !.materialIds = {},
                                            !.sectionIds = {}, !.combos = combos]
  BY DEF Declared, ModelFields
<1> QED BY <1>1 DEF SameGraph, ModelFields

LEMMA SameDownstream ==
    ASSUME NEW m, NEW d, SameGraph(m, d), NEW from
    PROVE  Downstream(d, from) = Downstream(m, from)
<1>1. PICK x : x = m.connections /\ x = d.connections
  BY DEF SameGraph
<1>2. PICK n : n = Len(x)
  OBVIOUS
<1>3. ASSUME NEW k, k.connections = x, NEW how, how = Reaches, NEW b PROVE
         Walked(k, how, b, n) = CHOOSE f : f = [i \in 0..n |-> IF i = 0 THEN b
                    ELSE f[i - 1] \cup {c.to : c \in {y \in ToSet(x) : y.from \in f[i - 1]}}]
  BY <1>3 DEF Walked, WalkTo, WalkStep, Reaches
<1>4. PICK how, b : how = Reaches /\ b = {from}
  OBVIOUS
<1>5. Walked(m, how, b, n) = Walked(d, how, b, n)
  BY <1>1, <1>3, <1>4
<1>6. Downstream(m, from) = Walked(m, how, b, n)[n]
  BY <1>1, <1>2, <1>4, DownstreamWalked
<1>7. Downstream(d, from) = Walked(d, how, b, n)[n]
  BY <1>1, <1>2, <1>4, DownstreamWalked
<1> QED BY <1>5, <1>6, <1>7

LEMMA SameGround ==
    ASSUME NEW m, NEW d, SameGraph(m, d)
    PROVE  /\ \A x : Grounded(d, x) <=> Grounded(m, x)
           /\ \A load : ReachesGround(d, load) <=> ReachesGround(m, load)
           /\ \A load, path : IsChain(d, load, path) <=> IsChain(m, load, path)
<1>1. d.parts = m.parts /\ d.connections = m.connections
  BY DEF SameGraph
<1>2. \A x : Grounded(d, x) <=> Grounded(m, x)
  BY <1>1 DEF Grounded, Named
<1>3. ASSUME NEW load PROVE ReachesGround(d, load) <=> ReachesGround(m, load)
 <2>1. PICK from : from = load.component
   OBVIOUS
 <2>2. Downstream(d, from) = Downstream(m, from)
   BY SameDownstream
 <2> QED BY <1>2, <2>1, <2>2 DEF ReachesGround
<1>4. ASSUME NEW load, NEW path PROVE IsChain(d, load, path) <=> IsChain(m, load, path)
  BY <1>1, <1>2 DEF IsChain
<1> QED BY <1>2, <1>3, <1>4

\* The paths that are captured of a declaration which is accepted.
LEMMA PathsOfAccepted ==
    ASSUME NEW m, GraphLists(m), NEW c, c = CaptureOf(Declared(m)), c.accepted, NEW i \in DOMAIN m.loads
    PROVE  IF c.paths[i] = <<>> THEN ~ReachesGround(m, m.loads[i])
           ELSE IsChain(m, m.loads[i], c.paths[i])
<1>1. PICK d : d = Declared(m)
  OBVIOUS
<1>2. SameGraph(m, d)
  BY <1>1, DeclaredGraph DEF GraphLists
<1>3. IsAccepted(d) /\ c.paths = [j \in DOMAIN d.loads |-> LoadPath(d, d.loads[j])]
  BY <1>1 DEF CaptureOf
<1>4. PICK load : load = m.loads[i]
  OBVIOUS
<1>5. c.paths[i] = LoadPath(d, load)
  BY <1>2, <1>3, <1>4 DEF SameGraph
<1>6. GraphIsSound(d) /\ load \in ToSet(d.loads)
  BY <1>2, <1>3, <1>4 DEF IsAccepted, SameGraph, ToSet
<1>7. load.component \in IdsOf(d.parts) /\ \A x \in ToSet(d.connections) : x.to \in IdsOf(d.parts)
  BY <1>6 DEF GraphIsSound, IdsOf
<1>8. IsList(d.connections) /\ IsList(d.parts)
  BY <1>2 DEF SameGraph, GraphLists
<1>9. PICK path : path = LoadPath(d, load)
  OBVIOUS
<1>10. path # <<>> => IsChain(d, load, path)
  BY <1>7, <1>8, <1>9, PathIsChain
<1>11. path = <<>> => ~ReachesGround(d, load)
  BY <1>8, <1>9, LoadHasPath
<1>12. /\ IsChain(d, load, path) <=> IsChain(m, load, path)
       /\ ReachesGround(d, load) <=> ReachesGround(m, load)
  BY <1>2, SameGround
<1> QED BY <1>4, <1>5, <1>9, <1>10, <1>11, <1>12

PathsInv ==
    /\ design_ \in Scripted /\ line \in Nat \ {0}
    /\ captured # <<>> => line > Len(Statements(design_))
    /\ DOMAIN reading = {"status", "model", "handles", "passed"}
    /\ GraphLists(reading.model) /\ LoadPathsReachGround

LEMMA PathsStart ==
    ASSUME AuthoringInit
    PROVE  PathsInv
<1>1. PICK m, e : m = NewModel /\ e = <<>>
  OBVIOUS
<1>2. /\ reading = [status |-> "reading", model |-> m, handles |-> e, passed |-> FALSE]
      /\ captured = e
  BY <1>1 DEF AuthoringInit
<1>3. DOMAIN m = ModelFields /\ m.parts = e /\ m.connections = e /\ m.loads = e
  BY <1>1 DEF NewModel, ModelFields
<1>4. GraphLists(m)
  BY <1>1, <1>3, EmptyList DEF GraphLists
<1>5. LoadPathsReachGround
  BY <1>1, <1>2, EmptyList DEF LoadPathsReachGround
<1> QED BY <1>1, <1>2, <1>4, <1>5 DEF PathsInv, AuthoringInit

LEMMA PathsCaptured ==
    ASSUME PathsInv, CaptureBoth
    PROVE  LoadPathsReachGround'
<1>1. reading' = reading
  BY DEF CaptureBoth
<1>2. PICK m : m = reading.model
  OBVIOUS
<1>3. GraphLists(m)
  BY <1>2 DEF PathsInv
<1>4. PICK made, read :
          /\ captured' = <<[manifest |-> made, declaration |-> read]>>
          /\ read = IF reading.status = "declared" THEN <<CaptureOf(Declared(m))>> ELSE <<>>
  BY <1>2 DEF CaptureBoth
<1>5. PICK both : both = [manifest |-> made, declaration |-> read]
  OBVIOUS
<1>6. ToSet(captured') = {both} /\ both.declaration = read
  BY <1>4, <1>5, OnlyOne
<1>7. ASSUME NEW c \in ToSet(read), c.accepted, NEW i \in DOMAIN m.loads
      PROVE  IF c.paths[i] = <<>> THEN ~ReachesGround(m, m.loads[i])
             ELSE IsChain(m, m.loads[i], c.paths[i])
 <2>1. read = <<CaptureOf(Declared(m))>>
   BY <1>4, <1>7, EmptyList
 <2>2. c = CaptureOf(Declared(m))
   BY <1>7, <2>1, OnlyOne
 <2> QED BY <1>3, <1>7, <2>2, PathsOfAccepted
<1> QED BY <1>1, <1>2, <1>6, <1>7 DEF LoadPathsReachGround

LEMMA PathsStep ==
    ASSUME PathsInv, [AuthoringNext]_authoringVars
    PROVE  PathsInv'
<1>1. ASSUME UNCHANGED <<reading, captured, design_>>, line' \in Nat \ {0}, line' >= line
      PROVE  PathsInv'
 <2>1. LoadPathsReachGround'
   BY <1>1 DEF PathsInv, LoadPathsReachGround
 <2>2. Len(Statements(design_)) \in Nat
   BY StatementsAssumption DEF PathsInv
 <2>3. captured' # <<>> => line' > Len(Statements(design_'))
   BY <1>1, <2>2 DEF PathsInv
 <2> QED BY <1>1, <2>1, <2>3 DEF PathsInv
<1>2. CASE WriteNext
 <2>1. /\ line <= Len(Statements(design_)) /\ line \in Nat \ {0} /\ design_ \in Scripted
       /\ Len(Statements(design_)) \in Nat
   BY <1>2, StatementsAssumption DEF WriteNext, PathsInv
 <2>0. PICK written : written = Statements(design_)[line]
   OBVIOUS
 <2>2. PICK s \in Chosen(written), again \in BOOLEAN :
           TakeStatement(s) /\ line' = IF again THEN line ELSE line + 1
   BY <1>2, <2>0 DEF WriteNext
 <2>3. captured = <<>> /\ captured' = captured
   BY <2>1, <2>2 DEF PathsInv, TakeStatement
 <2>4. PICK m, h : m = reading.model /\ h = reading.handles
   OBVIOUS
 <2>5. PICK read : read = ReadCall(m, h, s)
   OBVIOUS
 <2>6. reading' = AfterReading(s, read)
   BY <2>2, <2>4, <2>5 DEF TakeStatement
 <2>7. DOMAIN reading' = {"status", "model", "handles", "passed"}
   BY <2>6 DEF AfterReading, PathsInv
 <2>8. reading'.model = m \/ (IsRead(s) /\ reading'.model = read.model)
  <3>1. CASE reading.status \notin {"refused", "foreign", "declared"} /\ IsRead(s)
             /\ ~IsForeign(s) /\ read.ok
   <4>1. PICK t, g : reading' = [reading EXCEPT !.model = read.model, !.status = t, !.handles = g]
     BY <2>6, <3>1 DEF AfterReading
   <4> QED BY <3>1, <4>1 DEF PathsInv
  <3>2. CASE ~(reading.status \notin {"refused", "foreign", "declared"} /\ IsRead(s)
               /\ ~IsForeign(s) /\ read.ok)
    BY <2>4, <2>6, <3>2 DEF AfterReading, PathsInv
  <3> QED BY <3>1, <3>2
 <2>9. GraphLists(m)
   BY <2>4 DEF PathsInv
 <2>10. GraphLists(reading'.model)
   BY <2>5, <2>8, <2>9, ReadLists
 <2>11. LoadPathsReachGround'
   BY <2>3, EmptyList DEF LoadPathsReachGround
 <2>12. line' \in Nat \ {0} /\ design_' = design_
   BY <1>2, <2>1, <2>2 DEF WriteNext
 <2> QED BY <2>1, <2>3, <2>7, <2>10, <2>11, <2>12 DEF PathsInv
<1>3. CASE LeaveOut
  BY <1>1, <1>3 DEF LeaveOut, PathsInv
<1>4. CASE CaptureBoth
 <2>1. LoadPathsReachGround'
   BY <1>4, PathsCaptured
 <2> QED BY <1>4, <2>1 DEF CaptureBoth, PathsInv
<1>5. CASE UNCHANGED authoringVars
  BY <1>1, <1>5 DEF authoringVars, PathsInv
<1> QED BY <1>2, <1>3, <1>4, <1>5 DEF AuthoringNext

----
(* Segments between restraints: the restraints along a member.              *)

LEMMA SortFolded ==
    ASSUME NEW m, NEW axis, NEW n, DOMAIN m.candidates = 1..n
    PROVE  Along(m, axis) = Folded(axis, Sorts, <<>>, m.candidates, n)
  BY DEF Along, FoldLeft, MapThenFoldSet, Folded, FoldTo, FoldStep, Sorts

Placed(x) == IsList(x) /\ \A i \in DOMAIN x : x[i].at \in Int
InOrder(x) == \A i, j \in DOMAIN x : i < j => x[i].at <= x[j].at

\* One more, before those that come after it.
LEMMA PutBetween ==
    ASSUME NEW x, Placed(x), InOrder(x), NEW e, e.at \in Int, NEW k \in 1..Len(x),
           \A i \in 1..(k - 1) : x[i].at <= e.at, e.at < x[k].at,
           NEW y, y = InsertAt(x, k, e)
    PROVE  Placed(y) /\ InOrder(y) /\ ToSet(y) = ToSet(x) \cup {e}
<1>1. PICK n \in Nat : n = Len(x) /\ DOMAIN x = 1..n
  BY LengthOfList DEF Placed
<1>2. PICK S : S = ToSet(x) \cup {e}
  OBVIOUS
<1>3. x \in Seq(S) /\ e \in S
 <2>1. PICK R : R = ToSet(x)
   OBVIOUS
 <2>2. x \in Seq(R) /\ R \subseteq S
   BY <1>2, <2>1 DEF Placed, IsList
 <2> QED BY <1>2, <2>2
<1>4. PICK a, b : a = SubSeq(x, 1, k - 1) /\ b = SubSeq(x, k, n)
  OBVIOUS
<1>5. k \in 1..n
  BY <1>1
<1>6. a \in Seq(S) /\ Len(a) = k - 1 /\ \A i \in 1..(k - 1) : a[i] = x[i]
  BY <1>1, <1>3, <1>4, <1>5
<1>7. b \in Seq(S) /\ Len(b) = n - k + 1 /\ \A i \in 1..(n - k + 1) : b[i] = x[k + i - 1]
  BY <1>1, <1>3, <1>4, <1>5
<1>8. PICK c : c = <<e>>
  OBVIOUS
<1>9. c \in Seq(S) /\ Len(c) = 1 /\ c[1] = e
  BY <1>3, <1>8
<1>10. y = (a \o c) \o b
  BY <1>1, <1>4, <1>8 DEF InsertAt
<1>11. PICK d : d = a \o c
  OBVIOUS
<1>12. d \in Seq(S) /\ Len(d) = k /\ d[k] = e /\ \A i \in 1..(k - 1) : d[i] = x[i]
 <2>1. IsList(a) /\ IsList(c)
   BY <1>6, <1>9, ListFacts
 <2>2. Len(a) + 1 = k
   BY <1>5, <1>6
 <2>3. Len(d) = Len(a) + Len(c) /\ (\A i \in 1..Len(a) : d[i] = a[i])
       /\ \A i \in 1..Len(c) : d[Len(a) + i] = c[i]
   BY <1>11, <2>1, JoinedLists
 <2>4. Len(d) = k /\ d[k] = e /\ \A i \in 1..(k - 1) : d[i] = x[i]
   BY <1>5, <1>6, <1>9, <2>2, <2>3
 <2>5. d \in Seq(S)
   BY <1>6, <1>9, <1>11
 <2> QED BY <2>4, <2>5
<1>13. /\ y \in Seq(S) /\ Len(y) = n + 1
       /\ \A i \in 1..k : y[i] = d[i]
       /\ \A i \in 1..(n - k + 1) : y[k + i] = b[i]
 <2>1. IsList(d) /\ IsList(b) /\ y = d \o b
   BY <1>7, <1>10, <1>11, <1>12, ListFacts
 <2>2. Len(y) = Len(d) + Len(b) /\ (\A i \in 1..Len(d) : y[i] = d[i])
       /\ \A i \in 1..Len(b) : y[Len(d) + i] = b[i]
   BY <2>1, JoinedLists
 <2>3. Len(y) = n + 1 /\ (\A i \in 1..k : y[i] = d[i])
       /\ \A i \in 1..(n - k + 1) : y[k + i] = b[i]
   BY <1>1, <1>5, <1>7, <1>12, <2>2
 <2>4. y \in Seq(S)
   BY <1>7, <1>12, <2>1
 <2> QED BY <2>3, <2>4
<1>14. IsList(y) /\ DOMAIN y = 1..(n + 1)
  BY <1>13, ListFacts
<1>15. \A i \in 1..(k - 1) : y[i] = x[i]
  BY <1>5, <1>12, <1>13
<1>16. y[k] = e
  BY <1>5, <1>12, <1>13
<1>17. ASSUME NEW i \in (k + 1)..(n + 1) PROVE i - 1 \in k..n /\ y[i] = x[i - 1]
 <2>1. PICK j : j = i - k
   OBVIOUS
 <2>2. j \in 1..(n - k + 1) /\ k + j = i /\ k + j - 1 = i - 1
   BY <1>5, <2>1
 <2>3. y[k + j] = b[j] /\ b[j] = x[k + j - 1]
   BY <1>7, <1>13, <2>2
 <2>4. i - 1 \in k..n
   BY <1>5
 <2> QED BY <2>2, <2>3, <2>4
<1>18. ToSet(y) = S
 <2>1. ASSUME NEW z \in ToSet(x) PROVE z \in ToSet(y)
  <3>1. PICK i \in 1..n : z = x[i]
    BY <1>1 DEF ToSet
  <3>2. CASE i < k
   <4>1. i \in 1..(k - 1) /\ i \in 1..(n + 1)
     BY <1>5, <3>2
   <4> QED BY <1>14, <1>15, <3>1, <4>1 DEF ToSet
  <3>3. CASE i >= k
   <4>1. PICK j : j = i + 1
     OBVIOUS
   <4>2. j \in (k + 1)..(n + 1) /\ j - 1 = i /\ j \in 1..(n + 1)
     BY <1>5, <3>3, <4>1
   <4>3. y[j] = z
     BY <1>17, <3>1, <4>2
   <4> QED BY <1>14, <4>2, <4>3 DEF ToSet
  <3> QED BY <1>5, <3>2, <3>3
 <2>2. k \in 1..(n + 1)
   BY <1>5
 <2>3. e \in ToSet(y)
   BY <1>14, <1>16, <2>2 DEF ToSet
 <2>4. ToSet(y) \subseteq S
   BY <1>13, ListFacts
 <2> QED BY <1>2, <2>1, <2>3, <2>4
<1>19. \A i \in 1..(k - 1) : i \in DOMAIN x /\ x[i].at \in Int
  BY <1>1, <1>5 DEF Placed
<1>20. \A i \in k..n : i \in DOMAIN x /\ x[i].at \in Int /\ e.at < x[i].at
 <2>1. ASSUME NEW i \in k..n PROVE i \in DOMAIN x /\ x[i].at \in Int /\ e.at < x[i].at
  <3>1. i \in DOMAIN x /\ k \in DOMAIN x
    BY <1>1, <1>5
  <3>2. x[i].at \in Int /\ x[k].at \in Int
    BY <3>1 DEF Placed
  <3>3. i = k \/ k < i
    BY <1>5
  <3>4. x[k].at <= x[i].at
    BY <3>1, <3>2, <3>3 DEF InOrder
  <3> QED BY <3>1, <3>2, <3>4
 <2> QED BY <2>1
<1>21. ASSUME NEW i \in DOMAIN y, NEW j \in DOMAIN y, i < j PROVE y[i].at <= y[j].at
 <2>1. CASE i < k /\ j < k
  <3>1. i \in 1..(k - 1) /\ j \in 1..(k - 1)
    BY <1>5, <1>14, <2>1
  <3> QED BY <1>15, <1>19, <1>21, <3>1 DEF InOrder
 <2>2. CASE i < k /\ j = k
  <3>1. i \in 1..(k - 1)
    BY <1>5, <1>14, <2>2
  <3> QED BY <1>15, <1>16, <2>2, <3>1
 <2>3. CASE i < k /\ j > k
  <3>1. i \in 1..(k - 1) /\ j \in (k + 1)..(n + 1)
    BY <1>5, <1>14, <2>3
  <3>2. j - 1 \in k..n /\ y[j] = x[j - 1]
    BY <1>17, <3>1
  <3>3. x[i].at <= e.at /\ e.at < x[j - 1].at /\ x[i].at \in Int /\ x[j - 1].at \in Int
    BY <1>19, <1>20, <3>1, <3>2
  <3> QED BY <1>15, <3>1, <3>2, <3>3
 <2>4. CASE i = k
  <3>1. j \in (k + 1)..(n + 1)
    BY <1>5, <1>14, <1>21, <2>4
  <3>2. j - 1 \in k..n /\ y[j] = x[j - 1]
    BY <1>17, <3>1
  <3>3. e.at < x[j - 1].at /\ x[j - 1].at \in Int
    BY <1>20, <3>2
  <3> QED BY <1>16, <2>4, <3>2, <3>3
 <2>5. CASE i > k
  <3>1. i \in (k + 1)..(n + 1) /\ j \in (k + 1)..(n + 1)
    BY <1>5, <1>14, <1>21, <2>5
  <3>2. i - 1 \in k..n /\ y[i] = x[i - 1] /\ j - 1 \in k..n /\ y[j] = x[j - 1]
    BY <1>17, <3>1
  <3>3. PICK o, p : o = i - 1 /\ p = j - 1
    OBVIOUS
  <3>4. o < p /\ o \in DOMAIN x /\ p \in DOMAIN x
    BY <1>1, <1>5, <1>21, <3>1, <3>2, <3>3
  <3>5. x[o].at <= x[p].at
    BY <3>4 DEF InOrder
  <3> QED BY <3>2, <3>3, <3>5
 <2>6. i \in Int /\ j \in Int
   BY <1>14
 <2> QED BY <1>5, <2>1, <2>2, <2>3, <2>4, <2>5, <2>6
<1>22. ASSUME NEW i \in DOMAIN y PROVE y[i].at \in Int
 <2>1. y[i] \in ToSet(x) \cup {e}
   BY <1>2, <1>18 DEF ToSet
 <2>2. \A z \in ToSet(x) : z.at \in Int
   BY DEF Placed, ToSet
 <2> QED BY <2>1, <2>2
<1> QED BY <1>2, <1>14, <1>18, <1>21, <1>22 DEF Placed, InOrder

LEMMA PutLast ==
    ASSUME NEW x, Placed(x), InOrder(x), NEW e, e.at \in Int, \A i \in DOMAIN x : x[i].at <= e.at,
           NEW y, y = Append(x, e)
    PROVE  Placed(y) /\ InOrder(y) /\ ToSet(y) = ToSet(x) \cup {e}
<1>1. PICK n \in Nat : n = Len(x) /\ DOMAIN x = 1..n
  BY LengthOfList DEF Placed
<1>2. /\ IsList(y) /\ ToSet(y) = ToSet(x) \cup {e} /\ y[n + 1] = e
      /\ \A i \in 1..n : y[i] = x[i]
      /\ DOMAIN y = DOMAIN x \cup {n + 1}
  BY <1>1, AddedToList DEF Placed
<1>3. DOMAIN y = 1..(n + 1) /\ n + 1 \notin 1..n
  BY <1>1, <1>2
<1>4. ASSUME NEW i \in DOMAIN y PROVE y[i].at \in Int
 <2>1. i \in 1..n \/ i = n + 1
   BY <1>3
 <2> QED BY <1>1, <1>2, <2>1 DEF Placed
<1>5. ASSUME NEW i \in DOMAIN y, NEW j \in DOMAIN y, i < j PROVE y[i].at <= y[j].at
 <2>1. i \in 1..n /\ (j \in 1..n \/ j = n + 1)
   BY <1>3, <1>5
 <2>2. CASE j \in 1..n
   BY <1>1, <1>2, <1>5, <2>1, <2>2 DEF InOrder
 <2>3. CASE j = n + 1
   BY <1>1, <1>2, <2>1, <2>3
 <2> QED BY <2>1, <2>2, <2>3
<1> QED BY <1>2, <1>4, <1>5 DEF Placed, InOrder

\* The first place behind an element.
LEMMA NextIs ==
    ASSUME NEW x, Placed(x), NEW at, at \in Int, NEW I, I = {i \in 1..Len(x) : at < x[i].at}, NEW k,
           k = IF I # {} THEN Min(I) ELSE 0
    PROVE  \/ k = 0 /\ \A i \in DOMAIN x : x[i].at <= at
           \/ k \in 1..Len(x) /\ at < x[k].at /\ \A i \in 1..(k - 1) : x[i].at <= at
<1>1. PICK n \in Nat : n = Len(x) /\ DOMAIN x = 1..n
  BY LengthOfList DEF Placed
<1>2. I = {i \in 1..n : at < x[i].at}
  BY <1>1
<1>3. k = IF I # {} THEN Min(I) ELSE 0
  OBVIOUS
<1>4. \A i \in 1..n : x[i].at \in Int
  BY <1>1 DEF Placed
<1>5. CASE I = {}
 <2>1. \A i \in 1..n : ~(at < x[i].at)
   BY <1>2, <1>5
 <2>2. \A i \in 1..n : x[i].at <= at
   BY <1>4, <2>1
 <2>3. k = 0
   BY <1>3, <1>5
 <2> QED BY <1>1, <2>2, <2>3
<1>6. CASE I # {}
 <2>1. I \in SUBSET Nat
   BY <1>2
 <2>2. \E a \in I : \A b \in I : a <= b
   BY <1>6, <2>1, LeastNatural
 <2>3. PICK a \in I : \A b \in I : a <= b
   BY <2>2
 <2>4. k = Min(I)
   BY <1>3, <1>6
 <2>5. k \in I /\ \A b \in I : k <= b
   BY <2>3, <2>4 DEF Min
 <2>6. k \in 1..n /\ at < x[k].at
   BY <1>2, <2>5
 <2>7. ASSUME NEW i \in 1..(k - 1) PROVE x[i].at <= at
  <3>1. i \in 1..n /\ ~(k <= i)
    BY <1>1, <2>6
  <3>2. i \notin I
    BY <2>5, <3>1
  <3> QED BY <1>2, <1>4, <3>1, <3>2
 <2> QED BY <1>1, <2>6, <2>7
<1> QED BY <1>5, <1>6

\* The first k restraints, sorted.
SortedTo(axis, candidates, k, x) ==
    /\ Placed(x) /\ InOrder(x)
    /\ ToSet(x) = {c \in {candidates[i] : i \in 1..k} : c.member = axis.id}

LEMMA SortOne ==
    ASSUME NEW axis, NEW candidates, NEW k \in Nat, NEW x, SortedTo(axis, candidates, k, x),
           NEW e, e = candidates[k + 1], e.at \in Int, NEW how, how.kind = "sort"
    PROVE  SortedTo(axis, candidates, k + 1, FoldStep(axis, how, x, e))
<1>1. PICK n : n = k + 1
  OBVIOUS
<1>2. PICK next : next = SelectInSeq(x, LAMBDA d : e.at < d.at)
  OBVIOUS
<1>3. PICK y : y = FoldStep(axis, how, x, e)
  OBVIOUS
<1>4. y = IF e.member # axis.id THEN x ELSE IF next = 0 THEN Append(x, e) ELSE InsertAt(x, next, e)
  BY <1>2, <1>3 DEF FoldStep
<1>5. {candidates[i] : i \in 1..n} = {candidates[i] : i \in 1..k} \cup {e}
 <2>1. \A i \in 1..n : i \in 1..k \/ i = n
   BY <1>1
 <2>2. \A i \in 1..k : i \in 1..n
   BY <1>1
 <2>3. n \in 1..n
   BY <1>1
 <2> QED BY <1>1, <2>1, <2>2, <2>3
<1>6. CASE e.member # axis.id
  BY <1>1, <1>3, <1>4, <1>5, <1>6 DEF SortedTo
<1>7. CASE e.member = axis.id
 <2>1. PICK at : at = e.at
   OBVIOUS
 <2>2. PICK I : I = {i \in 1..Len(x) : at < x[i].at}
   OBVIOUS
 <2>5. next = IF I # {} THEN Min(I) ELSE 0
   BY <1>2, <2>1, <2>2 DEF SelectInSeq
 <2>3. \/ next = 0 /\ \A i \in DOMAIN x : x[i].at <= at
       \/ next \in 1..Len(x) /\ at < x[next].at /\ \A i \in 1..(next - 1) : x[i].at <= at
   BY <2>1, <2>2, <2>5, NextIs DEF SortedTo
 <2>4. Placed(y) /\ InOrder(y) /\ ToSet(y) = ToSet(x) \cup {e}
  <3>1. CASE next = 0 /\ \A i \in DOMAIN x : x[i].at <= at
    BY <1>4, <1>7, <2>1, <3>1, PutLast DEF SortedTo
  <3>2. CASE next \in 1..Len(x) /\ at < x[next].at /\ \A i \in 1..(next - 1) : x[i].at <= at
   <4>1. next # 0
    <5>1. Len(x) \in Nat
      BY LengthOfList DEF SortedTo, Placed
    <5> QED BY <3>2, <5>1
   <4>2. y = InsertAt(x, next, e)
     BY <1>4, <1>7, <4>1
   <4>3. \A i \in 1..(next - 1) : x[i].at <= e.at
     BY <2>1, <3>2
   <4> QED BY <2>1, <3>2, <4>2, <4>3, PutBetween DEF SortedTo
  <3> QED BY <2>3, <3>1, <3>2
 <2> QED BY <1>1, <1>3, <1>5, <1>7, <2>4 DEF SortedTo
<1> QED BY <1>6, <1>7

LEMMA AlongIs ==
    ASSUME NEW m, IsList(m.candidates), \A c \in ToSet(m.candidates) : c.at \in Int, NEW axis,
           NEW x, x = Along(m, axis)
    PROVE  /\ Placed(x) /\ InOrder(x)
           /\ ToSet(x) = {c \in ToSet(m.candidates) : c.member = axis.id}
<1>1. PICK candidates : candidates = m.candidates
  OBVIOUS
<1>2. PICK n \in Nat : n = Len(candidates) /\ DOMAIN candidates = 1..n
  BY <1>1, LengthOfList
<1>3. PICK how, b : how = Sorts /\ b = <<>>
  OBVIOUS
<1>4. how.kind = "sort"
  BY <1>3 DEF Sorts
<1>5. PICK f : Folds(f, axis, how, b, candidates, n) /\ Folded(axis, how, b, candidates, n) = f[n]
  BY FoldSteps
<1> DEFINE T == {k \in Nat : k <= n => SortedTo(axis, candidates, k, f[k])}
<1>6. 0 \in T
 <2>1. f[0] = b /\ IsList(b) /\ ToSet(b) = {} /\ DOMAIN b = {}
   BY <1>3, <1>5, EmptyList DEF Folds
 <2>2. SortedTo(axis, candidates, 0, b)
   BY <2>1 DEF SortedTo, Placed, InOrder
 <2> QED BY <2>1, <2>2
<1>7. ASSUME NEW k \in Nat, k \in T PROVE k + 1 \in T
 <2>1. SUFFICES ASSUME k + 1 <= n PROVE SortedTo(axis, candidates, k + 1, f[k + 1])
   OBVIOUS
 <2>2. SortedTo(axis, candidates, k, f[k]) /\ k \in 0..(n - 1) /\ k + 1 \in 1..n
   BY <1>7, <2>1
 <2>3. f[k + 1] = FoldStep(axis, how, f[k], candidates[k + 1])
   BY <1>5, <2>2 DEF Folds
 <2>4. PICK y, e : y = f[k] /\ e = candidates[k + 1]
   OBVIOUS
 <2>5. e.at \in Int
   BY <1>1, <1>2, <2>2, <2>4 DEF ToSet
 <2>6. SortedTo(axis, candidates, k + 1, FoldStep(axis, how, y, e))
   BY <1>4, <2>2, <2>4, <2>5, SortOne
 <2> QED BY <2>3, <2>4, <2>6
<1> HIDE DEF T
<1>8. \A k \in Nat : k \in T
  BY <1>6, <1>7, AllNaturals
<1>9. SortedTo(axis, candidates, n, f[n])
  BY <1>8 DEF T
<1>10. x = f[n]
  BY <1>1, <1>2, <1>3, <1>5, SortFolded
<1>11. ToSet(candidates) = {candidates[i] : i \in 1..n}
  BY <1>2 DEF ToSet
<1> QED BY <1>1, <1>9, <1>10, <1>11 DEF SortedTo

----
(* Segments between restraints: the boundaries between them.                *)

\* Another element in a place of a list.
LEMMA InPlace ==
    ASSUME NEW x, IsList(x), NEW k \in DOMAIN x, NEW e, NEW y,
           DOMAIN y = DOMAIN x, y = [i \in DOMAIN x |-> y[i]], y[k] = e,
           \A i \in DOMAIN x : i # k => y[i] = x[i]
    PROVE  /\ IsList(y) /\ DOMAIN y = DOMAIN x /\ Len(y) = Len(x) /\ y[k] = e
           /\ \A i \in DOMAIN x : i # k => y[i] = x[i]
<1>1. PICK n \in Nat : n = Len(x) /\ DOMAIN x = 1..n
  BY LengthOfList
<1>2. DOMAIN y = 1..n /\ y = [i \in 1..n |-> y[i]]
  BY <1>1
<1>3. IsList(y) /\ Len(y) = n
  BY <1>2, ListOver
<1> QED BY <1>1, <1>2, <1>3

\* Boundaries as they are met: the first k restraints each in one of them.
Boundary(axis, g) == DOMAIN g = {"at", "ids"} /\ g.at \in 0..axis.length
Rising(met) == \A i, j \in DOMAIN met : i < j => met[i].at < met[j].at

GroupedTo(axis, along, n, k, met) ==
    /\ IsList(met) /\ Len(met) > 0 /\ met[1].at = 0 /\ Rising(met)
    /\ \A i \in DOMAIN met : Boundary(axis, met[i])
    /\ \A j \in 1..k : \E i \in DOMAIN met :
          along[j].id \in met[i].ids /\ along[j].at - met[i].at \in 0..Close
    /\ \A j \in (k + 1)..n : met[Len(met)].at <= along[j].at

LEMMA GroupOne ==
    ASSUME NEW axis, axis.length \in Int, NEW along, Placed(along), InOrder(along),
           NEW n \in Nat, DOMAIN along = 1..n, \A i \in 1..n : along[i].at \in 0..axis.length,
           NEW k \in 0..(n - 1), NEW met, GroupedTo(axis, along, n, k, met),
           NEW e, e = along[k + 1], NEW how, how.kind = "group"
    PROVE  GroupedTo(axis, along, n, k + 1, FoldStep(axis, how, met, e))
<1>1. PICK p : p = k + 1
  OBVIOUS
<1>2. p \in 1..n /\ e = along[p] /\ e.at \in 0..axis.length
  BY <1>1
<1>3. PICK l : l = Len(met)
  OBVIOUS
<1>4. l \in Nat /\ l > 0 /\ DOMAIN met = 1..l /\ l \in DOMAIN met /\ 1 \in DOMAIN met
  BY <1>3, LengthOfList DEF GroupedTo
<1>5. OnAxis(axis, e.at) = e.at
  BY <1>2 DEF OnAxis
<1>6. PICK y, last : y = FoldStep(axis, how, met, e) /\ last = met[l]
  OBVIOUS
<1>7. Last(met) = last
  BY <1>3, <1>6 DEF Last
<1>8. y = IF e.at - last.at <= Close THEN [met EXCEPT ![l].ids = @ \cup {e.id}]
          ELSE Append(met, [at |-> e.at, ids |-> {e.id}])
  BY <1>3, <1>5, <1>6, <1>7 DEF FoldStep
<1>9. Boundary(axis, last) /\ last.at \in Int /\ last.at <= e.at
 <2>1. p \in (k + 1)..n
   BY <1>1, <1>2
 <2> QED BY <1>2, <1>3, <1>4, <1>6, <2>1 DEF GroupedTo, Boundary
<1>10. \A j \in 1..p : j \in 1..k \/ j = p
  BY <1>1
<1>11. \A j \in (p + 1)..n : j \in (k + 1)..n /\ p < j /\ j \in DOMAIN along /\ p \in DOMAIN along
  BY <1>1, <1>2
<1>12. CASE e.at - last.at <= Close
 <2>1. PICK ids : ids = last.ids \cup {e.id}
   OBVIOUS
 <2>2. PICK g : g = [last EXCEPT !.ids = ids]
   OBVIOUS
 <2>3. DOMAIN g = {"at", "ids"} /\ g.at = last.at /\ g.ids = ids
   BY <1>9, <2>2 DEF Boundary
 <2>4. y = [met EXCEPT ![l] = g]
   BY <1>6, <1>8, <1>12, <2>1, <2>2
 <2>5. /\ IsList(y) /\ DOMAIN y = DOMAIN met /\ Len(y) = l /\ y[l] = g
       /\ \A i \in DOMAIN met : i # l => y[i] = met[i]
  <3>1. IsList(met)
    BY DEF GroupedTo
  <3>2. l \in DOMAIN met
    BY <1>4
  <3>3. /\ IsList(y) /\ DOMAIN y = DOMAIN met /\ Len(y) = Len(met) /\ y[l] = g
        /\ \A i \in DOMAIN met : i # l => y[i] = met[i]
   <4>1. /\ DOMAIN y = DOMAIN met /\ y = [i \in DOMAIN met |-> y[i]] /\ y[l] = g
         /\ \A i \in DOMAIN met : i # l => y[i] = met[i]
     BY <2>4, <3>2
   <4> QED BY <3>1, <3>2, <4>1, InPlace
  <3> QED BY <1>3, <3>3
 <2>6. \A i \in DOMAIN met : y[i].at = met[i].at /\ met[i].ids \subseteq y[i].ids
   BY <1>6, <2>1, <2>3, <2>5
 <2>7. Rising(y)
   BY <2>5, <2>6 DEF GroupedTo, Rising
 <2>8. ASSUME NEW i \in DOMAIN y PROVE Boundary(axis, y[i])
   BY <1>9, <2>3, <2>5 DEF GroupedTo, Boundary
 <2>9. ASSUME NEW j \in 1..p
       PROVE  \E i \in DOMAIN y : along[j].id \in y[i].ids /\ along[j].at - y[i].at \in 0..Close
  <3>1. CASE j \in 1..k
   <4>1. PICK i \in DOMAIN met : along[j].id \in met[i].ids /\ along[j].at - met[i].at \in 0..Close
     BY <3>1 DEF GroupedTo
   <4> QED BY <2>5, <2>6, <4>1
  <3>2. CASE j = p
   <4>1. e.id \in y[l].ids /\ y[l].at = last.at
     BY <2>1, <2>3, <2>5
   <4>2. e.at - last.at \in 0..Close
     BY <1>2, <1>9, <1>12, CloseAssumption
   <4> QED BY <1>2, <1>4, <2>5, <3>2, <4>1, <4>2
  <3> QED BY <1>10, <3>1, <3>2
 <2>10. y[1].at = 0
   BY <1>4, <2>6 DEF GroupedTo
 <2>11. \A j \in (p + 1)..n : y[l].at <= along[j].at
   BY <1>3, <1>6, <1>11, <2>3, <2>5 DEF GroupedTo
 <2>12. GroupedTo(axis, along, n, p, y)
   BY <1>4, <2>5, <2>7, <2>8, <2>9, <2>10, <2>11 DEF GroupedTo
 <2> QED BY <1>1, <1>6, <2>12
<1>13. CASE ~(e.at - last.at <= Close)
 <2>1. PICK g : g = [at |-> e.at, ids |-> {e.id}]
   OBVIOUS
 <2>2. DOMAIN g = {"at", "ids"} /\ g.at = e.at /\ g.ids = {e.id}
   BY <2>1
 <2>3. y = Append(met, g)
   BY <1>6, <1>8, <1>13, <2>1
 <2>4. /\ IsList(y) /\ Len(y) = l + 1 /\ y[l + 1] = g
       /\ \A i \in DOMAIN met : y[i] = met[i]
       /\ DOMAIN y = DOMAIN met \cup {l + 1}
   BY <1>3, <2>3, AddedToList DEF GroupedTo
 <2>5. last.at < e.at
   BY <1>2, <1>9, <1>13, CloseAssumption
 <2>6. \A i \in DOMAIN met : met[i].at \in Int /\ met[i].at < e.at
  <3>1. ASSUME NEW i \in DOMAIN met PROVE met[i].at \in Int /\ met[i].at < e.at
   <4>1. met[i].at \in Int
     BY DEF GroupedTo, Boundary
   <4>2. i = l \/ i < l
     BY <1>4
   <4>3. met[i].at <= last.at
     BY <1>4, <1>6, <1>9, <4>1, <4>2 DEF GroupedTo, Rising
   <4> QED BY <1>2, <1>9, <2>5, <4>1, <4>3
  <3> QED BY <3>1
 <2>7. ASSUME NEW i \in DOMAIN y, NEW j \in DOMAIN y, i < j PROVE y[i].at < y[j].at
  <3>1. i \in DOMAIN met /\ (j \in DOMAIN met \/ j = l + 1)
    BY <1>4, <2>4, <2>7
  <3>2. CASE j \in DOMAIN met
    BY <2>4, <2>7, <3>1, <3>2 DEF GroupedTo, Rising
  <3>3. CASE j = l + 1
    BY <2>2, <2>4, <2>6, <3>1, <3>3
  <3> QED BY <3>1, <3>2, <3>3
 <2>8. Rising(y)
   BY <2>7 DEF Rising
 <2>9. ASSUME NEW i \in DOMAIN y PROVE Boundary(axis, y[i])
  <3>1. CASE i \in DOMAIN met
    BY <2>4, <3>1 DEF GroupedTo
  <3>2. CASE i = l + 1
    BY <1>2, <2>2, <2>4, <3>2 DEF Boundary
  <3> QED BY <2>4, <3>1, <3>2
 <2>10. ASSUME NEW j \in 1..p
        PROVE  \E i \in DOMAIN y : along[j].id \in y[i].ids /\ along[j].at - y[i].at \in 0..Close
  <3>1. CASE j \in 1..k
   <4>1. PICK i \in DOMAIN met : along[j].id \in met[i].ids /\ along[j].at - met[i].at \in 0..Close
     BY <3>1 DEF GroupedTo
   <4> QED BY <2>4, <4>1
  <3>2. CASE j = p
   <4>1. PICK i : i = l + 1
     OBVIOUS
   <4>2. i \in DOMAIN y /\ y[i] = g
     BY <2>4, <4>1
   <4>3. e.at - e.at \in 0..Close
     BY <1>2, CloseAssumption
   <4> QED BY <1>2, <2>2, <3>2, <4>2, <4>3
  <3> QED BY <1>10, <3>1, <3>2
 <2>11. y[1].at = 0
   BY <1>4, <2>4 DEF GroupedTo
 <2>12. \A j \in (p + 1)..n : y[l + 1].at <= along[j].at
   BY <1>2, <1>11, <2>2, <2>4 DEF InOrder
 <2>13. Len(y) > 0
   BY <1>4, <2>4
 <2>14. GroupedTo(axis, along, n, p, y)
   BY <2>4, <2>8, <2>9, <2>10, <2>11, <2>12, <2>13 DEF GroupedTo
 <2> QED BY <1>1, <1>6, <2>14
<1> QED BY <1>12, <1>13

\* What is met before the end of a member.
LEMMA GroupFolded ==
    ASSUME NEW axis, NEW along, NEW n, DOMAIN along = 1..n
    PROVE  FoldLeft(LAMBDA met, c :
                    IF OnAxis(axis, c.at) - Last(met).at <= Close
                    THEN [met EXCEPT ![Len(met)].ids = @ \cup {c.id}]
                    ELSE Append(met, [at |-> OnAxis(axis, c.at), ids |-> {c.id}]),
                <<[at |-> 0, ids |-> {}]>>, along)
              = Folded(axis, Groups, <<[at |-> 0, ids |-> {}]>>, along, n)
  BY DEF FoldLeft, MapThenFoldSet, Folded, FoldTo, FoldStep, Groups

LEMMA GroupedAll ==
    ASSUME NEW axis, axis.length \in Int, axis.length > 0, NEW along, Placed(along), InOrder(along),
           NEW n \in Nat, n = Len(along), \A i \in 1..n : along[i].at \in 0..axis.length,
           NEW first, first = [at |-> 0, ids |-> {}]
    PROVE  GroupedTo(axis, along, n, n, Folded(axis, Groups, <<first>>, along, n))
<1>1. PICK how, b : how = Groups /\ b = <<first>>
  OBVIOUS
<1>2. how.kind = "group"
  BY <1>1 DEF Groups
<1>3. DOMAIN along = 1..n
  BY LengthOfList DEF Placed
<1>4. PICK f : Folds(f, axis, how, b, along, n) /\ Folded(axis, how, b, along, n) = f[n]
  BY FoldSteps
<1> DEFINE T == {k \in Nat : k <= n => GroupedTo(axis, along, n, k, f[k])}
<1>5. 0 \in T
 <2>1. f[0] = b
   BY <1>4 DEF Folds
 <2>2. b \in Seq({first}) /\ Len(b) = 1 /\ b[1] = first /\ DOMAIN b = {1}
   BY <1>1
 <2>3. IsList(b)
   BY <2>2, ListFacts
 <2>4. DOMAIN first = {"at", "ids"} /\ first.at = 0
   OBVIOUS
 <2>5. \A i \in DOMAIN b : Boundary(axis, b[i])
   BY <2>2, <2>4 DEF Boundary
 <2>6. Rising(b)
   BY <2>2 DEF Rising
 <2>7. \A j \in (0 + 1)..n : b[Len(b)].at <= along[j].at
   BY <2>2, <2>4
 <2>8. GroupedTo(axis, along, n, 0, b)
   BY <2>2, <2>3, <2>4, <2>5, <2>6, <2>7 DEF GroupedTo
 <2> QED BY <2>1, <2>8
<1>6. ASSUME NEW k \in Nat, k \in T PROVE k + 1 \in T
 <2>1. SUFFICES ASSUME k + 1 <= n PROVE GroupedTo(axis, along, n, k + 1, f[k + 1])
   OBVIOUS
 <2>2. GroupedTo(axis, along, n, k, f[k]) /\ k \in 0..(n - 1)
   BY <1>6, <2>1
 <2>3. f[k + 1] = FoldStep(axis, how, f[k], along[k + 1])
   BY <1>4, <2>2 DEF Folds
 <2>4. PICK met, e : met = f[k] /\ e = along[k + 1]
   OBVIOUS
 <2>5. GroupedTo(axis, along, n, k + 1, FoldStep(axis, how, met, e))
   BY <1>2, <1>3, <2>2, <2>4, GroupOne
 <2> QED BY <2>3, <2>4, <2>5
<1> HIDE DEF T
<1>7. \A k \in Nat : k \in T
  BY <1>5, <1>6, AllNaturals
<1>8. GroupedTo(axis, along, n, n, f[n])
  BY <1>7 DEF T
<1> QED BY <1>1, <1>4, <1>8

\* The boundaries between the segments of a member with the given restraints.
Bounds(axis, own, b) ==
    /\ IsList(b) /\ Len(b) > 0 /\ Rising(b)
    /\ \A i \in DOMAIN b : b[i].at \in 0..axis.length
    /\ Len(b) > 1 => b[1].at = 0
    /\ b[Len(b)].at = axis.length
    /\ \A c \in own : \E i \in DOMAIN b :
          /\ c.id \in b[i].ids
          /\ IF i < Len(b) THEN c.at - b[i].at \in 0..Close ELSE b[i].at - c.at \in 0..Close

LEMMA BoundsAre ==
    ASSUME NEW axis, axis.length \in Int, axis.length > 0, NEW along, Placed(along), InOrder(along),
           NEW n \in Nat, n = Len(along), \A i \in 1..n : along[i].at \in 0..axis.length,
           NEW held, GroupedTo(axis, along, n, n, held), NEW b,
           b = IF axis.length - Last(held).at <= Close
               THEN [held EXCEPT ![Len(held)].at = axis.length]
               ELSE Append(held, [at |-> axis.length, ids |-> {}])
    PROVE  Bounds(axis, ToSet(along), b)
<1>1. PICK l, last, length : l = Len(held) /\ last = held[l] /\ length = axis.length
  OBVIOUS
<1>2. IsList(held) /\ l \in Nat /\ l > 0 /\ DOMAIN held = 1..l /\ l \in DOMAIN held /\ 1 \in DOMAIN held
  BY <1>1, LengthOfList DEF GroupedTo
<1>3. Last(held) = last
  BY <1>1 DEF Last
<1>4. Boundary(axis, last) /\ last.at \in 0..length
  BY <1>1, <1>2 DEF GroupedTo, Boundary
<1>5. \A i \in DOMAIN held : held[i].at \in 0..length
  BY <1>1 DEF GroupedTo, Boundary
<1>6. ASSUME NEW c \in ToSet(along)
      PROVE  c.at \in 0..length
             /\ \E i \in DOMAIN held : c.id \in held[i].ids /\ c.at - held[i].at \in 0..Close
 <2>1. PICK j \in 1..n : c = along[j]
   BY LengthOfList DEF ToSet, Placed
 <2> QED BY <1>1, <2>1 DEF GroupedTo
<1>7. CASE length - last.at <= Close
 <2>1. PICK g : g = [last EXCEPT !.at = length]
   OBVIOUS
 <2>2. DOMAIN g = {"at", "ids"} /\ g.at = length /\ g.ids = last.ids
   BY <1>4, <2>1 DEF Boundary
 <2>3. b = [held EXCEPT ![l] = g]
   BY <1>1, <1>3, <1>7, <2>1
 <2>4. /\ DOMAIN b = DOMAIN held /\ b = [i \in DOMAIN held |-> b[i]] /\ b[l] = g
       /\ \A i \in DOMAIN held : i # l => b[i] = held[i]
   BY <1>2, <2>3
 <2>5. IsList(b) /\ Len(b) = l
  <3>1. IsList(b) /\ Len(b) = Len(held)
   <4>1. IsList(held) /\ l \in DOMAIN held
     BY <1>2
   <4> QED BY <2>4, <4>1, InPlace
  <3> QED BY <1>1, <3>1
 <2>6. ASSUME NEW i \in DOMAIN b, NEW j \in DOMAIN b, i < j PROVE b[i].at < b[j].at
  <3>1. i # l /\ b[i] = held[i] /\ i \in DOMAIN held /\ j \in DOMAIN held
    BY <1>2, <2>4, <2>6
  <3>2. held[i].at < held[j].at
    BY <2>6, <3>1 DEF GroupedTo, Rising
  <3>3. CASE j = l
    BY <1>1, <1>4, <1>5, <2>2, <2>4, <3>1, <3>2, <3>3
  <3>4. CASE j # l
    BY <2>4, <3>1, <3>2, <3>4
  <3> QED BY <3>3, <3>4
 <2>7. \A i \in DOMAIN b : b[i].at \in 0..length
   BY <1>1, <1>5, <2>2, <2>4
 <2>8. l > 1 => b[1].at = 0
   BY <1>2, <2>4 DEF GroupedTo
 <2>9. ASSUME NEW c \in ToSet(along)
       PROVE  \E i \in DOMAIN b :
                 /\ c.id \in b[i].ids
                 /\ IF i < l THEN c.at - b[i].at \in 0..Close ELSE b[i].at - c.at \in 0..Close
  <3>1. PICK i \in DOMAIN held : c.id \in held[i].ids /\ c.at - held[i].at \in 0..Close
    BY <1>6
  <3>2. CASE i < l
    BY <1>2, <2>4, <3>1, <3>2
  <3>3. CASE i = l
   <4>1. c.id \in b[l].ids /\ b[l].at = length
     BY <1>1, <2>2, <2>4, <3>1, <3>3
   <4>2. length - c.at \in 0..Close
    <5>1. c.at \in Int /\ c.at <= length /\ last.at \in Int /\ last.at <= c.at /\ length \in Int
      BY <1>1, <1>4, <1>6, <3>1, <3>3
    <5> QED BY <1>7, <5>1, CloseAssumption
   <4> QED BY <1>2, <2>4, <4>1, <4>2
  <3> QED BY <1>2, <3>2, <3>3
 <2> QED BY <1>1, <1>2, <2>2, <2>4, <2>5, <2>6, <2>7, <2>8, <2>9 DEF Bounds, Rising
<1>8. CASE ~(length - last.at <= Close)
 <2>1. PICK g : g = [at |-> length, ids |-> {}]
   OBVIOUS
 <2>2. g.at = length
   BY <2>1
 <2>3. b = Append(held, g)
   BY <1>1, <1>3, <1>8, <2>1
 <2>4. /\ IsList(b) /\ Len(b) = l + 1 /\ b[l + 1] = g
       /\ \A i \in DOMAIN held : b[i] = held[i]
       /\ DOMAIN b = DOMAIN held \cup {l + 1}
   BY <1>1, <1>2, <2>3, AddedToList
 <2>5. last.at < length
   BY <1>1, <1>4, <1>8, CloseAssumption
 <2>6. \A i \in DOMAIN held : held[i].at < length
  <3>1. ASSUME NEW i \in DOMAIN held PROVE held[i].at < length
   <4>1. i = l \/ i < l
     BY <1>2
   <4>2. held[i].at <= last.at
     BY <1>1, <1>2, <1>4, <1>5, <4>1 DEF GroupedTo, Rising
   <4> QED BY <1>1, <1>4, <1>5, <2>5, <4>2
  <3> QED BY <3>1
 <2>7. ASSUME NEW i \in DOMAIN b, NEW j \in DOMAIN b, i < j PROVE b[i].at < b[j].at
  <3>1. i \in DOMAIN held /\ (j \in DOMAIN held \/ j = l + 1)
    BY <1>2, <2>4, <2>7
  <3>2. CASE j \in DOMAIN held
    BY <2>4, <2>7, <3>1, <3>2 DEF GroupedTo, Rising
  <3>3. CASE j = l + 1
    BY <2>2, <2>4, <2>6, <3>1, <3>3
  <3> QED BY <3>1, <3>2, <3>3
 <2>8. ASSUME NEW i \in DOMAIN b PROVE b[i].at \in 0..length
  <3>1. CASE i \in DOMAIN held
    BY <1>5, <2>4, <3>1
  <3>2. CASE i = l + 1
    BY <1>1, <2>2, <2>4, <3>2
  <3> QED BY <2>4, <3>1, <3>2
 <2>9. b[1].at = 0
   BY <1>2, <2>4 DEF GroupedTo
 <2>10. ASSUME NEW c \in ToSet(along)
        PROVE  \E i \in DOMAIN b : c.id \in b[i].ids /\ i < l + 1 /\ c.at - b[i].at \in 0..Close
  <3>1. PICK i \in DOMAIN held : c.id \in held[i].ids /\ c.at - held[i].at \in 0..Close
    BY <1>6
  <3>2. i < l + 1
    BY <1>2
  <3> QED BY <2>4, <3>1, <3>2
 <2>11. b[l + 1].at = length /\ l + 1 > 0
   BY <1>2, <2>2, <2>4
 <2>12. Rising(b)
   BY <2>7 DEF Rising
 <2>13. ASSUME NEW c \in ToSet(along)
        PROVE  \E i \in DOMAIN b :
                  /\ c.id \in b[i].ids
                  /\ IF i < Len(b) THEN c.at - b[i].at \in 0..Close ELSE b[i].at - c.at \in 0..Close
   BY <2>4, <2>10
 <2>14. b[Len(b)].at = axis.length /\ Len(b) > 0 /\ IsList(b)
   BY <1>1, <2>4, <2>11
 <2>15. \A i \in DOMAIN b : b[i].at \in 0..axis.length
   BY <1>1, <2>8
 <2> QED BY <2>9, <2>12, <2>13, <2>14, <2>15 DEF Bounds
<1> QED BY <1>7, <1>8

\* What is derived of one member tiles it.
Tiles(axis, own, segments) ==
    /\ \E g \in segments : g.from = 0
    /\ \A g \in segments :
          g.from < g.to /\ (g.to = axis.length \/ \E h \in segments : h.from = g.to)
    /\ \A g, h \in segments : g = h \/ g.to <= h.from \/ h.to <= g.from
    /\ \A c \in own : \E g \in segments :
          \/ c.id \in g.starts /\ c.at - g.from \in 0..Close
          \/ c.id \in g.ends /\ g.to - c.at \in -Close..Close

\* The segments between boundaries.
Between(axis, b) ==
    [i \in 1..Len(b) - 1 |->
        [id |-> <<"segment", axis.id, i>>, member |-> axis.id, from |-> b[i].at,
         to |-> b[i + 1].at, starts |-> b[i].ids, ends |-> b[i + 1].ids]]

LEMMA BetweenTiles ==
    ASSUME NEW axis, axis.length \in Int, NEW own, NEW b, Bounds(axis, own, b), Len(b) > 1,
           \A c \in own : c.at \in Int, NEW d, d = Between(axis, b)
    PROVE  Tiles(axis, own, ToSet(d))
<1>1. PICK n \in Nat : n = Len(b) /\ DOMAIN b = 1..n
  BY LengthOfList DEF Bounds
<1>2. PICK m : m = n - 1
  OBVIOUS
<1>3. m \in Nat /\ m >= 1 /\ n = m + 1
  BY <1>1, <1>2
<1>4. DOMAIN d = 1..m
  BY <1>1, <1>2 DEF Between
<1>5. ASSUME NEW i \in 1..m
      PROVE  /\ d[i].from = b[i].at /\ d[i].to = b[i + 1].at
             /\ d[i].starts = b[i].ids /\ d[i].ends = b[i + 1].ids
  BY <1>1, <1>2 DEF Between
<1>6. \A i \in 1..m : d[i] \in ToSet(d) /\ i \in 1..n /\ i + 1 \in 1..n /\ i < i + 1
  BY <1>3, <1>4 DEF ToSet
<1>7. \A g \in ToSet(d) : \E i \in 1..m : g = d[i]
  BY <1>4 DEF ToSet
<1>8. \A i \in 1..n : b[i].at \in Int
  BY <1>1 DEF Bounds
<1>9. 1 \in 1..m /\ d[1].from = 0
 <2>1. 1 \in 1..m
   BY <1>3
 <2>2. b[1].at = 0
   BY DEF Bounds
 <2> QED BY <1>5, <2>1, <2>2
<1>10. ASSUME NEW g \in ToSet(d)
       PROVE  g.from < g.to /\ (g.to = axis.length \/ \E h \in ToSet(d) : h.from = g.to)
 <2>1. PICK i \in 1..m : g = d[i]
   BY <1>7
 <2>2. PICK j : j = i + 1
   OBVIOUS
 <2>3. g.from = b[i].at /\ g.to = b[j].at /\ i \in 1..n /\ j \in 1..n /\ i < j
   BY <1>5, <1>6, <2>1, <2>2
 <2>4. g.from < g.to
   BY <1>1, <2>3 DEF Bounds, Rising
 <2>5. CASE j = n
   BY <1>1, <2>3, <2>4, <2>5 DEF Bounds
 <2>6. CASE j # n
  <3>1. j \in 1..m
    BY <1>3, <2>3, <2>6
  <3>2. d[j].from = g.to /\ d[j] \in ToSet(d)
    BY <1>5, <1>6, <2>3, <3>1
  <3> QED BY <2>4, <3>2
 <2> QED BY <2>5, <2>6
<1>11. ASSUME NEW i \in 1..m, NEW j \in 1..m, i < j PROVE d[i].to <= d[j].from
 <2>1. PICK k : k = i + 1
   OBVIOUS
 <2>2. k \in 1..n /\ j \in 1..n /\ (k = j \/ k < j)
   BY <1>3, <1>11, <2>1
 <2>3. b[k].at <= b[j].at
   BY <1>1, <1>8, <2>2 DEF Bounds, Rising
 <2> QED BY <1>5, <2>1, <2>3
<1>12. ASSUME NEW g \in ToSet(d), NEW h \in ToSet(d) PROVE g = h \/ g.to <= h.from \/ h.to <= g.from
 <2>1. PICK i \in 1..m, j \in 1..m : g = d[i] /\ h = d[j]
   BY <1>7
 <2>2. i = j \/ i < j \/ j < i
   OBVIOUS
 <2> QED BY <1>11, <2>1, <2>2
<1>13. ASSUME NEW c \in own
       PROVE  \E g \in ToSet(d) :
                 \/ c.id \in g.starts /\ c.at - g.from \in 0..Close
                 \/ c.id \in g.ends /\ g.to - c.at \in -Close..Close
 <2>1. PICK i \in 1..n :
          /\ c.id \in b[i].ids
          /\ IF i < n THEN c.at - b[i].at \in 0..Close ELSE b[i].at - c.at \in 0..Close
   BY <1>1 DEF Bounds
 <2>2. CASE i < n
  <3>1. i \in 1..m
    BY <1>3, <2>2
  <3>2. c.id \in d[i].starts /\ c.at - d[i].from \in 0..Close /\ d[i] \in ToSet(d)
    BY <1>5, <1>6, <2>1, <2>2, <3>1
  <3> QED BY <3>2
 <2>3. CASE ~(i < n)
  <3>1. m \in 1..m /\ i = m + 1
    BY <1>3, <2>3
  <3>2. c.id \in d[m].ends /\ d[m].to = b[i].at /\ d[m] \in ToSet(d)
    BY <1>5, <1>6, <2>1, <3>1
  <3>3. b[i].at - c.at \in -Close..Close
    BY <2>1, <2>3, CloseAssumption
  <3> QED BY <3>2, <3>3
 <2> QED BY <2>2, <2>3
<1> QED BY <1>6, <1>9, <1>10, <1>12, <1>13 DEF Tiles

----
(* Segments between restraints: of one member, and of several.              *)

OwnOf(m, axis) == {c \in ToSet(m.candidates) : c.member = axis.id}

LEMMA AxisTiles ==
    ASSUME NEW m, ModelOK(m), NEW axis \in ToSet(m.members), NEW d, d = DerivedSegments(m, axis)
    PROVE  /\ IsList(d)
           /\ \A g \in ToSet(d) :
                 g.member = axis.id /\ \E i \in Int : g.id = <<"segment", axis.id, i>>
           /\ ToSet(d) # {} => Tiles(axis, OwnOf(m, axis), ToSet(d))
<1>1. MemberOK(m, axis)
  BY DEF ModelOK, RecordsOK
<1>2. axis.length \in Int /\ axis.length > 0
  BY <1>1 DEF MemberOK
<1>3. PICK members, candidates : members = m.members /\ candidates = m.candidates
  OBVIOUS
<1>4. IsRegister(members) /\ IsList(candidates)
  BY <1>3, FieldsAre DEF ModelOK, IsRegister
<1>5. ASSUME NEW c \in OwnOf(m, axis) PROVE c.at \in 0..axis.length
 <2>1. CandidateOK(m, c) /\ c.member = axis.id
   BY DEF OwnOf, ModelOK, RecordsOK
 <2>2. PICK id : id = axis.id
   OBVIOUS
 <2>3. id \in IdsOf(members)
   BY <1>3, <2>2 DEF IdsOf
 <2>4. Named(members, id) \in ToSet(members) /\ Named(members, id).id = id
   BY <1>4, <2>3, NamedIs
 <2>5. Named(members, id) = axis
   BY <1>3, <1>4, <2>2, <2>4, RegisterIds
 <2> QED BY <1>3, <2>1, <2>2, <2>5 DEF CandidateOK
<1>6. \A c \in ToSet(m.candidates) : c.at \in Int
 <2>1. ASSUME NEW c \in ToSet(m.candidates) PROVE c.at \in Int
  <3>1. CandidateOK(m, c)
    BY DEF ModelOK, RecordsOK
  <3> QED BY <3>1 DEF CandidateOK
 <2> QED BY <2>1
<1>7. PICK along : along = Along(m, axis)
  OBVIOUS
<1>8. Placed(along) /\ InOrder(along) /\ ToSet(along) = OwnOf(m, axis)
  BY <1>3, <1>4, <1>6, <1>7, AlongIs DEF OwnOf
<1>9. PICK n \in Nat : n = Len(along) /\ DOMAIN along = 1..n
  BY <1>8, LengthOfList DEF Placed
<1>10. \A i \in 1..n : along[i].at \in 0..axis.length
  BY <1>5, <1>8, <1>9 DEF ToSet
<1>11. PICK first : first = [at |-> 0, ids |-> {}]
  OBVIOUS
<1>12. PICK held : held = Folded(axis, Groups, <<first>>, along, n)
  OBVIOUS
<1>13. GroupedTo(axis, along, n, n, held)
  BY <1>2, <1>8, <1>9, <1>10, <1>11, <1>12, GroupedAll
<1>14. PICK b : b = Boundaries(m, axis)
  OBVIOUS
<1>15. b = IF axis.length - Last(held).at <= Close
           THEN [held EXCEPT ![Len(held)].at = axis.length]
           ELSE Append(held, [at |-> axis.length, ids |-> {}])
 <2>1. held = FoldLeft(LAMBDA met, c :
                   IF OnAxis(axis, c.at) - Last(met).at <= Close
                   THEN [met EXCEPT ![Len(met)].ids = @ \cup {c.id}]
                   ELSE Append(met, [at |-> OnAxis(axis, c.at), ids |-> {c.id}]),
               <<[at |-> 0, ids |-> {}]>>, along)
   BY <1>9, <1>11, <1>12, GroupFolded
 <2> QED BY <1>7, <1>14, <2>1 DEF Boundaries
<1>16. Bounds(axis, ToSet(along), b)
  BY <1>2, <1>8, <1>9, <1>10, <1>13, <1>15, BoundsAre
<1>17. d = Between(axis, b)
  BY <1>14 DEF DerivedSegments, Between
<1>18. PICK l \in Nat : l = Len(b) /\ l > 0
  BY <1>16, LengthOfList DEF Bounds
<1>19. PICK k : k = l - 1
  OBVIOUS
<1>20. k \in Nat /\ DOMAIN d = 1..k /\ d = [i \in 1..k |-> d[i]]
  BY <1>17, <1>18, <1>19 DEF Between
<1>21. IsList(d)
  BY <1>20, ListOver
<1>22. ASSUME NEW g \in ToSet(d)
       PROVE  g.member = axis.id /\ \E i \in Int : g.id = <<"segment", axis.id, i>>
 <2>1. PICK i \in 1..k : g = d[i]
   BY <1>20 DEF ToSet
 <2>2. g.member = axis.id /\ g.id = <<"segment", axis.id, i>>
   BY <1>17, <1>18, <1>19, <2>1 DEF Between
 <2> QED BY <2>2
<1>23. ASSUME ToSet(d) # {} PROVE Tiles(axis, OwnOf(m, axis), ToSet(d))
 <2>1. PICK i : i \in 1..k
   BY <1>20, <1>23 DEF ToSet
 <2>2. Len(b) > 1
   BY <1>18, <1>19, <2>1
 <2>3. \A c \in OwnOf(m, axis) : c.at \in Int
   BY <1>2, <1>5
 <2> QED BY <1>2, <1>8, <1>16, <1>17, <2>2, <2>3, BetweenTiles
<1> QED BY <1>21, <1>22, <1>23

LEMMA JoinFolded ==
    ASSUME NEW m, NEW axes, NEW n, DOMAIN axes = 1..n
    PROVE  AllSegments(m, axes) = Folded(m, Joins, <<>>, axes, n)
  BY DEF AllSegments, FoldLeft, MapThenFoldSet, Folded, FoldTo, FoldStep, Joins

\* The segments of several members are those of each.
LEMMA SegmentsAre ==
    ASSUME NEW m, ModelOK(m), NEW axes, NEW n \in Nat, DOMAIN axes = 1..n,
           \A i \in 1..n : axes[i] \in ToSet(m.members)
    PROVE  \A g : g \in ToSet(AllSegments(m, axes))
                     <=> \E i \in 1..n : g \in ToSet(DerivedSegments(m, axes[i]))
<1>1. PICK how, b : how = Joins /\ b = <<>>
  OBVIOUS
<1>2. how.kind = "join"
  BY <1>1 DEF Joins
<1>3. PICK f : Folds(f, m, how, b, axes, n) /\ Folded(m, how, b, axes, n) = f[n]
  BY FoldSteps
<1> DEFINE T == {k \in Nat : k <= n =>
                    /\ IsList(f[k])
                    /\ \A g : g \in ToSet(f[k])
                                 <=> \E i \in 1..k : g \in ToSet(DerivedSegments(m, axes[i]))}
<1>4. 0 \in T
 <2>1. f[0] = b /\ IsList(b) /\ ToSet(b) = {}
   BY <1>1, <1>3, EmptyList DEF Folds
 <2> QED BY <2>1
<1>5. ASSUME NEW k \in Nat, k \in T PROVE k + 1 \in T
 <2>1. SUFFICES ASSUME k + 1 <= n
                PROVE  /\ IsList(f[k + 1])
                       /\ \A g : g \in ToSet(f[k + 1])
                                 <=> \E i \in 1..(k + 1) : g \in ToSet(DerivedSegments(m, axes[i]))
   OBVIOUS
 <2>2. /\ IsList(f[k]) /\ k \in 0..(n - 1) /\ k + 1 \in 1..n
       /\ \A g : g \in ToSet(f[k]) <=> \E i \in 1..k : g \in ToSet(DerivedSegments(m, axes[i]))
   BY <1>5, <2>1
 <2>3. f[k + 1] = FoldStep(m, how, f[k], axes[k + 1])
   BY <1>3, <2>2 DEF Folds
 <2>4. PICK x, axis, p : x = f[k] /\ axis = axes[k + 1] /\ p = k + 1
   OBVIOUS
 <2>5. PICK d : d = DerivedSegments(m, axis)
   OBVIOUS
 <2>6. f[p] = x \o d
   BY <1>2, <2>3, <2>4, <2>5 DEF FoldStep
 <2>7. IsList(d)
   BY <2>2, <2>4, <2>5, AxisTiles
 <2>8. IsList(x \o d) /\ ToSet(x \o d) = ToSet(x) \cup ToSet(d)
   BY <2>2, <2>4, <2>7, JoinedLists
 <2>9. ASSUME NEW g
       PROVE  g \in ToSet(f[p]) <=> \E i \in 1..p : g \in ToSet(DerivedSegments(m, axes[i]))
  <3>1. g \in ToSet(f[p]) <=> (\E i \in 1..k : g \in ToSet(DerivedSegments(m, axes[i]))) \/ g \in ToSet(d)
    BY <2>2, <2>4, <2>6, <2>8
  <3>2. \A i \in 1..p : i \in 1..k \/ i = p
    BY <2>4
  <3>3. \A i \in 1..k : i \in 1..p
    BY <2>4
  <3>4. p \in 1..p /\ axes[p] = axis
    BY <2>2, <2>4
  <3> QED BY <2>5, <3>1, <3>2, <3>3, <3>4
 <2> QED BY <2>4, <2>6, <2>8, <2>9
<1> HIDE DEF T
<1>6. \A k \in Nat : k \in T
  BY <1>4, <1>5, AllNaturals
<1>7. \A g : g \in ToSet(f[n]) <=> \E i \in 1..n : g \in ToSet(DerivedSegments(m, axes[i]))
  BY <1>6 DEF T
<1>8. AllSegments(m, axes) = f[n]
  BY <1>1, <1>3, JoinFolded
<1> QED BY <1>7, <1>8

----
(* Segments between restraints: what other calls leave alone.               *)

KeepsSegments(m, call) ==
    DOMAIN call.model = ModelFields /\ call.model.memberStability = m.memberStability

LEMMA RefusedKeeps == ASSUME NEW m, DOMAIN m = ModelFields PROVE KeepsSegments(m, Refused(m))
  BY DEF KeepsSegments, Refused

LEMMA RegisterKeeps ==
    ASSUME NEW m, DOMAIN m = ModelFields, NEW env, NEW s
    PROVE  KeepsSegments(m, Register(m, s))
  BY DEF Register, Take, Done, Refused, KeepsSegments, ModelFields

LEMMA ConnectPartsKeeps ==
    ASSUME NEW m, DOMAIN m = ModelFields, NEW env, NEW s
    PROVE  KeepsSegments(m, ConnectParts(m, env, s))
  BY DEF ConnectParts, Take, Done, Refused, KeepsSegments, ModelFields

LEMMA AxisKeeps ==
    ASSUME NEW m, DOMAIN m = ModelFields, NEW component, NEW env, NEW s
    PROVE  KeepsSegments(m, Axis(m, component, env, s))
  BY DEF Axis, Take, Done, Refused, KeepsSegments, ModelFields

LEMMA AddRestraintKeeps ==
    ASSUME NEW m, DOMAIN m = ModelFields, NEW c, NEW env, NEW s
    PROVE  KeepsSegments(m, AddRestraint(m, c))
  BY DEF AddRestraint, Take, Done, Refused, KeepsSegments, ModelFields

LEMMA StabilityKeeps ==
    ASSUME NEW m, DOMAIN m = ModelFields, NEW env, NEW s
    PROVE  KeepsSegments(m, Stability(m, s))
  BY DEF Stability, Take, Done, Refused, KeepsSegments, ModelFields

LEMMA CrossSectionKeeps ==
    ASSUME NEW m, DOMAIN m = ModelFields, NEW env, NEW s
    PROVE  KeepsSegments(m, CrossSection(m, env, s))
  BY DEF CrossSection, Take, Done, Refused, KeepsSegments, ModelFields

LEMMA WindBasisKeeps ==
    ASSUME NEW m, DOMAIN m = ModelFields, NEW env, NEW s
    PROVE  KeepsSegments(m, WindBasis(m, s))
  BY DEF WindBasis, Take, Done, Refused, KeepsSegments, ModelFields

LEMMA MaterialKeeps ==
    ASSUME NEW m, DOMAIN m = ModelFields, NEW env, NEW s
    PROVE  KeepsSegments(m, Material(m, s))
  BY DEF Material, Take, Done, Refused, KeepsSegments, ModelFields

LEMMA SectionKeeps ==
    ASSUME NEW m, DOMAIN m = ModelFields, NEW env, NEW s
    PROVE  KeepsSegments(m, Section(m, s))
  BY DEF Section, Take, Done, Refused, KeepsSegments, ModelFields

LEMMA EnsureFromCatalogKeeps ==
    ASSUME NEW m, DOMAIN m = ModelFields, NEW env, NEW s
    PROVE  KeepsSegments(m, EnsureFromCatalog(m, s))
  BY DEF EnsureFromCatalog, Take, Done, Refused, KeepsSegments, ModelFields

LEMMA SurfaceLoadKeeps ==
    ASSUME NEW m, DOMAIN m = ModelFields, NEW env, NEW s
    PROVE  KeepsSegments(m, SurfaceLoad(m, env, s))
  BY DEF SurfaceLoad, Take, Done, Refused, KeepsSegments, ModelFields, WithCase

LEMMA DistributeKeeps ==
    ASSUME NEW m, DOMAIN m = ModelFields, NEW env, NEW s
    PROVE  KeepsSegments(m, Distribute(m, env, s))
  BY DEF Distribute, Take, Done, Refused, KeepsSegments, ModelFields

LEMMA PointLoadKeeps ==
    ASSUME NEW m, DOMAIN m = ModelFields, NEW env, NEW s
    PROVE  KeepsSegments(m, PointLoad(m, env, s))
  BY DEF PointLoad, Take, Done, Refused, KeepsSegments, ModelFields, WithCase

LEMMA LineLoadKeeps ==
    ASSUME NEW m, DOMAIN m = ModelFields, NEW axis, NEW env, NEW s
    PROVE  KeepsSegments(m, LineLoad(m, env, axis, s))
  BY DEF LineLoad, Take, Done, Refused, KeepsSegments, ModelFields

LEMMA LoadCombinationKeeps ==
    ASSUME NEW m, DOMAIN m = ModelFields, NEW env, NEW s
    PROVE  KeepsSegments(m, LoadCombination(m, s))
  BY DEF LoadCombination, Take, Done, Refused, KeepsSegments, ModelFields

LEMMA DesignBasisKeeps ==
    ASSUME NEW m, DOMAIN m = ModelFields, NEW env, NEW s
    PROVE  KeepsSegments(m, DesignBasis(m, s))
  BY DEF DesignBasis, Take, Done, Refused, KeepsSegments, ModelFields

LEMMA AssemblyKeeps ==
    ASSUME NEW m, DOMAIN m = ModelFields, NEW env, NEW s
    PROVE  KeepsSegments(m, Assembly(m, env, s))
  BY DEF Assembly, Take, Done, Refused, KeepsSegments, ModelFields

LEMMA ManifestKeeps ==
    ASSUME NEW m, DOMAIN m = ModelFields, NEW env, NEW s
    PROVE  KeepsSegments(m, Manifest(m))
  BY DEF Manifest, Take, Done, Refused, KeepsSegments, ModelFields

LEMMA MemberPartKeeps ==
    ASSUME NEW m, DOMAIN m = ModelFields, NEW s
    PROVE  KeepsSegments(m, MemberPart(m, s))
<1>1. PICK t, part : t = [s EXCEPT !.flaw = "none"] /\ part = Register(m, t)
  OBVIOUS
<1>2. KeepsSegments(m, part)
  BY <1>1, RegisterKeeps
<1>3. part = Refused(m) \/ \E n, kind, id : part = Done(n, kind, id)
  BY <1>1 DEF Register, Take
<1>4. MemberPart(m, s) = IF ~part.ok THEN part ELSE [part EXCEPT !.model.geometry = @ \cup {s.id}]
  BY <1>1 DEF MemberPart
<1>5. CASE ~part.ok
  BY <1>2, <1>4, <1>5
<1>6. CASE part.ok
 <2>1. PICK n, kind, id : part = Done(n, kind, id)
   BY <1>3, <1>6 DEF Refused
 <2>2. part.model = n /\ DOMAIN part = {"ok", "model", "handle"}
   BY <2>1 DEF Done
 <2>3. DOMAIN n = ModelFields /\ n.memberStability = m.memberStability
   BY <1>2, <2>2 DEF KeepsSegments
 <2>4. PICK k : k = [n EXCEPT !.geometry = @ \cup {s.id}]
   OBVIOUS
 <2>5. DOMAIN k = ModelFields /\ k.memberStability = m.memberStability
   BY <2>3, <2>4 DEF ModelFields
 <2>6. MemberPart(m, s).model = k
   BY <1>4, <1>6, <2>2, <2>4
 <2> QED BY <2>5, <2>6 DEF KeepsSegments
<1> QED BY <1>5, <1>6

LEMMA MemberAxisKeeps ==
    ASSUME NEW m, DOMAIN m = ModelFields, NEW env, NEW s
    PROVE  KeepsSegments(m, MemberAxis(m, env, s))
<1>1. PICK c : c = env[s.part].id
  OBVIOUS
<1>2. KeepsSegments(m, Axis(m, c, env, s))
  BY AxisKeeps
<1> QED BY <1>1, <1>2, RefusedKeeps DEF MemberAxis, Take

LEMMA MemberFromGeometryKeeps ==
    ASSUME NEW m, DOMAIN m = ModelFields, NEW env, NEW s
    PROVE  KeepsSegments(m, MemberFromGeometry(m, env, s))
<1>1. PICK part : part = MemberPart(m, s)
  OBVIOUS
<1>2. PICK n, c : n = part.model /\ c = s.id
  OBVIOUS
<1>3. KeepsSegments(m, part)
  BY <1>1, MemberPartKeeps
<1>4. DOMAIN n = ModelFields /\ n.memberStability = m.memberStability
  BY <1>2, <1>3 DEF KeepsSegments
<1>5. PICK axis : axis = Axis(n, c, env, s)
  OBVIOUS
<1>6. KeepsSegments(n, axis)
  BY <1>4, <1>5, AxisKeeps
<1>7. DOMAIN axis = {"ok", "model", "handle"}
  BY <1>5 DEF Axis, Take, Done, Refused
<1>8. MemberFromGeometry(m, env, s) = IF ~part.ok THEN part ELSE [axis EXCEPT !.handle = part.handle]
  BY <1>1, <1>2, <1>5 DEF MemberFromGeometry
<1> QED BY <1>3, <1>4, <1>6, <1>7, <1>8 DEF KeepsSegments

LEMMA JointKeeps ==
    ASSUME NEW m, DOMAIN m = ModelFields, NEW env, NEW s
    PROVE  KeepsSegments(m, JointFromGeometry(m, env, s))
<1>1. PICK u : u = [s EXCEPT !.flaw = "none"]
  OBVIOUS
<1>2. PICK part : part = Register(m, u)
  OBVIOUS
<1>3. KeepsSegments(m, part)
  BY <1>2, RegisterKeeps
<1>4. PICK n, known, t : /\ n = part.model /\ known = Put(env, "joint's connector", part.handle)
                        /\ t = [s EXCEPT !.id = s.connection, !.via = <<"joint's connector">>]
  OBVIOUS
<1>5. \/ JointFromGeometry(m, env, s) = Refused(m)
      \/ JointFromGeometry(m, env, s) = Refused(n)
      \/ JointFromGeometry(m, env, s) = ConnectParts(n, known, t)
  BY <1>1, <1>2, <1>4 DEF JointFromGeometry
<1>6. DOMAIN n = ModelFields /\ n.memberStability = m.memberStability
  BY <1>3, <1>4 DEF KeepsSegments
<1>7. KeepsSegments(n, ConnectParts(n, known, t)) /\ KeepsSegments(n, Refused(n)) /\ KeepsSegments(m, Refused(m))
  BY <1>6, ConnectPartsKeeps, RefusedKeeps
<1> QED BY <1>5, <1>6, <1>7 DEF KeepsSegments

LEMMA RestraintKeeps ==
    ASSUME NEW m, DOMAIN m = ModelFields, NEW env, NEW s
    PROVE  KeepsSegments(m, RestraintFromConnection(m, env, s))
<1>1. (\E c : RestraintFromConnection(m, env, s) = AddRestraint(m, c))
      \/ RestraintFromConnection(m, env, s) = Refused(m)
  BY DEF RestraintFromConnection, Take
<1> QED BY <1>1, AddRestraintKeeps, RefusedKeeps

LEMMA BoundaryKeeps ==
    ASSUME NEW m, DOMAIN m = ModelFields, NEW env, NEW s
    PROVE  KeepsSegments(m, BoundaryRestraint(m, env, s))
<1>1. (\E c : BoundaryRestraint(m, env, s) = AddRestraint(m, c))
      \/ BoundaryRestraint(m, env, s) = Refused(m)
  BY DEF BoundaryRestraint, Take
<1> QED BY <1>1, AddRestraintKeeps, RefusedKeeps

LEMMA SectionFromCatalogKeeps ==
    ASSUME NEW m, DOMAIN m = ModelFields, NEW s
    PROVE  KeepsSegments(m, SectionFromCatalog(m, s))
<1>1. PICK t : t = [s EXCEPT !.id = s.material, !.flaw = "none"]
  OBVIOUS
<1>2. PICK material : material = Material(m, t)
  OBVIOUS
<1>3. KeepsSegments(m, material)
  BY <1>2, MaterialKeeps
<1>4. PICK n : n = material.model
  OBVIOUS
<1>5. DOMAIN n = ModelFields /\ n.memberStability = m.memberStability
  BY <1>3, <1>4 DEF KeepsSegments
<1>6. KeepsSegments(n, Section(n, s)) /\ KeepsSegments(m, Refused(m))
  BY <1>5, SectionKeeps, RefusedKeeps
<1>7. \/ SectionFromCatalog(m, s) = Refused(m) \/ SectionFromCatalog(m, s) = material
      \/ SectionFromCatalog(m, s) = Section(n, s)
  BY <1>1, <1>2, <1>4 DEF SectionFromCatalog
<1> QED BY <1>3, <1>5, <1>6, <1>7 DEF KeepsSegments

LEMMA LoadsKeep ==
    ASSUME NEW m, DOMAIN m = ModelFields, NEW env, NEW s
    PROVE  /\ KeepsSegments(m, WindLoad(m, env, s))
           /\ KeepsSegments(m, DistributedLoad(m, env, s))
           /\ KeepsSegments(m, SelfWeight(m, env, s))
           /\ KeepsSegments(m, DistributeUniform(m, env, s))
<1>1. (\E t : WindLoad(m, env, s) = SurfaceLoad(m, env, t)) \/ WindLoad(m, env, s) = Refused(m)
  BY DEF WindLoad, Take
<1>2. (\E axis, t : DistributedLoad(m, env, s) = LineLoad(m, env, axis, t))
      \/ DistributedLoad(m, env, s) = Refused(m)
  BY DEF DistributedLoad, Take
<1>3. (\E axis, t : SelfWeight(m, env, s) = LineLoad(m, env, axis, t))
      \/ SelfWeight(m, env, s) = Refused(m)
  BY DEF SelfWeight, Take
<1>4. (\E axis, t : DistributeUniform(m, env, s) = LineLoad(m, env, axis, t))
      \/ DistributeUniform(m, env, s) = Refused(m)
  BY DEF DistributeUniform, Take
<1> QED BY <1>1, <1>2, <1>3, <1>4, SurfaceLoadKeeps, LineLoadKeeps, RefusedKeeps

LEMMA AliasKeeps ==
    ASSUME NEW m, DOMAIN m = ModelFields, NEW env, NEW s
    PROVE  KeepsSegments(m, AliasOf(m, env, s))
  BY DEF AliasOf, Done, Refused, KeepsSegments

\* Segments are declared by one call alone.
LEMMA ExecuteKeeps ==
    ASSUME NEW m, DOMAIN m = ModelFields, NEW env, NEW s, s.op \in Ops, s.op # "member stability"
    PROVE  KeepsSegments(m, Execute(m, env, s))
<1>1. PICK call : call = Execute(m, env, s)
  OBVIOUS
<1>2. ASSUME s.op = "basis" PROVE KeepsSegments(m, call)
 <2>1. call = DesignBasis(m, s)
   BY <1>1, <1>2 DEF Execute
 <2> QED BY <2>1, DesignBasisKeeps
<1>3. ASSUME s.op = "part" PROVE KeepsSegments(m, call)
 <2>1. call = Register(m, s)
   BY <1>1, <1>3 DEF Execute
 <2> QED BY <2>1, RegisterKeeps
<1>4. ASSUME s.op = "member part" PROVE KeepsSegments(m, call)
 <2>1. call = MemberPart(m, s)
   BY <1>1, <1>4 DEF Execute
 <2> QED BY <2>1, MemberPartKeeps
<1>5. ASSUME s.op = "member" PROVE KeepsSegments(m, call)
 <2>1. call = MemberFromGeometry(m, env, s)
   BY <1>1, <1>5 DEF Execute
 <2> QED BY <2>1, MemberFromGeometryKeeps
<1>6. ASSUME s.op = "axis" PROVE KeepsSegments(m, call)
 <2>1. call = MemberAxis(m, env, s)
   BY <1>1, <1>6 DEF Execute
 <2> QED BY <2>1, MemberAxisKeeps
<1>7. ASSUME s.op = "connect" PROVE KeepsSegments(m, call)
 <2>1. call = ConnectParts(m, env, s)
   BY <1>1, <1>7 DEF Execute
 <2> QED BY <2>1, ConnectPartsKeeps
<1>8. ASSUME s.op = "joint" PROVE KeepsSegments(m, call)
 <2>1. call = JointFromGeometry(m, env, s)
   BY <1>1, <1>8 DEF Execute
 <2> QED BY <2>1, JointKeeps
<1>9. ASSUME s.op = "restraint" PROVE KeepsSegments(m, call)
 <2>1. call = RestraintFromConnection(m, env, s)
   BY <1>1, <1>9 DEF Execute
 <2> QED BY <2>1, RestraintKeeps
<1>10. ASSUME s.op = "boundary" PROVE KeepsSegments(m, call)
 <2>1. call = BoundaryRestraint(m, env, s)
   BY <1>1, <1>10 DEF Execute
 <2> QED BY <2>1, BoundaryKeeps
<1>11. ASSUME s.op = "stability" PROVE KeepsSegments(m, call)
 <2>1. call = Stability(m, s)
   BY <1>1, <1>11 DEF Execute
 <2> QED BY <2>1, StabilityKeeps
<1>12. ASSUME s.op = "cross section" PROVE KeepsSegments(m, call)
 <2>1. call = CrossSection(m, env, s)
   BY <1>1, <1>12 DEF Execute
 <2> QED BY <2>1, CrossSectionKeeps
<1>13. ASSUME s.op = "wind" PROVE KeepsSegments(m, call)
 <2>1. call = WindBasis(m, s)
   BY <1>1, <1>13 DEF Execute
 <2> QED BY <2>1, WindBasisKeeps
<1>14. ASSUME s.op = "material" PROVE KeepsSegments(m, call)
 <2>1. call = Material(m, s)
   BY <1>1, <1>14 DEF Execute
 <2> QED BY <2>1, MaterialKeeps
<1>15. ASSUME s.op = "section" PROVE KeepsSegments(m, call)
 <2>1. call = Section(m, s)
   BY <1>1, <1>15 DEF Execute
 <2> QED BY <2>1, SectionKeeps
<1>16. ASSUME s.op = "catalogue" PROVE KeepsSegments(m, call)
 <2>1. call = SectionFromCatalog(m, s)
   BY <1>1, <1>16 DEF Execute
 <2> QED BY <2>1, SectionFromCatalogKeeps
<1>17. ASSUME s.op = "ensure" PROVE KeepsSegments(m, call)
 <2>1. call = EnsureFromCatalog(m, s)
   BY <1>1, <1>17 DEF Execute
 <2> QED BY <2>1, EnsureFromCatalogKeeps
<1>18. ASSUME s.op = "surface load" PROVE KeepsSegments(m, call)
 <2>1. call = SurfaceLoad(m, env, s)
   BY <1>1, <1>18 DEF Execute
 <2> QED BY <2>1, SurfaceLoadKeeps
<1>19. ASSUME s.op = "wind load" PROVE KeepsSegments(m, call)
 <2>1. call = WindLoad(m, env, s)
   BY <1>1, <1>19 DEF Execute
 <2> QED BY <2>1, LoadsKeep
<1>20. ASSUME s.op = "distribute" PROVE KeepsSegments(m, call)
 <2>1. call = Distribute(m, env, s)
   BY <1>1, <1>20 DEF Execute
 <2> QED BY <2>1, DistributeKeeps
<1>21. ASSUME s.op = "uniform" PROVE KeepsSegments(m, call)
 <2>1. call = DistributeUniform(m, env, s)
   BY <1>1, <1>21 DEF Execute
 <2> QED BY <2>1, LoadsKeep
<1>22. ASSUME s.op = "point load" PROVE KeepsSegments(m, call)
 <2>1. call = PointLoad(m, env, s)
   BY <1>1, <1>22 DEF Execute
 <2> QED BY <2>1, PointLoadKeeps
<1>23. ASSUME s.op = "line load" PROVE KeepsSegments(m, call)
 <2>1. call = DistributedLoad(m, env, s)
   BY <1>1, <1>23 DEF Execute
 <2> QED BY <2>1, LoadsKeep
<1>24. ASSUME s.op = "self weight" PROVE KeepsSegments(m, call)
 <2>1. call = SelfWeight(m, env, s)
   BY <1>1, <1>24 DEF Execute
 <2> QED BY <2>1, LoadsKeep
<1>25. ASSUME s.op = "combination" PROVE KeepsSegments(m, call)
 <2>1. call = LoadCombination(m, s)
   BY <1>1, <1>25 DEF Execute
 <2> QED BY <2>1, LoadCombinationKeeps
<1>26. ASSUME s.op = "assembly" PROVE KeepsSegments(m, call)
 <2>1. call = Assembly(m, env, s)
   BY <1>1, <1>26 DEF Execute
 <2> QED BY <2>1, AssemblyKeeps
<1>27. ASSUME s.op = "manifest" PROVE KeepsSegments(m, call)
 <2>1. call = Manifest(m)
   BY <1>1, <1>27 DEF Execute
 <2> QED BY <2>1, ManifestKeeps
<1>28. ASSUME s.op = "alias" PROVE KeepsSegments(m, call)
 <2>1. call = AliasOf(m, env, s)
   BY <1>1, <1>28 DEF Execute, AliasOf
 <2> QED BY <2>1, AliasKeeps
<1> QED BY <1>1, <1>2, <1>3, <1>4, <1>5, <1>6, <1>7, <1>8, <1>9, <1>10, <1>11, <1>12, <1>13,
         <1>14, <1>15, <1>16, <1>17, <1>18, <1>19, <1>20, <1>21, <1>22, <1>23,
         <1>24, <1>25, <1>26, <1>27, <1>28 DEF Ops

----
(* Segments between restraints tile their member, in every model of a run.  *)

\* A derived segment is one of the member that it names.
SegmentsOK(m) ==
    \A v \in ToSet(m.memberStability) :
        /\ \A g \in ToSet(v.segments) : g.id[1] = "segment" => g.id[2] = g.member
        /\ \A axis \in ToSet(m.members) : IsDerived(v, axis) => Tiled(v, axis)

LEMMA SegmentsStay ==
    ASSUME NEW m, NEW n, ModelOK(m), ModelOK(n), Grows(m, n), SegmentsOK(m),
           n.memberStability = m.memberStability
    PROVE  SegmentsOK(n)
<1>1. SUFFICES ASSUME NEW v \in ToSet(m.memberStability)
               PROVE  /\ \A g \in ToSet(v.segments) : g.id[1] = "segment" => g.id[2] = g.member
                      /\ \A axis \in ToSet(n.members) : IsDerived(v, axis) => Tiled(v, axis)
  BY DEF SegmentsOK
<1>2. \A g \in ToSet(v.segments) : g.id[1] = "segment" => g.id[2] = g.member
  BY DEF SegmentsOK
<1>3. PICK old, new : old = m.members /\ new = n.members
  OBVIOUS
<1>4. IsRegister(new) /\ ToSet(old) \subseteq ToSet(new)
  BY <1>3, FieldsAre, FieldsGrow DEF ModelOK
<1>5. ASSUME NEW axis \in ToSet(new), IsDerived(v, axis) PROVE Tiled(v, axis)
 <2>1. PICK g \in ToSet(v.segments) : g.id = <<"segment", axis.id, 1>>
   BY <1>5 DEF IsDerived
 <2>2. g.id[1] = "segment" /\ g.id[2] = axis.id
   BY <2>1
 <2>3. g.member = axis.id
   BY <1>2, <2>2
 <2>4. SegmentOK(m, g)
   BY DEF ModelOK, OptionsOK, BucklingOK
 <2>5. PICK x \in ToSet(old) : x.id = axis.id
   BY <1>3, <2>3, <2>4 DEF SegmentOK, IdsOf
 <2>6. x = axis
   BY <1>4, <2>5, RegisterIds
 <2> QED BY <1>3, <1>5, <2>5, <2>6 DEF SegmentsOK
<1> QED BY <1>2, <1>3, <1>5

\* The segments that are derived as the verification is declared.
LEMMA DerivedTile ==
    ASSUME NEW m, ModelOK(m), NEW axes, NEW n \in Nat, DOMAIN axes = 1..n,
           \A i \in 1..n : axes[i] \in ToSet(m.members), NEW axis \in ToSet(m.members),
           NEW v, v.segments = AllSegments(m, axes), ToSet(v.candidates) \subseteq ToSet(m.candidates),
           IsDerived(v, axis)
    PROVE  Tiled(v, axis)
<1>1. PICK d : d = DerivedSegments(m, axis)
  OBVIOUS
<1>2. PICK members : members = m.members
  OBVIOUS
<1>3. \A x, y \in ToSet(members) : x.id = y.id => x = y
 <2>1. IsRegister(members)
   BY <1>2, FieldsAre DEF ModelOK
 <2> QED BY <2>1, RegisterIds
<1>4. \A g : g \in ToSet(v.segments) <=> \E i \in 1..n : g \in ToSet(DerivedSegments(m, axes[i]))
  BY SegmentsAre
<1>5. ASSUME NEW i \in 1..n, NEW g \in ToSet(DerivedSegments(m, axes[i])), g.member = axis.id
      PROVE  axes[i] = axis
 <2>1. PICK x : x = axes[i]
   OBVIOUS
 <2>2. x \in ToSet(m.members) /\ g \in ToSet(DerivedSegments(m, x))
   BY <2>1
 <2>3. g.member = x.id
   BY <2>2, AxisTiles
 <2> QED BY <1>2, <1>3, <1>5, <2>1, <2>2, <2>3
<1>6. PICK k \in 1..n : axes[k] = axis
 <2>1. PICK g \in ToSet(v.segments) : g.id = <<"segment", axis.id, 1>>
   BY DEF IsDerived
 <2>2. PICK i \in 1..n : g \in ToSet(DerivedSegments(m, axes[i]))
   BY <1>4, <2>1
 <2>3. PICK x : x = axes[i]
   OBVIOUS
 <2>4. x \in ToSet(m.members) /\ g \in ToSet(DerivedSegments(m, x))
   BY <2>2, <2>3
 <2>5. g.member = x.id /\ \E j \in Int : g.id = <<"segment", x.id, j>>
   BY <2>4, AxisTiles
 <2>6. x.id = axis.id
   BY <2>1, <2>5
 <2> QED BY <1>5, <2>2, <2>5, <2>6
<1>7. PICK own, segments :
          /\ segments = {g \in ToSet(v.segments) : g.member = axis.id}
          /\ own = {c \in ToSet(v.candidates) : c.member = axis.id}
  OBVIOUS
<1>8. segments = ToSet(d)
 <2>1. ASSUME NEW g \in segments PROVE g \in ToSet(d)
  <3>1. PICK i \in 1..n : g \in ToSet(DerivedSegments(m, axes[i]))
    BY <1>4, <1>7
  <3>2. axes[i] = axis
    BY <1>5, <1>7, <3>1
  <3> QED BY <1>1, <3>1, <3>2
 <2>2. ASSUME NEW g \in ToSet(d) PROVE g \in segments
  <3>1. g \in ToSet(v.segments)
    BY <1>1, <1>4, <1>6
  <3>2. g.member = axis.id
    BY <1>1, AxisTiles
  <3> QED BY <1>7, <3>1, <3>2
 <2> QED BY <2>1, <2>2
<1>9. ToSet(d) # {}
 <2>1. PICK g \in ToSet(v.segments) : g.id = <<"segment", axis.id, 1>>
   BY DEF IsDerived
 <2>2. PICK i \in 1..n : g \in ToSet(DerivedSegments(m, axes[i]))
   BY <1>4, <2>1
 <2>3. PICK x : x = axes[i]
   OBVIOUS
 <2>4. x \in ToSet(m.members) /\ g \in ToSet(DerivedSegments(m, x))
   BY <2>2, <2>3
 <2>5. g.member = x.id /\ \E j \in Int : g.id = <<"segment", x.id, j>>
   BY <2>4, AxisTiles
 <2>6. g \in segments
   BY <1>7, <2>1, <2>5
 <2> QED BY <1>8, <2>6
<1>10. Tiles(axis, OwnOf(m, axis), segments)
 <2>1. Tiles(axis, OwnOf(m, axis), ToSet(d))
   BY <1>1, <1>9, AxisTiles
 <2> QED BY <1>8, <2>1
<1>11. own \subseteq OwnOf(m, axis)
  BY <1>7 DEF OwnOf
<1>12. Tiles(axis, own, segments)
  BY <1>10, <1>11 DEF Tiles
<1> QED BY <1>7, <1>12 DEF Tiles, Tiled

LEMMA MemberStabilityTiles ==
    ASSUME NEW m, ModelOK(m), SegmentsOK(m), NEW env, NEW s, IsStatement(s)
    PROVE  SegmentsOK(MemberStability(m, env, s).model)
<1> DEFINE axes == [i \in DOMAIN s.members |-> TheAxis(m, env, s.members[i])]
           segments == IF s.segments # <<>> THEN s.segments
                       ELSE AllSegments(m, axes)
           G == /\ m.memberStability = <<>> /\ s.flaw = "none"
                /\ s.combos # <<>> /\ AllDiffer(s.combos)
                /\ (s.segments = <<>>) # (s.members = <<>>)
                /\ \A i \in DOMAIN s.members : AxisOf(m, env, s.members[i]) # {}
                /\ AllDiffer(axes) /\ segments # <<>>
                /\ AllDiffer([i \in DOMAIN segments |-> segments[i].id])
                /\ \A g \in ToSet(segments) : SegmentIsOf(m, g)
           v == [combos |-> s.combos, segments |-> segments, sound |-> TRUE,
                 candidates |-> CandidatesOf(m.candidates, segments)]
           k == [m EXCEPT !.memberStability = <<v>>]
<1>1. MemberStability(m, env, s) = IF G THEN Done(k, "none", "none") ELSE Refused(m)
  BY DEF MemberStability, Take
<1>2. G => \A i \in DOMAIN s.members : AxisOf(m, env, s.members[i]) # {}
  OBVIOUS
<1>3. PICK ax, seg : ax = axes /\ seg = segments
  OBVIOUS
<1>4. /\ DOMAIN ax = DOMAIN s.members
      /\ \A i \in DOMAIN s.members : ax[i] = TheAxis(m, env, s.members[i])
      /\ seg = IF s.segments # <<>> THEN s.segments ELSE AllSegments(m, ax)
  BY <1>3
<1>5. PICK w, list : w = v /\ list = m.candidates
  OBVIOUS
<1>6. w.segments = seg /\ w.candidates = CandidatesOf(list, seg)
  BY <1>3, <1>5
<1>7. PICK x : x = k
  OBVIOUS
<1>8. x.memberStability = <<w>> /\ x.members = m.members
  BY <1>5, <1>7 DEF ModelOK, IsModel, ModelFields
<1>9. G => MemberStability(m, env, s).model = x
  BY <1>1, <1>7 DEF Done
<1>10. ~G => MemberStability(m, env, s).model = m
  BY <1>1 DEF Refused
<1> HIDE DEF G, v, k, segments, axes
<1>11. CASE G
 <2>1. IsRegister(list)
   BY <1>5, FieldsAre DEF ModelOK
 <2>2. ToSet(w.candidates) \subseteq ToSet(m.candidates)
   BY <1>5, <1>6, <2>1, KeptIs
 <2>3. CASE s.segments # <<>>
  <3>1. seg = s.segments
    BY <1>4, <2>3
  <3>2. \A g \in ToSet(w.segments) : g.id[1] # "segment"
    BY <1>6, <3>1 DEF IsStatement
  <3>3. ASSUME NEW axis, IsDerived(w, axis) PROVE FALSE
   <4>1. PICK g \in ToSet(w.segments) : g.id = <<"segment", axis.id, 1>>
     BY <3>3 DEF IsDerived
   <4>2. g.id[1] = "segment"
     BY <4>1
   <4> QED BY <3>2, <4>2
  <3>4. ToSet(x.memberStability) = {w}
    BY <1>8, OnlyOne
  <3>5. SegmentsOK(x)
    BY <3>2, <3>3, <3>4 DEF SegmentsOK
  <3> QED BY <1>9, <1>11, <3>5
 <2>4. CASE s.segments = <<>>
  <3>1. seg = AllSegments(m, ax)
    BY <1>4, <2>4
  <3>2. PICK n \in Nat : DOMAIN s.members = 1..n
   <4>1. s.members \in Seq(STRING)
     BY DEF IsStatement
   <4> QED BY <4>1
  <3>3. ASSUME NEW i \in 1..n PROVE ax[i] \in ToSet(m.members)
   <4>1. PICK name : name = s.members[i]
     OBVIOUS
   <4>2. AxisOf(m, env, name) # {} /\ ax[i] = TheAxis(m, env, name)
     BY <1>2, <1>4, <1>11, <3>2, <4>1
   <4> QED BY <4>2 DEF TheAxis, AxisOf
  <3>4. \A axis \in ToSet(m.members) : IsDerived(w, axis) => Tiled(w, axis)
    BY <1>4, <1>6, <2>2, <3>1, <3>2, <3>3, DerivedTile
  <3>5. ASSUME NEW g \in ToSet(w.segments) PROVE g.id[2] = g.member
   <4>1. PICK i \in 1..n : g \in ToSet(DerivedSegments(m, ax[i]))
     BY <1>4, <1>6, <3>1, <3>2, <3>3, SegmentsAre
   <4>2. PICK axis : axis = ax[i]
     OBVIOUS
   <4>3. axis \in ToSet(m.members) /\ g \in ToSet(DerivedSegments(m, axis))
     BY <3>3, <4>1, <4>2
   <4>4. PICK j \in Int : g.member = axis.id /\ g.id = <<"segment", axis.id, j>>
     BY <4>3, AxisTiles
   <4> QED BY <4>4
  <3>6. ToSet(x.memberStability) = {w}
    BY <1>8, OnlyOne
  <3>7. SegmentsOK(x)
    BY <1>8, <3>4, <3>5, <3>6 DEF SegmentsOK
  <3> QED BY <1>9, <1>11, <3>7
 <2> QED BY <2>3, <2>4
<1>12. CASE ~G
  BY <1>10, <1>12
<1> QED BY <1>11, <1>12

LEMMA ExecuteTiles ==
    ASSUME NEW m, ModelOK(m), SegmentsOK(m), NEW env, EnvOK(m, env), NEW s, IsStatement(s)
    PROVE  SegmentsOK(Execute(m, env, s).model)
<1>1. PICK call, n : call = Execute(m, env, s) /\ n = call.model
  OBVIOUS
<1>2. CASE s.op = "member stability"
 <2>1. call = MemberStability(m, env, s)
   BY <1>1, <1>2 DEF Execute
 <2> QED BY <1>1, <2>1, MemberStabilityTiles
<1>3. CASE s.op # "member stability"
 <2>1. CallOK(m, call)
   BY <1>1, ExecuteOK
 <2>2. ModelOK(n) /\ Grows(m, n)
   BY <1>1, <2>1 DEF CallOK
 <2>3. DOMAIN m = ModelFields /\ s.op \in Ops
   BY DEF ModelOK, IsModel, IsStatement
 <2>4. n.memberStability = m.memberStability
   BY <1>1, <1>3, <2>3, ExecuteKeeps DEF KeepsSegments
 <2> QED BY <1>1, <2>2, <2>4, SegmentsStay
<1> QED BY <1>2, <1>3

\* What a run carries through its calls.
TilesInv ==
    /\ RunOK(run) /\ SegmentsOK(run.model)
    /\ design_ \in Scripted /\ line \in Nat \ {0}

LEMMA TilesStep ==
    ASSUME TilesInv, [AuthoringNext]_authoringVars
    PROVE  TilesInv'
<1>1. CASE WriteNext
 <2>1. /\ line <= Len(Statements(design_)) /\ line \in Nat \ {0} /\ design_ \in Scripted
       /\ Len(Statements(design_)) \in Nat
   BY <1>1, StatementsAssumption DEF WriteNext, TilesInv
 <2>2. PICK written : written = Statements(design_)[line]
   OBVIOUS
 <2>3. PICK s \in Chosen(written), again \in BOOLEAN :
           TakeStatement(s) /\ line' = IF again THEN line ELSE line + 1
   BY <1>1, <2>2 DEF WriteNext
 <2>4. s \in {written.own} \cup written.others
   BY <2>3 DEF Chosen
 <2>5. line \in DOMAIN Statements(design_)
   BY <2>1, StatementsAssumption
 <2>6. IsStatement(s)
   BY <2>1, <2>2, <2>4, <2>5, StatementsAssumption
 <2>7. PICK m, env : m = run.model /\ env = run.env
   OBVIOUS
 <2>8. PICK call : call = Execute(m, env, s)
   OBVIOUS
 <2>9. run' = AfterCall(s, call)
   BY <2>3, <2>7, <2>8 DEF TakeStatement
 <2>10. RunOK(run')
   BY <2>6, <2>7, <2>8, <2>9, AfterCallOK DEF TilesInv
 <2>11. ModelOK(m) /\ EnvOK(m, env) /\ SegmentsOK(m)
   BY <2>7 DEF TilesInv, RunOK
 <2>12. SegmentsOK(call.model)
   BY <2>6, <2>8, <2>11, ExecuteTiles
 <2>13. run'.model = m \/ run'.model = call.model
  <3>1. DOMAIN run = {"status", "model", "env", "manifest"}
    BY DEF TilesInv, RunOK
  <3>2. CASE run.status = "running" /\ call.ok
   <4>1. PICK e, made : run' = [run EXCEPT !.model = call.model, !.env = e, !.manifest = made]
     BY <2>9, <3>2 DEF AfterCall
   <4> QED BY <3>1, <4>1
  <3>3. CASE ~(run.status = "running" /\ call.ok)
    BY <2>7, <2>9, <3>1, <3>3 DEF AfterCall
  <3> QED BY <3>2, <3>3
 <2>14. SegmentsOK(run'.model)
   BY <2>11, <2>12, <2>13
 <2>15. line' \in Nat \ {0} /\ design_' = design_
   BY <1>1, <2>1, <2>3 DEF WriteNext
 <2> QED BY <2>1, <2>10, <2>14, <2>15 DEF TilesInv
<1>2. CASE LeaveOut
  BY <1>2 DEF LeaveOut, TilesInv
<1>3. CASE CaptureBoth
  BY <1>3 DEF CaptureBoth, TilesInv
<1>4. CASE UNCHANGED authoringVars
  BY <1>4 DEF authoringVars, TilesInv
<1> QED BY <1>1, <1>2, <1>3, <1>4 DEF AuthoringNext

LEMMA TilesStart == ASSUME AuthoringInit PROVE TilesInv
<1>1. PICK m, e : m = NewModel /\ e = <<>>
  OBVIOUS
<1>2. run = [status |-> "running", model |-> m, env |-> e, manifest |-> e]
  BY <1>1 DEF AuthoringInit
<1>3. EnvOK(m, e)
  BY <1>1 DEF EnvOK
<1>4. RunOK(run)
  BY <1>1, <1>2, <1>3, NewModelOK DEF RunOK
<1>5. m.memberStability = <<>>
  BY <1>1 DEF NewModel
<1>6. SegmentsOK(m)
  BY <1>5, EmptyList DEF SegmentsOK
<1> QED BY <1>2, <1>4, <1>6 DEF TilesInv, AuthoringInit

\* What a declaration derives is what it declares: in every state of every design, the
\* captured path of a load is a chain of connections to the ground, there is one when
\* the ground can be reached, and the segments derived from the restraints of a member
\* tile it (design_capture.py, contracts.py and authoring_runtime.py).
THEOREM DerivedCorrect == AuthoringSpec => []DeclaredIsDerived
<1>1. AuthoringInit => PathsInv /\ TilesInv
  BY PathsStart, TilesStart
<1>2. PathsInv /\ TilesInv /\ [AuthoringNext]_authoringVars => PathsInv' /\ TilesInv'
  BY PathsStep, TilesStep
<1>3. PathsInv /\ TilesInv => DeclaredIsDerived
  BY DEF PathsInv, TilesInv, SegmentsOK, DerivedSegmentsTile, DeclaredIsDerived
<1> QED BY <1>1, <1>2, <1>3, PTL DEF AuthoringSpec

===============================================================================
