------------------------ MODULE ReconcileDriverProofs ------------------------
(***************************************************************************)
(* Theorems about the driver for any shards, policies, upstreams, failures *)
(* and bounds.                                                             *)
(***************************************************************************)
EXTENDS ReconcileDriver, NaturalsInduction, WellFoundedInduction, TLAPS

\* A sequence of whatever it holds.
IsSeq(q) == q \in Seq(ToSet(q))

\* What a pod has planned for a policy: its own destinations, and all or none of them.
PlannedFor(e, p) ==
    /\ e.name = p.name /\ e.kind = p.source.kind
    /\ IsSeq(e.targets)
    /\ \A t \in ToSet(e.targets) : t.repo \in DestRepos(p)
    /\ e.targets = <<>> <=> Destinations(p) = <<>>

-----------------------------------------------------------------------------
(* The inductive invariant.                                                *)

Stages == {"gone", "waiting", "plan", "read", "write", "done", "stopped"}

\* A policy and a destination, both counted from one.
Indices == (Nat \ {0}) \X (Nat \ {0})

TypeInv ==
    /\ files \in DOMAIN PolicySets /\ job \in BOOLEAN
    /\ stage \in [Shards -> Stages] /\ seen \in [Shards -> DOMAIN PolicySets]
    /\ at \in [Shards -> Indices]
    /\ DOMAIN plans = Shards /\ DOMAIN ops = Shards /\ DOMAIN report = Shards
    /\ DOMAIN exit = Shards /\ DOMAIN wrote = Shards

\* A pod has planned its batch as far as it has come, and all of it when it applies.
PlansOK(s) ==
    /\ IsSeq(plans[s])
    /\ stage[s] \in {"gone", "waiting"} => plans[s] = <<>>
    /\ \A k \in DOMAIN plans[s] : k \in DOMAIN Batch(s) /\ PlannedFor(plans[s][k], Batch(s)[k])
    /\ stage[s] \in {"read", "write", "done"} => Len(plans[s]) = Len(Batch(s))

\* Whoever plans or applies has accepted the policies, which are those in git, unless there
\* are commits during a job.
SeenOK(s) ==
    /\ ~job => stage[s] = "gone"
    /\ stage[s] \in {"plan", "read", "write"} => Refused(s, seen[s]) = 0
    /\ ~EditsMidJob /\ stage[s] \notin {"gone", "waiting"} => seen[s] = files

\* Nothing is written before the apply phase, nor by a run that one of its checks stopped.
WroteOK(s) ==
    /\ stage[s] \in {"gone", "waiting", "plan"} => wrote[s] = {}
    /\ stage[s] = "stopped" /\ exit[s] \in {1, 2, 3} => wrote[s] = {}

\* Policy k is in the report, if it is one that is reported.
IsTold(s, k) ==
    \/ plans[s][k].targets = <<>> /\ plans[s][k].kind = "git"
    \/ \E r \in ToSet(report[s]) : r.name = plans[s][k].name

\* An operation that placed w.
Places(o, w) == o.repo = w[1] /\ o.out = w[2] /\ o.kind = "imported" /\ o.code = 0

\* What a run placed is in the report, or in the operations of the policy it is at.
ReportOK(s) ==
    /\ IsSeq(report[s])
    /\ stage[s] = "write" => at[s][1] \in DOMAIN plans[s]
    /\ stage[s] = "done" => at[s][1] > Len(plans[s])
    /\ stage[s] \in {"read", "write", "done"} => \A k \in DOMAIN plans[s] : k < at[s][1] => IsTold(s, k)
    /\ stage[s] \in {"read", "write", "done"} => \A w \in wrote[s] :
          \/ \E r \in ToSet(report[s]) : r.name = w[3] /\ (r.status = "failed" \/ \E o \in r.ops : Places(o, w))
          \/ /\ at[s][1] \in DOMAIN plans[s] /\ w[3] = policy(s).name
             /\ \E o \in ops[s] : Places(o, w)

\* Operations are pending only between the destinations of one policy.
OpsOK(s) ==
    /\ stage[s] = "write" => policy(s).targets # <<>>
    /\ \/ ops[s] = {} /\ (stage[s] \in {"read", "write"} => at[s][2] = 1)
       \/ /\ stage[s] \in {"read", "write"} /\ at[s][1] \in DOMAIN plans[s]
          /\ at[s][2] <= Len(policy(s).targets)

PodOK(s) == PlansOK(s) /\ SeenOK(s) /\ WroteOK(s) /\ ReportOK(s) /\ OpsOK(s)

Inv == TypeInv /\ \A s \in Shards : PodOK(s)

-----------------------------------------------------------------------------
(* Sequences.                                                              *)

\* Every set of naturals that is not empty has a least element.
LEMMA NatLeast ==
  ASSUME NEW T \in SUBSET Nat, T # {}
  PROVE  \E x \in T : \A y \in T : x <= y
<1>1. PICK x \in T : \A y \in T : ~ (<<y, x>> \in OpToRel(<, Nat))
  BY NatLessThanWellFounded, WFMin, Zenon
<1>2. \A y \in T : ~ (y < x)
  BY <1>1 DEF OpToRel
<1>3. QED
  BY <1>2

\* Concatenation, element by element.
LEMMA Concat ==
  ASSUME NEW S, NEW a \in Seq(S), NEW b \in Seq(S)
  PROVE  a \o b \in Seq(S) /\ ToSet(a \o b) = ToSet(a) \cup ToSet(b)
<1>1. a \o b \in Seq(S) /\ Len(a \o b) = Len(a) + Len(b)
  OBVIOUS
<1>2. \A i \in DOMAIN a : i \in DOMAIN (a \o b) /\ (a \o b)[i] = a[i]
  OBVIOUS
<1>3. \A i \in DOMAIN b : Len(a) + i \in DOMAIN (a \o b) /\ (a \o b)[Len(a) + i] = b[i]
  OBVIOUS
<1>4. \A i \in DOMAIN (a \o b) : \/ i \in DOMAIN a /\ (a \o b)[i] = a[i]
                                 \/ i - Len(a) \in DOMAIN b /\ (a \o b)[i] = b[i - Len(a)]
  OBVIOUS
<1>5. ToSet(a \o b) \subseteq ToSet(a) \cup ToSet(b)
  BY <1>4 DEF ToSet
<1>6. ToSet(a) \cup ToSet(b) \subseteq ToSet(a \o b)
  <2>1. ToSet(a) \subseteq ToSet(a \o b)
    BY <1>2, Zenon DEF ToSet
  <2>2. ToSet(b) \subseteq ToSet(a \o b)
    BY <1>3, Zenon DEF ToSet
  <2>3. QED
    BY <2>1, <2>2
<1>7. QED
  BY <1>1, <1>5, <1>6

\* f is what FlattenSeq computes, up to m.
Flat(f, seqs, m) == f = [i \in 1 .. m |-> IF i = 1 THEN seqs[i] ELSE f[i - 1] \o seqs[i]]

LEMMA FlatExists ==
  ASSUME NEW S, NEW seqs \in Seq(Seq(S)), NEW n \in Nat, n <= Len(seqs)
  PROVE  \E f : Flat(f, seqs, n)
<1> DEFINE T == {m \in 0 .. Len(seqs) : ~ \E f : Flat(f, seqs, m)}
<1> SUFFICES ASSUME T # {} PROVE FALSE
  <2>1. n \in 0 .. Len(seqs)
    OBVIOUS
  <2>2. QED
    BY <2>1
<1>1. T \in SUBSET Nat
  OBVIOUS
<1>2. PICK m \in T : \A y \in T : m <= y
  BY <1>1, NatLeast
<1>3. m # 0
  <2>1. Flat([i \in 1 .. 0 |-> 0], seqs, 0)
    BY DEF Flat
  <2>2. QED
    BY <1>2, <2>1
<1>4. m - 1 \in 0 .. Len(seqs) /\ m - 1 \notin T
  <2>1. m \in 0 .. Len(seqs) /\ Len(seqs) \in Nat
    OBVIOUS
  <2>2. m - 1 \in 0 .. Len(seqs) /\ ~ (m <= m - 1)
    BY <1>3, <2>1
  <2>3. QED
    BY <1>2, <2>2
<1>5. PICK f : Flat(f, seqs, m - 1)
  BY <1>4
<1> DEFINE g == [i \in 1 .. m |-> IF i = m THEN (IF m = 1 THEN seqs[m] ELSE f[m - 1] \o seqs[m]) ELSE f[i]]
<1>6. \A i \in 1 .. m : g[i] = IF i = 1 THEN seqs[i] ELSE g[i - 1] \o seqs[i]
  <2> SUFFICES ASSUME NEW i \in 1 .. m PROVE g[i] = IF i = 1 THEN seqs[i] ELSE g[i - 1] \o seqs[i]
    OBVIOUS
  <2>1. CASE i = m
    <3>1. i # 1 => g[i - 1] = f[i - 1]
      BY <1>1, <2>1
    <3>2. QED
      BY <2>1, <3>1
  <2>2. CASE i # m
    <3>1. i \in 1 .. (m - 1) /\ g[i] = f[i]
      BY <1>1, <2>2
    <3>2. f[i] = IF i = 1 THEN seqs[i] ELSE f[i - 1] \o seqs[i]
      BY <1>5, <3>1 DEF Flat
    <3>3. i # 1 => g[i - 1] = f[i - 1]
      BY <1>1, <3>1
    <3>4. QED
      BY <3>1, <3>2, <3>3
  <2>3. QED
    BY <2>1, <2>2
<1>7. g = [i \in 1 .. m |-> g[i]]
  OBVIOUS
<1> HIDE DEF g
<1>8. Flat(g, seqs, m)
  BY <1>6, <1>7 DEF Flat
<1>9. QED
  BY <1>2, <1>8

\* Flattening keeps the elements and adds none.
LEMMA FlattenFacts ==
  ASSUME NEW S, NEW seqs \in Seq(Seq(S))
  PROVE  /\ FlattenSeq(seqs) \in Seq(S)
         /\ ToSet(FlattenSeq(seqs)) = UNION {ToSet(seqs[i]) : i \in DOMAIN seqs}
<1>1. CASE Len(seqs) = 0
  <2>1. seqs = <<>> /\ FlattenSeq(seqs) = seqs
    BY <1>1 DEF FlattenSeq
  <2>2. DOMAIN seqs = {} /\ ToSet(FlattenSeq(seqs)) = {} /\ FlattenSeq(seqs) \in Seq(S)
    <3>1. DOMAIN seqs = {} /\ FlattenSeq(seqs) = <<>>
      BY <2>1
    <3>2. ToSet(<<>>) = {} /\ <<>> \in Seq(S)
      BY DEF ToSet
    <3>3. QED
      BY <3>1, <3>2
  <2>3. UNION {ToSet(seqs[i]) : i \in DOMAIN seqs} = {}
    BY <2>2
  <2>4. QED
    BY <2>2, <2>3
<1>2. CASE Len(seqs) # 0
  <2> DEFINE n == Len(seqs)
             f == CHOOSE f : f = [i \in 1 .. Len(seqs) |-> IF i = 1 THEN seqs[i] ELSE f[i - 1] \o seqs[i]]
             Good(m) == f[m] \in Seq(S) /\ ToSet(f[m]) = UNION {ToSet(seqs[i]) : i \in 1 .. m}
             T == {m \in 1 .. n : ~Good(m)}
  <2>1. FlattenSeq(seqs) = f[n]
    BY <1>2 DEF FlattenSeq
  <2>2. \A i \in 1 .. n : f[i] = IF i = 1 THEN seqs[i] ELSE f[i - 1] \o seqs[i]
    <3>1. \E h : Flat(h, seqs, n)
      BY FlatExists
    <3>2. f = [i \in 1 .. n |-> IF i = 1 THEN seqs[i] ELSE f[i - 1] \o seqs[i]]
      BY <3>1, Zenon DEF Flat
    <3> HIDE DEF f
    <3>3. QED
      BY <3>2
  <2> HIDE DEF f
  <2>3. ASSUME NEW m \in 1 .. n, m # 1 => Good(m - 1) PROVE Good(m)
    <3>1. CASE m = 1
      <4>1. f[1] = seqs[1] /\ 1 .. m = {1}
        BY <2>2, <3>1
      <4>2. QED
        BY <3>1, <4>1
    <3>2. CASE m # 1
      <4>1. f[m] = f[m - 1] \o seqs[m] /\ seqs[m] \in Seq(S) /\ f[m - 1] \in Seq(S)
        <5>1. m - 1 \in 1 .. n /\ n \in Nat /\ m \in DOMAIN seqs
          BY <3>2
        <5>2. f[m] = f[m - 1] \o seqs[m]
          BY <2>2, <3>2
        <5>3. f[m - 1] \in Seq(S)
          BY <2>3, <3>2
        <5>4. QED
          BY <5>1, <5>2, <5>3
      <4>2. f[m] \in Seq(S) /\ ToSet(f[m]) = ToSet(f[m - 1]) \cup ToSet(seqs[m])
        BY <4>1, Concat
      <4>3. 1 .. m = 1 .. (m - 1) \cup {m}
        OBVIOUS
      <4>4. ToSet(f[m - 1]) = UNION {ToSet(seqs[i]) : i \in 1 .. (m - 1)}
        BY <2>3, <3>2
      <4>5. QED
        BY <4>2, <4>3, <4>4
    <3>3. QED
      BY <3>1, <3>2
  <2>4. T = {}
    <3> SUFFICES ASSUME T # {} PROVE FALSE
      OBVIOUS
    <3>1. T \in SUBSET Nat
      OBVIOUS
    <3>2. PICK m \in T : \A y \in T : m <= y
      BY <3>1, NatLeast
    <3>3. m # 1 => m - 1 \in 1 .. n /\ m - 1 \notin T
      <4>1. m \in 1 .. n /\ n \in Nat
        OBVIOUS
      <4>2. m # 1 => m - 1 \in 1 .. n /\ ~ (m <= m - 1)
        BY <4>1
      <4>3. QED
        BY <3>2, <4>2
    <3>4. m # 1 => Good(m - 1)
      BY <3>3
    <3>5. QED
      BY <2>3, <3>2, <3>4
  <2>5. Good(n) /\ DOMAIN seqs = 1 .. n
    <3>1. n \in 1 .. n /\ DOMAIN seqs = 1 .. n
      BY <1>2
    <3>2. QED
      BY <2>4, <3>1
  <2>6. QED
    BY <2>1, <2>5
<1>3. QED
  BY <1>1, <1>2

LEMMA IsSeqOf ==
  ASSUME NEW S, NEW q \in Seq(S)
  PROVE  IsSeq(q) /\ ToSet(q) \subseteq S /\ (q = <<>> <=> ToSet(q) = {})
<1>1. \A i \in 1 .. Len(q) : q[i] \in ToSet(q) /\ q[i] \in S
  BY DEF ToSet
<1>2. DOMAIN q = 1 .. Len(q) /\ Len(q) \in Nat
  OBVIOUS
<1>3. q = [i \in 1 .. Len(q) |-> q[i]]
  OBVIOUS
<1>4. IsSeq(q)
  BY <1>1, <1>2, <1>3 DEF IsSeq
<1>5. ToSet(q) \subseteq S
  BY <1>1, <1>2 DEF ToSet
<1>6. ToSet(q) = {} => Len(q) = 0
  BY <1>1, <1>2
<1>7. q = <<>> => ToSet(q) = {}
  BY DEF ToSet
<1>8. QED
  BY <1>4, <1>5, <1>6, <1>7

LEMMA Appended ==
  ASSUME NEW q, IsSeq(q), NEW x
  PROVE  /\ IsSeq(Append(q, x)) /\ ToSet(Append(q, x)) = ToSet(q) \cup {x}
         /\ Len(Append(q, x)) = Len(q) + 1
         /\ \A k \in DOMAIN Append(q, x) : Append(q, x)[k] = IF k = Len(q) + 1 THEN x ELSE q[k]
<1> DEFINE S == ToSet(q) \cup {x}
<1>1. q \in Seq(S) /\ <<x>> \in Seq(S) /\ Append(q, x) = q \o <<x>> /\ ToSet(<<x>>) = {x}
  BY DEF IsSeq, ToSet
<1>2. Append(q, x) \in Seq(S) /\ ToSet(Append(q, x)) = ToSet(q) \cup {x}
  <2> HIDE DEF S
  <2>1. q \o <<x>> \in Seq(S) /\ ToSet(q \o <<x>>) = ToSet(q) \cup ToSet(<<x>>)
    BY <1>1, Concat
  <2>2. QED
    BY <1>1, <2>1
<1>3. Len(Append(q, x)) = Len(q) + 1
      /\ \A k \in DOMAIN Append(q, x) : Append(q, x)[k] = IF k = Len(q) + 1 THEN x ELSE q[k]
  BY DEF IsSeq
<1>4. QED
  BY <1>2, <1>3, IsSeqOf

-----------------------------------------------------------------------------
(* Policies, what is planned of them, and who owns them.                   *)

Inner(p) == [i \in DOMAIN p.imports |-> ResolveImports(p)[i].destinations]

LEMMA InnerFacts ==
  ASSUME NEW p \in Policy
  PROVE  /\ DOMAIN ResolveImports(p) = DOMAIN p.imports /\ DOMAIN p.imports = 1 .. Len(p.imports)
         /\ Len(p.imports) \in Nat
         /\ \A i \in DOMAIN p.imports : IsSeq(Inner(p)[i])
<1>1. IsPolicy(p)
  BY DriverAssumption DEF Policy, Policies
<1>2. DOMAIN p.imports = 1 .. Len(p.imports) /\ Len(p.imports) \in Nat
  BY <1>1 DEF IsPolicy
<1>3. ASSUME NEW i \in DOMAIN p.imports PROVE IsSeq(Inner(p)[i])
  <2> DEFINE x == p.imports[i]
             d == Inherited(p, x, "destinations")
  <2>1. Inner(p)[i] = ListOf(d)
    BY <1>3 DEF Inner, ResolveImports, ResolveImport
  <2>2. \A y \in {p.imports[i], p.defaults} \ {Unset} : y = p.imports[i] \/ y # Unset
    OBVIOUS
  <2>3. x \in ToSet(p.imports)
    BY <1>3 DEF ToSet
  <2>4. x.destinations = Unset \/ IsSeq(x.destinations)
    BY <1>1, <2>3 DEF IsPolicy, IsSeq
  <2>5. p.defaults # Unset => p.defaults.destinations = Unset \/ IsSeq(p.defaults.destinations)
    BY <1>1 DEF IsPolicy, IsSeq
  <2>6. d = Unset \/ IsSeq(d)
    BY <2>4, <2>5 DEF Inherited
  <2>7. IsSeq(<<>>)
    BY DEF IsSeq
  <2>8. QED
    BY <2>1, <2>6, <2>7 DEF ListOf
<1>4. QED
  BY <1>2, <1>3 DEF ResolveImports


LEMMA DestinationFacts ==
  ASSUME NEW p \in Policy
  PROVE  /\ IsSeq(Destinations(p))
         /\ ToSet(Destinations(p)) = UNION {ToSet(Inner(p)[i]) : i \in DOMAIN p.imports}
<1> DEFINE S == UNION {ToSet(Inner(p)[i]) : i \in DOMAIN p.imports}
<1>1. ASSUME NEW i \in DOMAIN p.imports PROVE Inner(p)[i] \in Seq(S)
  <2>1. Inner(p)[i] \in Seq(ToSet(Inner(p)[i])) /\ ToSet(Inner(p)[i]) \subseteq S
    BY InnerFacts DEF IsSeq
  <2> HIDE DEF S
  <2>2. QED
    BY <2>1
<1> HIDE DEF S
<1>2. Inner(p) \in Seq(Seq(S)) /\ DOMAIN Inner(p) = DOMAIN p.imports
  <2>1. Inner(p) = [i \in 1 .. Len(p.imports) |-> Inner(p)[i]] /\ Len(p.imports) \in Nat
        /\ DOMAIN p.imports = 1 .. Len(p.imports)
    BY InnerFacts DEF Inner
  <2>2. QED
    BY <1>1, <2>1
<1>3. Destinations(p) = FlattenSeq(Inner(p))
  BY DEF Destinations, Inner
<1>4. Destinations(p) \in Seq(S) /\ ToSet(Destinations(p)) = UNION {ToSet(Inner(p)[i]) : i \in DOMAIN p.imports}
  BY <1>2, <1>3, FlattenFacts
<1>5. QED
  BY <1>4, IsSeqOf

\* t is planned for a destination of an import, from the tags that the import selects.
PlannedBy(p, tags, t) ==
    \E i \in DOMAIN p.imports : \E d \in ToSet(Inner(p)[i]) :
        LET imp == ResolveImports(p)[i]
            own == SelectTags(imp.tags, tags)
        IN  \E a \in ResolveAliases(imp.tags, own) : t = Planned(p, imp, d, own, a)

\* The plans of a registry policy are for its destinations.
LEMMA PlansFacts ==
  ASSUME NEW p \in Policy, NEW tags, NEW ts \in PlansOf(p, tags)
  PROVE  /\ IsSeq(ts)
         /\ \A t \in ToSet(ts) : PlannedBy(p, tags, t)
         /\ \A t \in ToSet(ts) : t.repo \in DestRepos(p)
         /\ ts = <<>> <=> Destinations(p) = <<>>
<1> DEFINE imp(i) == ResolveImports(p)[i]
           own(i) == SelectTags(imp(i).tags, tags)
<1>1. PICK c : /\ ts = FlattenSeq([i \in DOMAIN ResolveImports(p) |->
                        [j \in DOMAIN imp(i).destinations |-> Planned(p, imp(i), imp(i).destinations[j], own(i), c[i])]])
               /\ \A i \in DOMAIN ResolveImports(p) : c[i] \in ResolveAliases(imp(i).tags, own(i))
  <2> DEFINE choices == [i \in DOMAIN ResolveImports(p) |-> ResolveAliases(imp(i).tags, own(i))]
  <2>1. PICK c : /\ ts = FlattenSeq([i \in DOMAIN ResolveImports(p) |->
                        [j \in DOMAIN imp(i).destinations |-> Planned(p, imp(i), imp(i).destinations[j], own(i), c[i])]])
                 /\ \A i \in DOMAIN ResolveImports(p) : c[i] \in choices[i]
    BY Zenon DEF PlansOf
  <2>2. \A i \in DOMAIN ResolveImports(p) : choices[i] = ResolveAliases(imp(i).tags, own(i))
    OBVIOUS
  <2>3. QED
    BY <2>1, <2>2, Zenon
<1> DEFINE row(i) == [j \in DOMAIN Inner(p)[i] |-> Planned(p, imp(i), Inner(p)[i][j], own(i), c[i])]
           rows == [i \in DOMAIN p.imports |-> row(i)]
           S == UNION {ToSet(row(i)) : i \in DOMAIN p.imports}
<1>2. \A i \in DOMAIN p.imports : Inner(p)[i] = imp(i).destinations
  BY DEF Inner
<1>3. ts = FlattenSeq(rows)
  BY <1>1, <1>2, InnerFacts
<1>4. ASSUME NEW i \in DOMAIN p.imports
      PROVE  /\ row(i) \in Seq(S)
             /\ ToSet(row(i)) = {Planned(p, imp(i), d, own(i), c[i]) : d \in ToSet(Inner(p)[i])}
  <2>1. Inner(p)[i] \in Seq(ToSet(Inner(p)[i]))
    BY InnerFacts DEF IsSeq
  <2>2. DOMAIN Inner(p)[i] = 1 .. Len(Inner(p)[i]) /\ Len(Inner(p)[i]) \in Nat
    BY <2>1
  <2>3. DOMAIN row(i) = DOMAIN Inner(p)[i] /\ \A j \in DOMAIN Inner(p)[i] : row(i)[j] = Planned(p, imp(i), Inner(p)[i][j], own(i), c[i])
    OBVIOUS
  <2>4. ToSet(row(i)) \subseteq S
    OBVIOUS
  <2>5. \A j \in DOMAIN Inner(p)[i] : row(i)[j] \in S
    BY <2>3, <2>4 DEF ToSet
  <2>6. row(i) = [j \in 1 .. Len(Inner(p)[i]) |-> row(i)[j]]
    BY <2>2
  <2> HIDE DEF row, S, own, imp
  <2>7. row(i) \in Seq(S)
    BY <2>2, <2>5, <2>6
  <2>8. QED
    BY <2>3, <2>7 DEF ToSet
<1> HIDE DEF row, S
<1>5. rows \in Seq(Seq(S)) /\ DOMAIN rows = DOMAIN p.imports /\ \A i \in DOMAIN p.imports : rows[i] = row(i)
  BY <1>4, InnerFacts
<1> HIDE DEF rows, own, imp
<1>6. ts \in Seq(S) /\ ToSet(ts) = UNION {ToSet(row(i)) : i \in DOMAIN p.imports}
  <2>1. ts \in Seq(S) /\ ToSet(ts) = UNION {ToSet(rows[i]) : i \in DOMAIN rows}
    BY <1>3, <1>5, FlattenFacts
  <2>2. QED
    BY <1>5, <2>1
<1>7. IsSeq(ts) /\ (ts = <<>> <=> ToSet(ts) = {})
  BY <1>6, IsSeqOf
<1>8. \A t \in ToSet(ts) : \E i \in DOMAIN p.imports : \E d \in ToSet(Inner(p)[i]) : t = Planned(p, imp(i), d, own(i), c[i])
  BY <1>4, <1>6
<1>9. \A t \in ToSet(ts) : \E i \in DOMAIN p.imports : \E d \in ToSet(Inner(p)[i]) :
          \E a \in ResolveAliases(imp(i).tags, own(i)) : t = Planned(p, imp(i), d, own(i), a)
  <2> SUFFICES ASSUME NEW t \in ToSet(ts)
               PROVE  \E i \in DOMAIN p.imports : \E d \in ToSet(Inner(p)[i]) :
                         \E a \in ResolveAliases(imp(i).tags, own(i)) : t = Planned(p, imp(i), d, own(i), a)
    OBVIOUS
  <2>1. PICK i \in DOMAIN p.imports : \E d \in ToSet(Inner(p)[i]) : t = Planned(p, imp(i), d, own(i), c[i])
    BY <1>8
  <2>2. PICK d \in ToSet(Inner(p)[i]) : t = Planned(p, imp(i), d, own(i), c[i])
    BY <2>1
  <2>3. c[i] \in ResolveAliases(imp(i).tags, own(i))
    BY <1>1, InnerFacts
  <2>4. QED
    BY <2>2, <2>3
<1>10. \A t \in ToSet(ts) : t.repo \in DestRepos(p)
  <2> SUFFICES ASSUME NEW t \in ToSet(ts) PROVE t.repo \in DestRepos(p)
    OBVIOUS
  <2>0. PICK i \in DOMAIN p.imports : \E d \in ToSet(Inner(p)[i]) : t = Planned(p, imp(i), d, own(i), c[i])
    BY <1>8
  <2>1. PICK d \in ToSet(Inner(p)[i]) : t = Planned(p, imp(i), d, own(i), c[i])
    BY <2>0
  <2>2. t.repo = DestRepo(d)
    BY <2>1 DEF Planned
  <2>3. d \in ToSet(Destinations(p))
    BY DestinationFacts
  <2>4. QED
    BY <2>2, <2>3 DEF DestRepos
<1>11. ToSet(ts) = {} <=> ToSet(Destinations(p)) = {}
  <2>1. ASSUME NEW i \in DOMAIN p.imports PROVE ToSet(row(i)) = {} <=> ToSet(Inner(p)[i]) = {}
    <3>1. ToSet(row(i)) = {Planned(p, imp(i), d, own(i), c[i]) : d \in ToSet(Inner(p)[i])}
      BY <1>4
    <3>2. QED
      BY <3>1
  <2>2. ToSet(ts) = {} <=> \A i \in DOMAIN p.imports : ToSet(row(i)) = {}
    BY <1>6
  <2>3. ToSet(Destinations(p)) = {} <=> \A i \in DOMAIN p.imports : ToSet(Inner(p)[i]) = {}
    BY DestinationFacts
  <2>4. QED
    BY <2>1, <2>2, <2>3
<1>12. Destinations(p) = <<>> <=> ToSet(Destinations(p)) = {}
  BY DestinationFacts, IsSeqOf DEF IsSeq
<1>13. \A t \in ToSet(ts) : PlannedBy(p, tags, t)
  BY <1>9, Zenon DEF PlannedBy, imp, own
<1>14. QED
  BY <1>7, <1>10, <1>11, <1>12, <1>13

LEMMA PlanningFits ==
  ASSUME NEW p \in Policy, NEW ts \in Plannings(p)
  PROVE  /\ IsSeq(ts) /\ (ts = <<>> <=> Destinations(p) = <<>>)
         /\ \A t \in ToSet(ts) : t.repo \in DestRepos(p)
<1>1. CASE p.source.kind = "git"
  <2> DEFINE d == Destinations(p)
  <2>1. PICK rev \in source[p.source.repo] : ts = [j \in DOMAIN d |->
            LET repo == DestRepo(d[j])
            IN  [repo |-> repo, mode |-> "none",
                 images |-> {[out |-> rev, src |-> rev, transform |-> <<>>]},
                 aliases |-> {[alias |-> p.source.ref, target |-> rev, variant |-> 1]}, mirror |-> dest[repo]]]
    BY <1>1, Zenon DEF Plannings, GitPlans
  <2>2. DOMAIN ts = DOMAIN d /\ \A j \in DOMAIN d : ts[j].repo = DestRepo(d[j])
    BY <2>1
  <2>3. d \in Seq(ToSet(d)) /\ \A j \in DOMAIN d : d[j] \in ToSet(d)
    BY DestinationFacts DEF IsSeq, ToSet
  <2>4. DOMAIN d = 1 .. Len(d) /\ Len(d) \in Nat
    BY <2>3
  <2>5. ts = [j \in 1 .. Len(d) |-> ts[j]] /\ \A j \in 1 .. Len(d) : ts[j] \in ToSet(ts)
    BY <2>1, <2>4 DEF ToSet
  <2> HIDE DEF d
  <2>6. IsSeq(ts) /\ Len(ts) = Len(d)
    BY <2>4, <2>5 DEF IsSeq
  <2>7. ts = <<>> <=> d = <<>>
    BY <2>3, <2>6 DEF IsSeq
  <2>8. \A t \in ToSet(ts) : t.repo \in DestRepos(p)
    BY <2>2, <2>3 DEF ToSet, DestRepos, d
  <2>9. QED
    BY <2>6, <2>7, <2>8 DEF d
<1>2. CASE p.source.kind # "git"
  <2>1. ts \in PlansOf(p, source[p.source.repo])
    BY <1>2 DEF Plannings
  <2>2. QED
    BY <2>1, PlansFacts
<1>3. QED
  BY <1>1, <1>2

\* A pod's batch is what it owns of the policies it has seen.
LEMMA BatchFacts ==
  ASSUME NEW s, NEW f \in DOMAIN PolicySets
  PROVE  /\ IsSeq(Batches(s, f))
         /\ ToSet(Batches(s, f)) = {p \in ToSet(Policies(f)) : Owns(s, p) /\ p.source.kind \in {"registry", "git"}}
<1> DEFINE S == ToSet(Policies(f))
           Pick(i, kind) == LET p == Policies(f)[i] IN IF Owns(s, p) /\ p.source.kind = kind THEN <<p>> ELSE <<>>
           picks(kind) == [i \in DOMAIN Policies(f) |-> Pick(i, kind)]
<1>1. DOMAIN Policies(f) = 1 .. Len(Policies(f)) /\ Len(Policies(f)) \in Nat
      /\ \A i \in DOMAIN Policies(f) : Policies(f)[i] \in S
  <2>1. Policies(f) \in Seq(S)
    BY DriverAssumption DEF Policies
  <2>2. QED
    BY <2>1 DEF ToSet
<1>2. ASSUME NEW kind
      PROVE  Handled(s, f, kind) \in Seq(S) /\ ToSet(Handled(s, f, kind)) = {p \in S : Owns(s, p) /\ p.source.kind = kind}
  <2>1. Handled(s, f, kind) = FlattenSeq(picks(kind))
    BY DEF Handled
  <2>2. ASSUME NEW i \in DOMAIN Policies(f)
        PROVE  /\ Pick(i, kind) \in Seq(S)
               /\ ToSet(Pick(i, kind)) = {p \in {Policies(f)[i]} : Owns(s, p) /\ p.source.kind = kind}
    <3> DEFINE q == Policies(f)[i]
    <3>1. q \in S
      BY <1>1
    <3> HIDE DEF q, S
    <3>2. <<q>> \in Seq(S) /\ <<>> \in Seq(S) /\ ToSet(<<q>>) = {q} /\ ToSet(<<>>) = {}
      BY <3>1 DEF ToSet
    <3>3. Pick(i, kind) = IF Owns(s, q) /\ q.source.kind = kind THEN <<q>> ELSE <<>>
      BY DEF q
    <3> HIDE DEF Pick
    <3>4. QED
      BY <3>2, <3>3 DEF q
  <2> HIDE DEF S, Pick
  <2>3. picks(kind) \in Seq(Seq(S)) /\ DOMAIN picks(kind) = DOMAIN Policies(f)
        /\ \A i \in DOMAIN Policies(f) : picks(kind)[i] = Pick(i, kind)
    BY <1>1, <2>2
  <2> HIDE DEF picks
  <2>4. /\ Handled(s, f, kind) \in Seq(S)
        /\ ToSet(Handled(s, f, kind)) = UNION {ToSet(picks(kind)[i]) : i \in DOMAIN picks(kind)}
    BY <2>1, <2>3, FlattenFacts
  <2>5. ToSet(Handled(s, f, kind)) = UNION {ToSet(Pick(i, kind)) : i \in DOMAIN Policies(f)}
    BY <2>3, <2>4
  <2>6. S = {Policies(f)[i] : i \in DOMAIN Policies(f)}
    BY DEF S, ToSet
  <2>7. ToSet(Handled(s, f, kind)) = {p \in S : Owns(s, p) /\ p.source.kind = kind}
    <3>1. \A p : p \in ToSet(Handled(s, f, kind)) <=>
                  \E i \in DOMAIN Policies(f) : p = Policies(f)[i] /\ Owns(s, p) /\ p.source.kind = kind
      BY <2>2, <2>5
    <3>2. QED
      BY <2>6, <3>1
  <2>8. QED
    BY <2>4, <2>7
<1> HIDE DEF S
<1>3. Batches(s, f) \in Seq(S)
      /\ ToSet(Batches(s, f)) = ToSet(Handled(s, f, "registry")) \cup ToSet(Handled(s, f, "git"))
  BY <1>2, Concat DEF Batches
<1>4. IsSeq(Batches(s, f))
  BY <1>3, IsSeqOf
<1>5. QED
  BY <1>2, <1>3, <1>4 DEF S

-----------------------------------------------------------------------------
(* The steps.                                                              *)

\* What a pod does leaves the others alone.
Others(s) ==
    /\ files' = files /\ job' = job
    /\ DOMAIN plans' = DOMAIN plans /\ DOMAIN ops' = DOMAIN ops /\ DOMAIN report' = DOMAIN report
    /\ DOMAIN exit' = DOMAIN exit /\ DOMAIN wrote' = DOMAIN wrote
    /\ \A u \in Shards \ {s} :
          /\ stage'[u] = stage[u] /\ seen'[u] = seen[u] /\ plans'[u] = plans[u] /\ at'[u] = at[u]
          /\ ops'[u] = ops[u] /\ report'[u] = report[u] /\ exit'[u] = exit[u] /\ wrote'[u] = wrote[u]

LEMMA OtherKept ==
  ASSUME NEW s \in Shards, NEW u \in Shards \ {s}, PodOK(u), Others(s)
  PROVE  PodOK(u)'
<1>1. /\ stage'[u] = stage[u] /\ seen'[u] = seen[u] /\ plans'[u] = plans[u] /\ at'[u] = at[u]
      /\ ops'[u] = ops[u] /\ report'[u] = report[u] /\ exit'[u] = exit[u] /\ wrote'[u] = wrote[u]
      /\ files' = files /\ job' = job
  BY DEF Others
<1>2. PlansOK(u)'
  BY <1>1 DEF PodOK, PlansOK, Batch
<1>3. SeenOK(u)' /\ WroteOK(u)'
  BY <1>1 DEF PodOK, SeenOK, WroteOK
<1>4. ReportOK(u)'
  BY <1>1 DEF PodOK, ReportOK, IsTold, policy
<1>5. OpsOK(u)'
  BY <1>1 DEF PodOK, OpsOK, policy
<1>6. QED
  BY <1>2, <1>3, <1>4, <1>5 DEF PodOK

LEMMA InvFromPod ==
  ASSUME Inv, NEW s \in Shards, Others(s), PodOK(s)',
         stage' \in [Shards -> Stages], seen' \in [Shards -> DOMAIN PolicySets], at' \in [Shards -> Indices]
  PROVE  Inv'
<1>1. TypeInv'
  BY DEF Inv, TypeInv, Others
<1>2. ASSUME NEW u \in Shards PROVE PodOK(u)'
  <2>1. CASE u = s
    BY <2>1
  <2>2. CASE u # s
    BY <2>2, OtherKept DEF Inv
  <2>3. QED
    BY <2>1, <2>2
<1>3. QED
  BY <1>1, <1>2 DEF Inv

\* A stop before or during the work.
LEMMA HaltKept ==
  ASSUME Inv, NEW s \in Shards, NEW code,
         Stops(s, code), UNCHANGED <<files, job, plans, at, wrote>>,
         stage[s] \notin {"gone"},
         \/ seen' = seen /\ stage[s] # "waiting"
         \/ seen' = [seen EXCEPT ![s] = files] /\ stage[s] = "waiting",
         code \in {1, 2, 3} => stage[s] \in {"waiting", "plan"}
  PROVE  Inv'
<1>1. /\ stage' = [stage EXCEPT ![s] = "stopped"] /\ report' = [report EXCEPT ![s] = <<>>]
      /\ exit' = [exit EXCEPT ![s] = code] /\ ops' = [ops EXCEPT ![s] = {}]
  BY DEF Stops, Ends
<1>2. TypeInv /\ PodOK(s)
  BY DEF Inv
<1>3. /\ stage'[s] = "stopped" /\ report'[s] = <<>> /\ exit'[s] = code /\ ops'[s] = {}
      /\ stage' \in [Shards -> Stages] /\ seen' \in [Shards -> DOMAIN PolicySets] /\ at' = at
  BY <1>1, <1>2 DEF TypeInv, Stages
<1>4. Others(s)
  BY <1>1, <1>2 DEF TypeInv, Others
<1>5. PlansOK(s)'
  <2>1. CASE stage[s] = "waiting"
    <3>1. plans'[s] = <<>>
      BY <1>2, <2>1 DEF PodOK, PlansOK
    <3>2. IsSeq(<<>>) /\ DOMAIN <<>> = {}
      BY DEF IsSeq
    <3>3. QED
      BY <1>3, <3>1, <3>2 DEF PlansOK
  <2>2. CASE seen' = seen
    BY <1>2, <1>3, <2>2 DEF PodOK, PlansOK, Batch
  <2>3. QED
    BY <2>1, <2>2
<1>6. SeenOK(s)'
  BY <1>2, <1>3 DEF PodOK, SeenOK, TypeInv
<1>7. WroteOK(s)'
  BY <1>2, <1>3 DEF PodOK, WroteOK
<1>8. ReportOK(s)'
  <2>1. IsSeq(<<>>)
    BY DEF IsSeq
  <2>2. QED
    BY <1>3, <2>1 DEF ReportOK
<1>9. PodOK(s)'
  BY <1>3, <1>5, <1>6, <1>7, <1>8 DEF PodOK, OpsOK
<1>10. QED
  BY <1>2, <1>3, <1>4, <1>9, InvFromPod DEF TypeInv

LEMMA StartPodKept == ASSUME Inv, NEW s \in Shards, StartPod(s) PROVE Inv'
<1>1. TypeInv /\ PodOK(s)
  BY DEF Inv
<1>2. /\ stage[s] = "waiting" /\ job /\ seen' = [seen EXCEPT ![s] = files]
      /\ UNCHANGED <<files, job, plans, at, wrote>>
  BY DEF StartPod, worldVars
<1>3. CASE Refused(s, files) = 0
  <2>1. stage' = [stage EXCEPT ![s] = "plan"] /\ UNCHANGED <<exit, report, ops>>
    BY <1>3 DEF StartPod
  <2>2. /\ stage'[s] = "plan" /\ seen'[s] = files /\ stage' \in [Shards -> Stages]
        /\ seen' \in [Shards -> DOMAIN PolicySets]
    BY <1>1, <1>2, <2>1 DEF TypeInv, Stages
  <2>3. Others(s)
    BY <1>1, <1>2, <2>1 DEF TypeInv, Others
  <2>4. PlansOK(s)'
    <3>1. plans'[s] = <<>>
      BY <1>1, <1>2 DEF PodOK, PlansOK
    <3>2. IsSeq(<<>>) /\ DOMAIN <<>> = {}
      BY DEF IsSeq
    <3>3. QED
      BY <2>2, <3>1, <3>2 DEF PlansOK
  <2>5. SeenOK(s)' /\ WroteOK(s)' /\ ReportOK(s)' /\ OpsOK(s)'
    <3>1. SeenOK(s)'
      BY <1>2, <1>3, <2>2 DEF SeenOK
    <3>2. WroteOK(s)'
      BY <1>1, <1>2, <2>2 DEF PodOK, WroteOK
    <3>3. ReportOK(s)'
      BY <1>1, <2>1, <2>2 DEF PodOK, ReportOK
    <3>4. OpsOK(s)'
      BY <1>1, <1>2, <2>1, <2>2 DEF PodOK, OpsOK
    <3>5. QED
      BY <3>1, <3>2, <3>3, <3>4
  <2>6. QED
    BY <1>1, <1>2, <2>2, <2>3, <2>4, <2>5, InvFromPod DEF TypeInv, PodOK
<1>4. CASE Refused(s, files) # 0
  <2>1. Stops(s, Refused(s, files))
    BY <1>4 DEF StartPod
  <2>2. QED
    BY <1>2, <2>1, HaltKept
<1>5. QED
  BY <1>3, <1>4

\* A policy with the plan that was made of it.
Entry(p, ts) == [name |-> p.name, kind |-> p.source.kind, targets |-> ts]

\* The plan phase goes on, or it ends and the first policy is begun.
LEMMA PlannedKept ==
  ASSUME Inv, NEW s \in Shards, stage[s] = "plan",
         NEW done, IsSeq(done), Len(done) <= Len(Batch(s)),
         \A k \in DOMAIN done : PlannedFor(done[k], Batch(s)[k]),
         DOMAIN plans' = DOMAIN plans, plans'[s] = done, \A u \in Shards \ {s} : plans'[u] = plans[u],
         AfterPlan(s, done), UNCHANGED <<files, job, seen, wrote>>
  PROVE  Inv'
<1>1. TypeInv /\ PodOK(s) /\ plans'[s] = done
  BY DEF Inv, TypeInv
<1>2. Batch(s)' = Batch(s) /\ IsSeq(Batch(s))
  <2>1. seen[s] \in DOMAIN PolicySets
    BY <1>1 DEF TypeInv
  <2>2. QED
    BY <2>1, BatchFacts DEF Batch
<1>3. \A k \in DOMAIN done : k \in DOMAIN Batch(s)
  BY <1>2 DEF IsSeq
<1>4. Len(done) \in Nat /\ Len(Batch(s)) \in Nat
  BY <1>2 DEF IsSeq
<1>5. CASE Len(done) < Len(Batch(s))
  <2>1. UNCHANGED <<stage, exit, report, ops, at>>
    BY <1>5 DEF AfterPlan
  <2>2. Others(s)
    BY <1>1, <2>1 DEF TypeInv, Others
  <2>3. PlansOK(s)'
    BY <1>1, <1>2, <1>3, <2>1 DEF PlansOK
  <2>4. SeenOK(s)' /\ WroteOK(s)' /\ ReportOK(s)' /\ OpsOK(s)'
    BY <1>1, <2>1 DEF PodOK, SeenOK, WroteOK, ReportOK, OpsOK
  <2>5. QED
    BY <1>1, <2>1, <2>2, <2>3, <2>4, InvFromPod DEF TypeInv, PodOK
<1>6. CASE Len(done) = Len(Batch(s)) /\ ~AliasesCollide(done)
  <2>1. Onto(s, 1, 1) /\ UNCHANGED <<exit, report, ops>>
    BY <1>4, <1>6 DEF AfterPlan
  <2>2. /\ stage' = [stage EXCEPT ![s] = "read"] /\ at' = [at EXCEPT ![s] = <<1, 1>>]
        /\ stage'[s] = "read" /\ at'[s] = <<1, 1>> /\ stage' \in [Shards -> Stages]
        /\ at' \in [Shards -> Indices] /\ UNCHANGED <<exit, report, ops>>
    BY <1>1, <2>1 DEF Onto, TypeInv, Stages, Indices
  <2>3. Others(s)
    BY <1>1, <2>2 DEF TypeInv, Others
  <2>4. PlansOK(s)'
    BY <1>1, <1>2, <1>3, <1>6, <2>2 DEF PlansOK
  <2>5. SeenOK(s)' /\ WroteOK(s)' /\ OpsOK(s)'
    BY <1>1, <2>2 DEF PodOK, SeenOK, WroteOK, OpsOK
  <2>6. ReportOK(s)'
    <3>1. wrote'[s] = {} /\ IsSeq(report[s])
      BY <1>1 DEF PodOK, WroteOK, ReportOK
    <3>2. \A k \in DOMAIN done : ~ (k < 1)
      BY DEF IsSeq
    <3>3. QED
      BY <1>1, <2>2, <3>1, <3>2 DEF ReportOK
  <2>7. QED
    BY <1>1, <2>2, <2>3, <2>4, <2>5, <2>6, InvFromPod DEF TypeInv, PodOK
<1>7. CASE Len(done) = Len(Batch(s)) /\ AliasesCollide(done)
  <2>1. Stops(s, 1) /\ UNCHANGED at
    BY <1>4, <1>7 DEF AfterPlan
  <2>2. /\ stage' = [stage EXCEPT ![s] = "stopped"] /\ report' = [report EXCEPT ![s] = <<>>]
        /\ exit' = [exit EXCEPT ![s] = 1] /\ ops' = [ops EXCEPT ![s] = {}]
    BY <2>1 DEF Stops, Ends
  <2>3. /\ stage'[s] = "stopped" /\ report'[s] = <<>> /\ ops'[s] = {} /\ stage' \in [Shards -> Stages]
    BY <1>1, <2>2 DEF TypeInv, Stages
  <2>4. Others(s)
    BY <1>1, <2>1, <2>2 DEF TypeInv, Others
  <2>5. PlansOK(s)'
    BY <1>1, <1>2, <1>3, <2>3 DEF PlansOK
  <2>6. SeenOK(s)' /\ WroteOK(s)' /\ OpsOK(s)'
    BY <1>1, <2>3 DEF PodOK, SeenOK, WroteOK, OpsOK
  <2>7. ReportOK(s)'
    <3>1. IsSeq(<<>>)
      BY DEF IsSeq
    <3>2. QED
      BY <2>3, <3>1 DEF ReportOK
  <2>8. QED
    BY <1>1, <2>1, <2>3, <2>4, <2>5, <2>6, <2>7, InvFromPod DEF TypeInv, PodOK
<1>8. QED
  BY <1>4, <1>5, <1>6, <1>7

LEMMA PlanPolicyKept == ASSUME Inv, NEW s \in Shards, PlanPolicy(s) PROVE Inv'
<1>1. TypeInv /\ PodOK(s) /\ stage[s] = "plan" /\ UNCHANGED <<files, job, seen, wrote>>
  BY DEF Inv, PlanPolicy, worldVars
<1> DEFINE next == Len(plans[s]) + 1
<1>2. IsSeq(plans[s]) /\ \A k \in DOMAIN plans[s] : k \in DOMAIN Batch(s) /\ PlannedFor(plans[s][k], Batch(s)[k])
  BY <1>1 DEF PodOK, PlansOK
<1>3. /\ seen[s] \in DOMAIN PolicySets /\ IsSeq(Batch(s))
      /\ \A k \in DOMAIN Batch(s) : Batch(s)[k] \in Policy
  <2>1. seen[s] \in DOMAIN PolicySets
    BY <1>1 DEF TypeInv
  <2>2. IsSeq(Batch(s)) /\ ToSet(Batch(s)) \subseteq ToSet(Policies(seen[s]))
    BY <2>1, BatchFacts DEF Batch
  <2>3. \A k \in DOMAIN Batch(s) : Batch(s)[k] \in ToSet(Batch(s))
    BY DEF ToSet
  <2>4. QED
    BY <2>1, <2>2, <2>3 DEF Policy
<1>4. /\ Len(plans[s]) \in Nat /\ Len(Batch(s)) \in Nat /\ DOMAIN Batch(s) = 1 .. Len(Batch(s))
      /\ DOMAIN plans[s] = 1 .. Len(plans[s])
  BY <1>2, <1>3 DEF IsSeq
<1>5. Len(plans[s]) <= Len(Batch(s))
  <2>1. CASE Len(plans[s]) = 0
    BY <1>4, <2>1
  <2>2. CASE Len(plans[s]) # 0
    <3>1. Len(plans[s]) \in DOMAIN plans[s]
      BY <1>4, <2>2
    <3>2. QED
      BY <1>2, <1>4, <3>1
  <2>3. QED
    BY <2>1, <2>2
<1>6. CASE next > Len(Batch(s))
  <2>1. AfterPlan(s, plans[s]) /\ UNCHANGED plans
    BY <1>6 DEF PlanPolicy
  <2>2. QED
    BY <1>1, <1>2, <1>5, <2>1, PlannedKept
<1>7. CASE ~ (next > Len(Batch(s)))
  <2> DEFINE p == Batch(s)[next]
  <2>1. next \in DOMAIN Batch(s) /\ p \in Policy
    BY <1>3, <1>4, <1>7
  <2>2. CASE NotCompiled(p)
    <3>1. Stops(s, 3) /\ UNCHANGED <<plans, at>>
      BY <1>7, <2>2 DEF PlanPolicy
    <3>2. QED
      BY <1>1, <3>1, HaltKept
  <2>3. CASE ~ NotCompiled(p)
    <3>1. PICK ts \in Plannings(p) :
             LET done == Append(plans[s], Entry(p, ts))
             IN  plans' = [plans EXCEPT ![s] = done] /\ AfterPlan(s, done)
      BY <1>7, <2>3 DEF PlanPolicy, Entry
    <3> DEFINE done == Append(plans[s], Entry(p, ts))
    <3>2. /\ IsSeq(done) /\ Len(done) = Len(plans[s]) + 1
          /\ \A k \in DOMAIN done : done[k] = IF k = next THEN Entry(p, ts) ELSE plans[s][k]
      BY <1>2, Appended
    <3>3. PlannedFor(Entry(p, ts), p)
      <4>1. /\ IsSeq(ts) /\ (ts = <<>> <=> Destinations(p) = <<>>)
            /\ \A t \in ToSet(ts) : t.repo \in DestRepos(p)
        BY <2>1, PlanningFits
      <4>2. Entry(p, ts).name = p.name /\ Entry(p, ts).kind = p.source.kind /\ Entry(p, ts).targets = ts
        BY DEF Entry
      <4>3. QED
        BY <4>1, <4>2 DEF PlannedFor
    <3>4. \A k \in DOMAIN done : PlannedFor(done[k], Batch(s)[k])
      <4> SUFFICES ASSUME NEW k \in DOMAIN done PROVE PlannedFor(done[k], Batch(s)[k])
        OBVIOUS
      <4>1. CASE k = next
        BY <3>2, <3>3, <4>1
      <4>2. CASE k # next
        <5>1. DOMAIN done = 1 .. Len(done)
          BY <3>2 DEF IsSeq
        <5>2. k \in DOMAIN plans[s] /\ done[k] = plans[s][k]
          BY <1>4, <3>2, <4>2, <5>1
        <5>3. QED
          BY <1>2, <5>2
      <4>3. QED
        BY <4>1, <4>2
    <3>5. Len(done) <= Len(Batch(s))
      BY <1>4, <1>7, <3>2
    <3>6. plans' = [plans EXCEPT ![s] = done] /\ AfterPlan(s, done)
      BY <3>1
    <3> HIDE DEF done
    <3>7. DOMAIN plans' = DOMAIN plans /\ plans'[s] = done /\ \A u \in Shards \ {s} : plans'[u] = plans[u]
      BY <1>1, <3>6 DEF TypeInv
    <3>8. QED
      BY <1>1, <3>2, <3>4, <3>5, <3>6, <3>7, PlannedKept
  <2>4. QED
    BY <2>2, <2>3
<1>8. QED
  BY <1>6, <1>7

\* A policy is reported: with every operation that placed something, or as failed.
LEMMA PolicyDoneKept ==
  ASSUME Inv, NEW s \in Shards, NEW status, NEW code, NEW os,
         PolicyDone(s, status, code, os), UNCHANGED <<files, job, seen, plans>>,
         stage[s] \in {"read", "write"}, at[s][1] \in DOMAIN plans[s],
         DOMAIN wrote' = DOMAIN wrote, \A u \in Shards \ {s} : wrote'[u] = wrote[u],
         status = "failed" \/ ops[s] \subseteq os,
         \A w \in wrote'[s] \ wrote[s] :
            w[3] = policy(s).name /\ (status = "failed" \/ \E o \in os : Places(o, w))
  PROVE  Inv'
<1> DEFINE r == [name |-> policy(s).name, status |-> status, code |-> code, ops |-> os]
<1>1. TypeInv /\ PodOK(s)
  BY DEF Inv
<1>2. /\ report' = [report EXCEPT ![s] = Append(report[s], r)] /\ ops' = [ops EXCEPT ![s] = {}]
      /\ stage' = [stage EXCEPT ![s] = "read"] /\ at' = [at EXCEPT ![s] = <<at[s][1] + 1, 1>>] /\ exit' = exit
  BY DEF PolicyDone, Onto
<1>3. at[s][1] \in Nat \ {0}
  BY <1>1 DEF TypeInv, Indices
<1>4. /\ report'[s] = Append(report[s], r) /\ stage'[s] = "read" /\ at'[s] = <<at[s][1] + 1, 1>>
      /\ ops'[s] = {} /\ stage' \in [Shards -> Stages] /\ at' \in [Shards -> Indices]
  BY <1>1, <1>2, <1>3 DEF TypeInv, Stages, Indices
<1>5. Others(s)
  BY <1>1, <1>2 DEF TypeInv, Others
<1>6. PlansOK(s)'
  BY <1>1, <1>4 DEF PodOK, PlansOK, Batch
<1>7. SeenOK(s)' /\ WroteOK(s)' /\ OpsOK(s)'
  BY <1>1, <1>4 DEF PodOK, SeenOK, WroteOK, OpsOK
<1>8. IsSeq(report'[s]) /\ ToSet(report'[s]) = ToSet(report[s]) \cup {r}
  <2>1. IsSeq(report[s])
    BY <1>1 DEF PodOK, ReportOK
  <2> HIDE DEF r
  <2>2. QED
    BY <1>4, <2>1, Appended
<1>9. ASSUME NEW k \in DOMAIN plans[s], k < at[s][1] + 1 PROVE IsTold(s, k)'
  <2>1. k \in Nat
    BY <1>1 DEF PodOK, PlansOK, IsSeq
  <2>2. CASE k < at[s][1]
    <3>1. IsTold(s, k)
      BY <1>1, <2>2 DEF PodOK, ReportOK
    <3>2. QED
      BY <1>8, <3>1 DEF IsTold
  <2>3. CASE k = at[s][1]
    <3>1. r.name = plans'[s][k].name
      BY <2>3 DEF policy
    <3> HIDE DEF r
    <3>2. QED
      BY <1>8, <3>1 DEF IsTold
  <2>4. QED
    BY <1>3, <1>9, <2>1, <2>2, <2>3
<1>10. ASSUME NEW w \in wrote'[s]
       PROVE  \E x \in ToSet(report'[s]) : x.name = w[3] /\ (x.status = "failed" \/ \E o \in x.ops : Places(o, w))
  <2>1. r.name = policy(s).name /\ r.status = status /\ r.ops = os
    OBVIOUS
  <2> HIDE DEF r
  <2>2. CASE w \in wrote[s]
    <3>1. \/ \E x \in ToSet(report[s]) : x.name = w[3] /\ (x.status = "failed" \/ \E o \in x.ops : Places(o, w))
          \/ w[3] = policy(s).name /\ \E o \in ops[s] : Places(o, w)
      BY <1>1, <2>2 DEF PodOK, ReportOK
    <3>2. QED
      BY <1>8, <2>1, <3>1
  <2>3. CASE w \notin wrote[s]
    BY <1>8, <2>1, <2>3
  <2>4. QED
    BY <2>2, <2>3
<1> HIDE DEF r
<1>11. ReportOK(s)'
  BY <1>4, <1>8, <1>9, <1>10 DEF ReportOK
<1>12. QED
  BY <1>1, <1>4, <1>5, <1>6, <1>7, <1>11, InvFromPod DEF TypeInv, PodOK

\* One destination of a policy is done, or all of them are.
LEMMA TargetDoneKept ==
  ASSUME Inv, NEW s \in Shards, NEW os,
         TargetDone(s, os), UNCHANGED <<files, job, seen, plans>>,
         stage[s] = "write", at[s][1] \in DOMAIN plans[s], at[s][2] <= Len(policy(s).targets),
         Len(policy(s).targets) \in Nat,
         DOMAIN wrote' = DOMAIN wrote, \A u \in Shards \ {s} : wrote'[u] = wrote[u],
         \A w \in wrote'[s] \ wrote[s] : w[3] = policy(s).name /\ \E o \in os : Places(o, w)
  PROVE  Inv'
<1>1. TypeInv /\ PodOK(s)
  BY DEF Inv
<1>2. CASE at[s][2] = Len(policy(s).targets)
  <2>1. PolicyDone(s, NodeStatus(ops[s] \cup os), 0, ops[s] \cup os)
    BY <1>2 DEF TargetDone
  <2>2. QED
    BY <2>1, PolicyDoneKept
<1>3. CASE at[s][2] # Len(policy(s).targets)
  <2>1. /\ ops' = [ops EXCEPT ![s] = ops[s] \cup os] /\ UNCHANGED <<report, exit>>
        /\ stage' = [stage EXCEPT ![s] = "read"] /\ at' = [at EXCEPT ![s] = <<at[s][1], at[s][2] + 1>>]
    BY <1>3 DEF TargetDone, Onto
  <2>2. at[s][1] \in Nat \ {0} /\ at[s][2] \in Nat \ {0}
    BY <1>1 DEF TypeInv, Indices
  <2>3. /\ ops'[s] = ops[s] \cup os /\ stage'[s] = "read" /\ at'[s] = <<at[s][1], at[s][2] + 1>>
        /\ stage' \in [Shards -> Stages] /\ at' \in [Shards -> Indices]
    BY <1>1, <2>1, <2>2 DEF TypeInv, Stages, Indices
  <2>4. Others(s)
    BY <1>1, <2>1 DEF TypeInv, Others
  <2>5. PlansOK(s)' /\ SeenOK(s)' /\ WroteOK(s)'
    <3>1. PlansOK(s)'
      BY <1>1, <2>3 DEF PodOK, PlansOK, Batch
    <3>2. QED
      BY <1>1, <2>3, <3>1 DEF PodOK, SeenOK, WroteOK
  <2>6. policy(s)' = policy(s)
    BY <2>3 DEF policy
  <2>7. ASSUME NEW w \in wrote'[s]
        PROVE  \/ \E r \in ToSet(report[s]) : r.name = w[3] /\ (r.status = "failed" \/ \E o \in r.ops : Places(o, w))
               \/ w[3] = policy(s).name /\ \E o \in ops'[s] : Places(o, w)
    BY <1>1, <2>3 DEF PodOK, ReportOK
  <2>8. ReportOK(s)'
    BY <1>1, <2>1, <2>3, <2>6, <2>7 DEF PodOK, ReportOK, IsTold
  <2>9. OpsOK(s)'
    <3>1. at[s][2] + 1 <= Len(policy(s).targets)
      BY <1>3, <2>2
    <3>2. QED
      BY <2>3, <2>6, <3>1 DEF OpsOK
  <2>10. QED
    BY <1>1, <2>3, <2>4, <2>5, <2>8, <2>9, InvFromPod DEF TypeInv, PodOK
<1>4. QED
  BY <1>2, <1>3

\* Whoever applies is at one of its plans.
LEMMA ApplyingFacts == ASSUME Inv, NEW s \in Shards, Applying(s) PROVE at[s][1] \in DOMAIN plans[s]
<1>1. at[s][1] \in Nat \ {0}
  BY DEF Inv, TypeInv, Indices
<1>2. DOMAIN plans[s] = 1 .. Len(plans[s]) /\ Len(plans[s]) \in Nat
  BY DEF Inv, PodOK, PlansOK, IsSeq
<1>3. QED
  BY <1>1, <1>2 DEF Applying

LEMMA ReadDestKept == ASSUME Inv, NEW s \in Shards, ReadDest(s) PROVE Inv'
<1>1. TypeInv /\ PodOK(s)
  BY DEF Inv
<1>2. /\ stage[s] = "read" /\ at[s][1] <= Len(plans[s]) /\ stage' = [stage EXCEPT ![s] = "write"]
      /\ UNCHANGED <<files, job, seen, plans, at, ops, report, exit, wrote>>
      /\ policy(s).targets # <<>>
  BY DEF ReadDest, Applying, worldVars
<1>3. stage'[s] = "write" /\ stage' \in [Shards -> Stages]
  BY <1>1, <1>2 DEF TypeInv, Stages
<1>4. Others(s)
  BY <1>1, <1>2 DEF TypeInv, Others
<1>5. PlansOK(s)' /\ SeenOK(s)' /\ WroteOK(s)' /\ OpsOK(s)'
  <2>1. PlansOK(s)'
    BY <1>1, <1>2, <1>3 DEF PodOK, PlansOK, Batch
  <2>2. SeenOK(s)' /\ WroteOK(s)'
    BY <1>1, <1>2, <1>3 DEF PodOK, SeenOK, WroteOK
  <2>3. OpsOK(s)'
    BY <1>1, <1>2, <1>3 DEF PodOK, OpsOK, policy
  <2>4. QED
    BY <2>1, <2>2, <2>3
<1>6. at[s][1] \in DOMAIN plans[s]
  BY <1>2, ApplyingFacts DEF ReadDest
<1>7. ReportOK(s)'
  BY <1>1, <1>2, <1>3, <1>6 DEF PodOK, ReportOK, IsTold, policy
<1>8. QED
  BY <1>1, <1>2, <1>3, <1>4, <1>5, <1>7, InvFromPod DEF TypeInv, PodOK

\* What is planned for the policy that a pod is at.
LEMMA TargetFacts ==
  ASSUME Inv, NEW s \in Shards, at[s][1] \in DOMAIN plans[s], stage[s] \in {"read", "write"}
  PROVE  /\ IsSeq(policy(s).targets) /\ Len(policy(s).targets) \in Nat
         /\ policy(s).targets = <<>> <=> Len(policy(s).targets) = 0
         /\ stage[s] = "write" => at[s][2] \in 1 .. Len(policy(s).targets)
<1> DEFINE ts == policy(s).targets
<1>1. TypeInv /\ PodOK(s)
  BY DEF Inv
<1>2. IsSeq(ts)
  BY <1>1 DEF PodOK, PlansOK, PlannedFor, policy
<1>3. stage[s] = "write" => ts # <<>> /\ (at[s][2] = 1 \/ at[s][2] <= Len(ts))
  BY <1>1 DEF PodOK, OpsOK
<1>4. at[s][2] \in Nat \ {0}
  BY <1>1 DEF TypeInv, Indices
<1> HIDE DEF ts
<1>5. Len(ts) \in Nat /\ (ts = <<>> <=> Len(ts) = 0)
  BY <1>2 DEF IsSeq
<1>6. stage[s] = "write" => at[s][2] \in 1 .. Len(ts)
  BY <1>3, <1>4, <1>5
<1>7. QED
  BY <1>2, <1>5, <1>6 DEF ts

LEMMA NoTargetKept == ASSUME Inv, NEW s \in Shards, NoTarget(s) PROVE Inv'
<1>1. TypeInv /\ PodOK(s)
  BY DEF Inv
<1>2. /\ stage[s] = "read" /\ policy(s).targets = <<>> /\ UNCHANGED <<files, job, seen, plans, wrote>>
  BY DEF NoTarget, Applying, worldVars
<1>3. at[s][1] \in DOMAIN plans[s] /\ Len(policy(s).targets) = 0
  <2>1. at[s][1] \in DOMAIN plans[s]
    BY ApplyingFacts DEF NoTarget
  <2>2. QED
    BY <1>2, <2>1, TargetFacts
<1>4. at[s][1] \in Nat \ {0} /\ at[s][2] \in Nat \ {0}
  BY <1>1 DEF TypeInv, Indices
<1>5. ops[s] = {}
  BY <1>1, <1>3, <1>4 DEF PodOK, OpsOK
<1>6. CASE policy(s).kind = "git"
  <2>1. /\ stage' = [stage EXCEPT ![s] = "read"] /\ at' = [at EXCEPT ![s] = <<at[s][1] + 1, 1>>]
        /\ UNCHANGED <<ops, report, exit>>
    BY <1>6 DEF NoTarget, Onto
  <2>2. /\ stage'[s] = "read" /\ at'[s] = <<at[s][1] + 1, 1>>
        /\ stage' \in [Shards -> Stages] /\ at' \in [Shards -> Indices]
    BY <1>1, <1>4, <2>1 DEF TypeInv, Stages, Indices
  <2>3. Others(s)
    BY <1>1, <1>2, <2>1 DEF TypeInv, Others
  <2>4. PlansOK(s)'
    BY <1>1, <1>2, <2>2 DEF PodOK, PlansOK, Batch
  <2>5. SeenOK(s)' /\ WroteOK(s)' /\ OpsOK(s)'
    BY <1>1, <1>2, <1>5, <2>1, <2>2 DEF PodOK, SeenOK, WroteOK, OpsOK
  <2>6. ASSUME NEW k \in DOMAIN plans[s], k < at[s][1] + 1 PROVE IsTold(s, k)'
    <3>1. k \in Nat
      BY <1>1 DEF PodOK, PlansOK, IsSeq
    <3>2. CASE k < at[s][1]
      BY <1>1, <1>2, <2>1, <3>2 DEF PodOK, ReportOK, IsTold
    <3>3. CASE k = at[s][1]
      BY <1>2, <1>6, <3>3 DEF IsTold, policy
    <3>4. QED
      BY <1>4, <2>6, <3>1, <3>2, <3>3
  <2>7. ReportOK(s)'
    BY <1>1, <1>2, <1>5, <2>1, <2>2, <2>6 DEF PodOK, ReportOK
  <2>8. QED
    BY <1>1, <1>2, <2>2, <2>3, <2>4, <2>5, <2>7, InvFromPod DEF TypeInv, PodOK
<1>7. CASE policy(s).kind # "git"
  <2>1. PolicyDone(s, "ok", 0, {})
    BY <1>7 DEF NoTarget
  <2>2. QED
    BY <1>1, <1>2, <1>3, <1>5, <2>1, PolicyDoneKept
<1>8. QED
  BY <1>6, <1>7

LEMMA ReadFailsKept == ASSUME Inv, NEW s \in Shards, ReadFails(s) PROVE Inv'
<1>1. /\ stage[s] = "read" /\ UNCHANGED <<files, job, seen, plans, wrote>> /\ PolicyDone(s, "failed", 2, {})
  BY DEF ReadFails, Applying, PolicyFails, worldVars
<1>2. at[s][1] \in DOMAIN plans[s]
  BY ApplyingFacts DEF ReadFails
<1>3. QED
  BY <1>1, <1>2, PolicyDoneKept

LEMMA WriteDestKept == ASSUME Inv, NEW s \in Shards, WriteDest(s) PROVE Inv'
<1> DEFINE t == target(s)
           m == mirror[s]
<1>1. TypeInv /\ PodOK(s) /\ stage[s] = "write" /\ UNCHANGED <<files, job, seen, plans>>
  BY DEF Inv, WriteDest
<1>2. /\ at[s][1] \in DOMAIN plans[s] /\ at[s][2] <= Len(policy(s).targets) /\ Len(policy(s).targets) \in Nat
  <2>1. at[s][1] \in DOMAIN plans[s]
    BY <1>1 DEF PodOK, ReportOK
  <2>2. QED
    BY <1>1, <2>1, TargetFacts
<1>3. PICK failing \in SUBSET Items(t, m) :
         /\ wrote' = [wrote EXCEPT ![s] = @ \cup
                {<<t.repo, i.out, policy(s).name>> : i \in {x \in ToPlace(t, m) : x.out \notin failing}}]
         /\ IF failing # {} /\ policy(s).kind = "git" THEN PolicyFails(s) ELSE TargetDone(s, OpsOf(s, t, m, failing))
  BY DEF WriteDest
<1>4. /\ DOMAIN wrote' = DOMAIN wrote /\ \A u \in Shards \ {s} : wrote'[u] = wrote[u]
      /\ wrote'[s] = wrote[s] \cup {<<t.repo, i.out, policy(s).name>> : i \in {x \in ToPlace(t, m) : x.out \notin failing}}
  BY <1>1, <1>3 DEF TypeInv
<1>5. ASSUME NEW w \in wrote'[s] \ wrote[s]
      PROVE  w[3] = policy(s).name /\ \E o \in OpsOf(s, t, m, failing) : Places(o, w)
  <2>1. PICK i \in {x \in ToPlace(t, m) : x.out \notin failing} : w = <<t.repo, i.out, policy(s).name>>
    BY <1>4
  <2> DEFINE o == [repo |-> t.repo, kind |-> "imported", out |-> i.out, code |-> IF i.out \notin failing THEN 0 ELSE 2]
  <2>2. o \in OpsOf(s, t, m, failing)
    BY <2>1 DEF OpsOf
  <2>3. w[1] = t.repo /\ w[2] = i.out /\ w[3] = policy(s).name
    BY <2>1
  <2>4. o.repo = t.repo /\ o.kind = "imported" /\ o.out = i.out /\ o.code = 0
    BY <2>1
  <2> HIDE DEF o, t, m
  <2>5. QED
    BY <2>2, <2>3, <2>4 DEF Places
<1> HIDE DEF t, m
<1>6. CASE failing # {} /\ policy(s).kind = "git"
  <2>1. PolicyDone(s, "failed", 2, {})
    BY <1>3, <1>6 DEF PolicyFails
  <2>2. QED
    BY <1>1, <1>2, <1>4, <1>5, <2>1, PolicyDoneKept
<1>7. CASE ~ (failing # {} /\ policy(s).kind = "git")
  <2>1. TargetDone(s, OpsOf(s, t, m, failing))
    BY <1>3, <1>7
  <2>2. QED
    BY <1>1, <1>2, <1>4, <1>5, <2>1, TargetDoneKept
<1>8. QED
  BY <1>6, <1>7

LEMMA EndRunKept == ASSUME Inv, NEW s \in Shards, EndRun(s) PROVE Inv'
<1>1. TypeInv /\ PodOK(s)
  BY DEF Inv
<1>2. /\ stage[s] = "read" /\ at[s][1] > Len(plans[s]) /\ UNCHANGED <<files, job, seen, plans, at, wrote>>
      /\ stage' = [stage EXCEPT ![s] = "done"] /\ report' = [report EXCEPT ![s] = report[s]]
      /\ exit' = [exit EXCEPT ![s] = ExitOf(report[s])] /\ ops' = [ops EXCEPT ![s] = {}]
  BY DEF EndRun, Ends, worldVars
<1>3. /\ stage'[s] = "done" /\ stage' \in [Shards -> Stages] /\ report'[s] = report[s] /\ ops'[s] = {}
  BY <1>1, <1>2 DEF TypeInv, Stages
<1>4. Others(s)
  BY <1>1, <1>2, <1>3 DEF TypeInv, Others
<1>5. PlansOK(s)'
  BY <1>1, <1>2, <1>3 DEF PodOK, PlansOK, Batch
<1>6. SeenOK(s)' /\ WroteOK(s)' /\ OpsOK(s)'
  BY <1>1, <1>2, <1>3 DEF PodOK, SeenOK, WroteOK, OpsOK
<1>7. at[s][1] \notin DOMAIN plans[s]
  BY <1>1, <1>2 DEF PodOK, PlansOK, IsSeq
<1>8. ReportOK(s)'
  BY <1>1, <1>2, <1>3, <1>7 DEF PodOK, ReportOK, IsTold
<1>9. QED
  BY <1>1, <1>2, <1>3, <1>4, <1>5, <1>6, <1>8, InvFromPod DEF TypeInv, PodOK

LEMMA FailureKept == ASSUME Inv, NEW s \in Shards, Failure(s) PROVE Inv'
<1>1. CASE PlanFails(s)
  <2>1. Stops(s, 2) /\ stage[s] = "plan" /\ UNCHANGED <<files, job, seen, plans, at, wrote>>
    BY <1>1 DEF PlanFails, worldVars
  <2>2. QED
    BY <2>1, HaltKept
<1>2. CASE PodLost(s)
  <2>1. Stops(s, 137) /\ stage[s] \in {"plan", "read", "write"} /\ UNCHANGED <<files, job, seen, plans, at, wrote>>
    BY <1>2 DEF PodLost, Running, worldVars
  <2>2. QED
    BY <2>1, HaltKept
<1>3. QED
  BY <1>1, <1>2, ReadFailsKept DEF Failure

\* A job begins with pods that have done nothing.
LEMMA StartJobKept == ASSUME Inv, StartJob PROVE Inv'
<1>1. /\ ~job /\ job' = TRUE /\ stage' = [s \in Shards |-> "waiting"]
      /\ UNCHANGED <<files, seen, plans, at, ops, report, exit, wrote>>
  BY DEF StartJob, worldVars
<1>2. TypeInv'
  BY <1>1 DEF Inv, TypeInv, Stages
<1>3. ASSUME NEW s \in Shards PROVE PodOK(s)'
  <2>1. PodOK(s) /\ stage[s] = "gone" /\ stage'[s] = "waiting"
    BY <1>1 DEF Inv, PodOK, SeenOK
  <2>2. PlansOK(s)'
    BY <1>1, <2>1 DEF PodOK, PlansOK, Batch
  <2>3. SeenOK(s)' /\ WroteOK(s)'
    BY <1>1, <2>1 DEF PodOK, SeenOK, WroteOK
  <2>4. ReportOK(s)' /\ OpsOK(s)'
    BY <1>1, <2>1 DEF PodOK, ReportOK, OpsOK
  <2>5. QED
    BY <2>2, <2>3, <2>4 DEF PodOK
<1>4. QED
  BY <1>2, <1>3 DEF Inv

\* Nothing is planned, reported or written.
Fresh(s) == stage[s] = "gone" /\ plans[s] = <<>> /\ report[s] = <<>> /\ ops[s] = {} /\ wrote[s] = {}

LEMMA FreshOK == \A s \in Shards : Fresh(s) => PodOK(s)
<1> SUFFICES ASSUME NEW s \in Shards, Fresh(s) PROVE PodOK(s)
  OBVIOUS
<1>1. IsSeq(<<>>) /\ DOMAIN <<>> = {}
  BY DEF IsSeq
<1>2. PlansOK(s)
  BY <1>1 DEF PlansOK, Fresh
<1>3. SeenOK(s) /\ WroteOK(s)
  BY DEF SeenOK, WroteOK, Fresh
<1>4. ReportOK(s) /\ OpsOK(s)
  BY <1>1 DEF ReportOK, OpsOK, Fresh
<1>5. QED
  BY <1>2, <1>3, <1>4 DEF PodOK

LEMMA JobEndsKept == ASSUME Inv, JobEnds PROVE Inv'
<1>1. TypeInv'
  <2>1. /\ stage' = [s \in Shards |-> "gone"] /\ seen' = [s \in Shards |-> FirstSet]
        /\ at' = [s \in Shards |-> <<1, 1>>] /\ job' = FALSE /\ files' = files
    BY DEF JobEnds, worldVars
  <2>2. /\ DOMAIN plans' = Shards /\ DOMAIN ops' = Shards /\ DOMAIN report' = Shards
        /\ DOMAIN exit' = Shards /\ DOMAIN wrote' = Shards
    BY DEF JobEnds
  <2>3. FirstSet \in DOMAIN PolicySets /\ files \in DOMAIN PolicySets /\ <<1, 1>> \in Indices
    BY DriverAssumption DEF Inv, TypeInv, Indices
  <2>4. QED
    BY <2>1, <2>2, <2>3 DEF TypeInv, Stages
<1>2. \A s \in Shards : Fresh(s)'
  BY DEF JobEnds, Fresh
<1>3. (\A s \in Shards : Fresh(s) => PodOK(s))'
  BY FreshOK, PTL
<1>4. QED
  BY <1>1, <1>2, <1>3 DEF Inv

\* Outside a job, the policies may change; during one only if its pods may see different ones.
LEMMA AroundKept == ASSUME Inv, EditFiles \/ UpstreamMoves PROVE Inv'
<1>1. /\ UNCHANGED <<job, stage, seen, plans, at, ops, report, exit, wrote>>
      /\ files' \in DOMAIN PolicySets /\ (files' = files \/ EditsMidJob \/ ~job)
  BY DEF EditFiles, UpstreamMoves, podVars, Inv, TypeInv
<1>2. TypeInv'
  BY <1>1 DEF Inv, TypeInv
<1>3. ASSUME NEW s \in Shards PROVE PodOK(s)'
  <2>1. PodOK(s)
    BY DEF Inv
  <2>2. PlansOK(s)'
    BY <1>1, <2>1 DEF PodOK, PlansOK, Batch
  <2>3. SeenOK(s)' /\ WroteOK(s)'
    BY <1>1, <2>1 DEF PodOK, SeenOK, WroteOK
  <2>4. ReportOK(s)' /\ OpsOK(s)'
    BY <1>1, <2>1 DEF PodOK, ReportOK, OpsOK, IsTold, policy
  <2>5. QED
    BY <2>2, <2>3, <2>4 DEF PodOK
<1>4. QED
  BY <1>2, <1>3 DEF Inv

LEMMA InvInit == Init => Inv
<1> SUFFICES ASSUME Init PROVE Inv
  OBVIOUS
<1>1. TypeInv
  <2>1. FirstSet \in DOMAIN PolicySets /\ <<1, 1>> \in Indices
    BY DriverAssumption DEF Indices
  <2>2. /\ DOMAIN plans = Shards /\ DOMAIN ops = Shards /\ DOMAIN report = Shards
        /\ DOMAIN exit = Shards /\ DOMAIN wrote = Shards
    BY DEF Init
  <2>3. QED
    BY <2>1, <2>2 DEF Init, TypeInv, Stages
<1>2. \A s \in Shards : Fresh(s)
  BY DEF Init, Fresh
<1>3. QED
  BY <1>1, <1>2, FreshOK DEF Inv

LEMMA InvNext == Inv /\ [Next]_vars => Inv'
<1> SUFFICES ASSUME Inv, [Next]_vars PROVE Inv'
  OBVIOUS
<1>1. CASE StartJob
  BY <1>1, StartJobKept
<1>2. CASE JobEnds
  BY <1>2, JobEndsKept
<1>3. CASE EditFiles \/ UpstreamMoves
  BY <1>3, AroundKept
<1>4. ASSUME NEW s \in Shards, PodStep(s) PROVE Inv'
  BY <1>4, StartPodKept, PlanPolicyKept, ReadDestKept, NoTargetKept, WriteDestKept, EndRunKept DEF PodStep
<1>5. ASSUME NEW s \in Shards, Failure(s) PROVE Inv'
  BY <1>5, FailureKept
<1>6. CASE UNCHANGED vars
  <2>1. UNCHANGED <<files, job, stage, seen, plans, at, ops, report, exit, wrote>>
    BY <1>6 DEF vars, worldVars, podVars
  <2>2. ASSUME NEW s \in Shards PROVE PodOK(s)'
    BY <2>1 DEF Inv, PodOK, PlansOK, SeenOK, WroteOK, ReportOK, OpsOK, IsTold, Batch, policy
  <2>3. QED
    BY <2>1, <2>2 DEF Inv, TypeInv
<1>7. QED
  BY <1>1, <1>2, <1>3, <1>4, <1>5, <1>6 DEF Next

THEOREM InvAlways == Spec => []Inv
<1>1. QED
  BY InvInit, InvNext, PTL DEF Spec

-----------------------------------------------------------------------------
(* What a destination holds after it is written.                           *)

\* A plan that can be carried out: images under different tags, an alias with one target,
\* which is an image and not itself an alias.  What git sources place is not transformed.
Proper(t) ==
    /\ \A i, j \in t.images : i.out = j.out => i = j
    /\ \A x, y \in t.aliases : x.alias = y.alias => x = y
    /\ \A x \in t.aliases : \A i \in t.images : x.alias # i.out
    /\ \A x \in t.aliases : \E i \in t.images : i.out = x.target
    /\ \A i \in t.images : i.src \in Revisions => i.transform = <<>>
    /\ t.mode = "none" => \A i \in t.images : i.src = i.out /\ i.src \in Revisions

HeldOK(h) ==
    /\ h = [o \in DOMAIN h |-> h[o]]
    /\ \A o \in DOMAIN h : h[o] = Content(h[o]) /\ (h[o].src \in Revisions => h[o].transform = <<>>)

LEMMA Untroubled ==
  ASSUME NEW s, NEW t, NEW m, NEW failing \in SUBSET Items(t, m),
         \A o \in OpsOf(s, t, m, failing) : o.code = 0
  PROVE  failing = {} /\ ToPoint(t, m) \subseteq Pointed(Placed(dest[t.repo], t, m, failing), t, m, failing)
<1> DEFINE images == Placed(dest[t.repo], t, m, failing)
           Code(ok) == IF ok THEN 0 ELSE 2
           put(i) == [repo |-> t.repo, kind |-> "imported", out |-> i.out, code |-> Code(i.out \notin failing)]
           point(x) == [repo |-> t.repo, kind |-> "aliased", out |-> x.alias, code |-> Code(x \in Pointed(images, t, m, failing))]
           drop(o) == [repo |-> t.repo, kind |-> "deleted", out |-> o, code |-> Code(o \notin failing)]
<1>1. /\ \A i \in ToPlace(t, m) : put(i) \in OpsOf(s, t, m, failing)
      /\ \A x \in ToPoint(t, m) : point(x) \in OpsOf(s, t, m, failing)
      /\ \A o \in ToDelete(t, m) : drop(o) \in OpsOf(s, t, m, failing)
  BY DEF OpsOf
<1>2. ASSUME NEW i \in ToPlace(t, m) PROVE i.out \notin failing
  <2>1. put(i).code = 0
    BY <1>1
  <2>2. QED
    BY <2>1
<1>3. ASSUME NEW x \in ToPoint(t, m) PROVE x \in Pointed(images, t, m, failing)
  <2>1. point(x).code = 0
    BY <1>1
  <2> HIDE DEF images
  <2>2. QED
    BY <2>1
<1>4. ASSUME NEW o \in ToDelete(t, m) PROVE o \notin failing
  <2>1. drop(o).code = 0
    BY <1>1
  <2>2. QED
    BY <2>1
<1>5. \A x \in ToPoint(t, m) : x.alias \notin failing
  BY <1>3 DEF Pointed
<1>6. failing = {}
  BY <1>2, <1>4, <1>5 DEF Items
<1>7. QED
  BY <1>3, <1>6

\* Images in a repository are placed as planned, over what it held.
LEMMA PlacedFacts ==
  ASSUME NEW h, NEW t, NEW m, NEW failing, Proper(t)
  PROVE  LET images == Placed(h, t, m, failing)
         IN  /\ DOMAIN h \subseteq DOMAIN images
             /\ \A o \in DOMAIN images :
                   \/ o \in DOMAIN h /\ images[o] = h[o] /\ \A i \in ToPlace(t, m) : i.out = o => i.out \in failing
                   \/ \E i \in ToPlace(t, m) : i.out = o /\ images[o] = Content(i)
             /\ \A i \in ToPlace(t, m) : i.out \notin failing => i.out \in DOMAIN images /\ images[i.out] = Content(i)
<1> DEFINE images == Placed(h, t, m, failing)
           placed == {i \in ToPlace(t, m) : i.out \notin failing}
           outs   == {i.out : i \in placed}
           made(o) == CHOOSE i \in placed : i.out = o
<1>1. images = [o \in outs \cup DOMAIN h |-> IF o \in outs THEN Content(made(o)) ELSE h[o]]
  BY DEF Placed
<1>2. ASSUME NEW i \in placed PROVE made(i.out) = i
  <2>1. placed \subseteq t.images
    BY DEF ToPlace
  <2>2. made(i.out) \in placed /\ made(i.out).out = i.out
    OBVIOUS
  <2> HIDE DEF made, placed
  <2>3. QED
    BY <2>1, <2>2 DEF Proper
<1> HIDE DEF images, made
<1>3. DOMAIN images = outs \cup DOMAIN h
      /\ (\A o \in outs : images[o] = Content(made(o)))
      /\ \A o \in DOMAIN h \ outs : images[o] = h[o]
  BY <1>1
<1>4. \A i \in placed : i.out \in DOMAIN images /\ images[i.out] = Content(i)
  BY <1>2, <1>3
<1>5. QED
  BY <1>3, <1>4 DEF images

LEMMA PointedFacts ==
  ASSUME NEW h, NEW t, NEW m, NEW failing, Proper(t),
         NEW images, images = Placed(h, t, m, failing),
         NEW pointed, pointed = Pointed(images, t, m, failing),
         NEW after, after = After(h, t, m, failing)
  PROVE  /\ DOMAIN after = ({x.alias : x \in pointed} \cup DOMAIN images) \ (ToDelete(t, m) \ failing)
         /\ \A x \in pointed : x.alias \in DOMAIN after => after[x.alias] = images[x.target]
         /\ \A o \in DOMAIN after : (\A x \in pointed : x.alias # o) => after[o] = images[o]
<1> DEFINE names   == {x.alias : x \in pointed}
           one(o)  == CHOOSE x \in pointed : x.alias = o
           left    == (names \cup DOMAIN images) \ (ToDelete(t, m) \ failing)
<1>1. after = [o \in left |-> IF o \in names THEN images[one(o).target] ELSE images[o]]
  BY DEF After
<1>2. ASSUME NEW x \in pointed PROVE one(x.alias) = x
  <2>1. pointed \subseteq t.aliases
    BY DEF Pointed, ToPoint
  <2>2. one(x.alias) \in pointed /\ one(x.alias).alias = x.alias
    OBVIOUS
  <2> HIDE DEF one
  <2>3. QED
    BY <2>1, <2>2 DEF Proper
<1> HIDE DEF one
<1>3. DOMAIN after = left
      /\ (\A o \in left : o \in names => after[o] = images[one(o).target])
      /\ \A o \in left : o \notin names => after[o] = images[o]
  BY <1>1
<1>4. QED
  BY <1>2, <1>3

\* What is held stays of the known kinds.
LEMMA AfterHeld ==
  ASSUME NEW h, NEW t, NEW m, NEW failing, Proper(t), HeldOK(h)
  PROVE  HeldOK(After(h, t, m, failing))
<1> DEFINE images  == Placed(h, t, m, failing)
           pointed == Pointed(images, t, m, failing)
           after   == After(h, t, m, failing)
           Ok(c)   == c = Content(c) /\ (c.src \in Revisions => c.transform = <<>>)
<1>1. ASSUME NEW o \in DOMAIN images PROVE Ok(images[o])
  <2>1. CASE o \in DOMAIN h /\ images[o] = h[o]
    BY <2>1 DEF HeldOK
  <2>2. CASE \E i \in ToPlace(t, m) : i.out = o /\ images[o] = Content(i)
    <3>1. PICK i \in ToPlace(t, m) : images[o] = Content(i)
      BY <2>2
    <3>2. i \in t.images
      BY DEF ToPlace
    <3>3. Content(i).src = i.src /\ Content(i).transform = i.transform /\ Content(Content(i)) = Content(i)
      BY DEF Content
    <3>4. QED
      BY <3>1, <3>2, <3>3 DEF Proper
  <2>3. QED
    BY <2>1, <2>2, PlacedFacts
<1> HIDE DEF Ok
<1>2. /\ \A x \in pointed : x.target \in DOMAIN images
      /\ DOMAIN after \subseteq {x.alias : x \in pointed} \cup DOMAIN images
      /\ \A x \in pointed : x.alias \in DOMAIN after => after[x.alias] = images[x.target]
      /\ \A o \in DOMAIN after : (\A x \in pointed : x.alias # o) => after[o] = images[o]
  <2>1. \A x \in pointed : x.target \in DOMAIN images
    BY DEF Pointed
  <2>2. /\ DOMAIN after = ({x.alias : x \in pointed} \cup DOMAIN images) \ (ToDelete(t, m) \ failing)
        /\ \A x \in pointed : x.alias \in DOMAIN after => after[x.alias] = images[x.target]
        /\ \A o \in DOMAIN after : (\A x \in pointed : x.alias # o) => after[o] = images[o]
    <3>1. images = Placed(h, t, m, failing) /\ pointed = Pointed(images, t, m, failing) /\ after = After(h, t, m, failing)
      OBVIOUS
    <3> HIDE DEF images, pointed, after
    <3>2. QED
      BY <3>1, PointedFacts
  <2> HIDE DEF images, pointed, after
  <2>3. QED
    BY <2>1, <2>2
<1>3. after = [o \in DOMAIN after |-> after[o]]
  BY DEF After
<1> HIDE DEF images, pointed, after
<1>4. \A o \in DOMAIN after : Ok(after[o])
  BY <1>1, <1>2
<1>5. QED
  BY <1>3, <1>4 DEF HeldOK, Ok, after

\* When every operation succeeds on a repository as it was read, it is as planned.
LEMMA AfterFits ==
  ASSUME NEW h, NEW t, Proper(t), HeldOK(h),
         ToPoint(t, h) \subseteq Pointed(Placed(h, t, h, {}), t, h, {})
  PROVE  Fits(t, After(h, t, h, {}))
<1> DEFINE images  == Placed(h, t, h, {})
           pointed == Pointed(images, t, h, {})
           after   == After(h, t, h, {})
<1>1. pointed = ToPoint(t, h) /\ pointed \subseteq t.aliases
  BY DEF Pointed, ToPoint
<1>2. /\ DOMAIN after = ({x.alias : x \in pointed} \cup DOMAIN images) \ ToDelete(t, h)
      /\ \A x \in pointed : x.alias \in DOMAIN after => after[x.alias] = images[x.target]
      /\ \A o \in DOMAIN after : (\A x \in pointed : x.alias # o) => after[o] = images[o]
  <2>1. images = Placed(h, t, h, {}) /\ pointed = Pointed(images, t, h, {}) /\ after = After(h, t, h, {})
    OBVIOUS
  <2>2. ToDelete(t, h) \ {} = ToDelete(t, h)
    OBVIOUS
  <2> HIDE DEF images, pointed, after
  <2>3. /\ DOMAIN after = ({x.alias : x \in pointed} \cup DOMAIN images) \ (ToDelete(t, h) \ {})
        /\ \A x \in pointed : x.alias \in DOMAIN after => after[x.alias] = images[x.target]
        /\ \A o \in DOMAIN after : (\A x \in pointed : x.alias # o) => after[o] = images[o]
    BY <2>1, PointedFacts
  <2>4. QED
    BY <2>2, <2>3
<1>3. /\ DOMAIN h \subseteq DOMAIN images
      /\ \A o \in DOMAIN images : \/ o \in DOMAIN h /\ images[o] = h[o] /\ \A i \in ToPlace(t, h) : i.out # o
                                  \/ \E i \in ToPlace(t, h) : i.out = o /\ images[o] = Content(i)
      /\ \A i \in ToPlace(t, h) : i.out \in DOMAIN images /\ images[i.out] = Content(i)
  BY PlacedFacts
<1> HIDE DEF images, pointed, after
<1>4. ASSUME NEW i \in t.images PROVE i.out \in DOMAIN images /\ images[i.out] = Content(i)
  <2>1. CASE i \in ToPlace(t, h)
    BY <1>3, <2>1
  <2>2. CASE i \notin ToPlace(t, h)
    <3>1. i.out \in DOMAIN h /\ h[i.out] = Content(i)
      BY <2>2 DEF ToPlace
    <3>2. \A j \in ToPlace(t, h) : j.out # i.out
      BY <2>2 DEF Proper, ToPlace
    <3>3. QED
      BY <1>3, <3>1, <3>2
  <2>3. QED
    BY <2>1, <2>2
<1>5. ToDelete(t, h) \cap Wanted(t) = {}
  BY DEF ToDelete
<1>6. ASSUME NEW i \in t.images PROVE i.out \in DOMAIN after /\ after[i.out] = Content(i)
  <2>1. i.out \in Wanted(t) /\ \A x \in pointed : x.alias # i.out
    BY <1>1 DEF Wanted, Proper
  <2>2. QED
    BY <1>2, <1>4, <1>5, <2>1
<1>7. ASSUME NEW x \in t.aliases
      PROVE  {x.alias, x.target} \subseteq DOMAIN after /\ after[x.alias] = after[x.target]
  <2>1. PICK i \in t.images : i.out = x.target
    BY DEF Proper
  <2>2. x.target \in DOMAIN after /\ after[x.target] = Content(i) /\ images[x.target] = Content(i)
    BY <1>4, <1>6, <2>1
  <2>3. x.alias \in Wanted(t)
    BY DEF Wanted
  <2>4. CASE x \in pointed
    BY <1>2, <1>5, <2>2, <2>3, <2>4
  <2>5. CASE x \notin pointed
    <3>1. t.mode = "none" /\ ToPlace(t, h) = {} /\ x.alias \in DOMAIN h /\ h[x.alias].src = x.target
      BY <1>1, <2>5 DEF ToPoint
    <3>2. \A y \in pointed : y.alias # x.alias
      BY <1>1, <2>5 DEF Proper
    <3>3. x.alias \in DOMAIN after /\ after[x.alias] = h[x.alias]
      BY <1>2, <1>3, <1>5, <2>3, <3>1, <3>2
    <3>4. i.src = x.target /\ x.target \in Revisions /\ i.transform = <<>>
      BY <2>1, <3>1 DEF Proper
    <3>5. h[x.alias] = Content(i)
      BY <3>1, <3>4 DEF HeldOK, Content
    <3>6. QED
      BY <2>2, <3>3, <3>5
  <2>6. QED
    BY <2>4, <2>5
<1>8. ToDelete(t, after) = {}
  <2>1. ASSUME t.mode = "purge", NEW o \in DOMAIN after PROVE o \in Wanted(t)
    <3>1. CASE \E x \in pointed : x.alias = o
      BY <1>1, <3>1 DEF Wanted
    <3>2. CASE \E i \in t.images : i.out = o
      BY <3>2 DEF Wanted
    <3>3. CASE o \in DOMAIN h
      BY <1>2, <2>1, <3>3 DEF ToDelete
    <3>4. QED
      BY <1>2, <1>3, <2>1, <3>1, <3>2, <3>3 DEF ToPlace
  <2>2. QED
    BY <2>1 DEF ToDelete
<1>9. QED
  BY <1>6, <1>7, <1>8 DEF Fits, after

-----------------------------------------------------------------------------
(* What can be planned of a policy.                                        *)

\* A plan of a git policy, but for what was read of the destination.
GitMade(p, rev, ts) ==
    /\ DOMAIN ts = DOMAIN Destinations(p)
    /\ \A j \in DOMAIN ts : /\ ts[j].repo = DestRepo(Destinations(p)[j]) /\ ts[j].mode = "none"
                            /\ ts[j].images = {[out |-> rev, src |-> rev, transform |-> <<>>]}
                            /\ ts[j].aliases = {[alias |-> p.source.ref, target |-> rev, variant |-> 1]}

Made(ts, p) ==
    IF p.source.kind = "git" THEN \E rev \in Revisions : GitMade(p, rev, ts)
    ELSE \E tags \in SourceTags[p.source.repo] : ts \in PlansOf(p, tags)

\* A policy of a set that is accepted names registries of the roster.
LEMMA AcceptedFacts ==
  ASSUME NEW s, NEW f \in DOMAIN PolicySets, Refused(s, f) = 0, NEW p \in ToSet(Policies(f))
  PROVE  /\ p \in Policy
         /\ \A d \in ToSet(Destinations(p)) : ResolveRegistry(d.registry) \in DOMAIN Roster
         /\ DestRepos(p) \subseteq Repos
<1> DEFINE ps == Policies(f)
           bad == {i \in DOMAIN ps : Unresolved(ps[i]) # 0}
<1>1. FirstError(ps) = 0
  BY DEF Refused
<1>2. bad = {}
  <2> SUFFICES ASSUME bad # {} PROVE FALSE
    OBVIOUS
  <2>1. ps \in Seq(ToSet(ps))
    BY DriverAssumption DEF Policies
  <2>2. bad \in SUBSET Nat
    BY <2>1
  <2>3. PICK x \in bad : \A y \in bad : x <= y
    BY <2>2, NatLeast
  <2>4. Min(bad) \in bad
    BY <2>3 DEF Min
  <2>5. FirstError(ps) = Unresolved(ps[Min(bad)])
    BY DEF FirstError
  <2>6. QED
    BY <1>1, <2>4, <2>5
<1>3. Unresolved(p) = 0
  <2>1. PICK i \in DOMAIN ps : p = ps[i]
    BY DEF ToSet
  <2>2. QED
    BY <1>2, <2>1
<1>4. \A d \in ToSet(Destinations(p)) : ResolveRegistry(d.registry) # Unset
  BY <1>3 DEF Unresolved
<1>5. ASSUME NEW d \in ToSet(Destinations(p)) PROVE ResolveRegistry(d.registry) \in DOMAIN Roster
  <2> DEFINE found == {e \in DOMAIN Roster : d.registry = e \/ (d.registry = Unset /\ DOMAIN Roster = {e})}
  <2>1. ResolveRegistry(d.registry) = IF found = {} THEN Unset ELSE CHOOSE e \in found : TRUE
    BY DEF ResolveRegistry
  <2>2. QED
    BY <1>4, <2>1
<1>6. DestRepos(p) \subseteq Repos
  <2>1. p \in {q \in ToSet(PolicySets[f]) : \A d \in ToSet(Destinations(q)) : ResolveRegistry(d.registry) # Unset}
    BY <1>4 DEF Policies
  <2> DEFINE sound(g) == {q \in ToSet(PolicySets[g]) : \A d \in ToSet(Destinations(q)) : ResolveRegistry(d.registry) # Unset}
             named(g) == UNION {DestRepos(q) : q \in sound(g)}
  <2>2. Repos = UNION {named(g) : g \in DOMAIN PolicySets}
    BY Zenon DEF Repos
  <2> HIDE DEF sound
  <2>3. DestRepos(p) \subseteq named(f)
    BY <2>1, Zenon DEF sound
  <2> HIDE DEF named
  <2>4. QED
    BY <2>2, <2>3
<1>7. QED
  BY <1>5, <1>6 DEF Policy

LEMMA MadeFacts == ASSUME NEW p \in Policy, source[p.source.repo] \in SourceTags[p.source.repo],
                          NEW ts \in Plannings(p)
                   PROVE  Made(ts, p)
<1>1. CASE p.source.kind = "git"
  <2> DEFINE d == Destinations(p)
  <2>1. PICK rev \in source[p.source.repo] : ts = [j \in DOMAIN d |->
            LET repo == DestRepo(d[j])
            IN  [repo |-> repo, mode |-> "none",
                 images |-> {[out |-> rev, src |-> rev, transform |-> <<>>]},
                 aliases |-> {[alias |-> p.source.ref, target |-> rev, variant |-> 1]}, mirror |-> dest[repo]]]
    BY <1>1, Zenon DEF Plannings, GitPlans
  <2>2. GitMade(p, rev, ts)
    BY <2>1 DEF GitMade
  <2>3. rev \in Revisions
    BY <1>1, <2>1 DEF Revisions
  <2>4. QED
    BY <1>1, <2>2, <2>3 DEF Made
<1>2. CASE p.source.kind # "git"
  BY <1>2 DEF Plannings, Made
<1>3. QED
  BY <1>1, <1>2

OneVariant(t) == \A x, y \in t.aliases : x.alias = y.alias => x.variant = y.variant

\* No two aliases of one name in one plan, when there are none among several.
LEMMA OneCollision ==
  ASSUME NEW done, ~AliasesCollide(done), NEW k \in DOMAIN done
  PROVE  ~AliasesCollide(<<[targets |-> done[k].targets]>>)
         /\ \A t \in ToSet(done[k].targets) : OneVariant(t)
<1> DEFINE ts == done[k].targets
           entry(n, j, x) == [repo |-> ts[j].repo, alias |-> x.alias, for |-> <<n, j, x.variant>>]
<1>1. ASSUME NEW j \in DOMAIN ts, NEW x \in ts[j].aliases PROVE entry(k, j, x) \in AliasEntries(done)
  <2> DEFINE row(n, i) == {[repo |-> done[n].targets[i].repo, alias |-> z.alias, for |-> <<n, i, z.variant>>] :
                              z \in done[n].targets[i].aliases}
             block(n) == UNION {row(n, i) : i \in DOMAIN done[n].targets}
  <2>1. AliasEntries(done) = UNION {block(n) : n \in DOMAIN done}
    BY Zenon DEF AliasEntries
  <2>2. entry(k, j, x) \in row(k, j)
    OBVIOUS
  <2> HIDE DEF row
  <2>3. entry(k, j, x) \in block(k)
    BY <2>2
  <2> HIDE DEF block
  <2>4. QED
    BY <2>1, <2>3
<1>2. ASSUME NEW i \in DOMAIN ts, NEW j \in DOMAIN ts, NEW x \in ts[i].aliases, NEW y \in ts[j].aliases,
             ts[i].repo = ts[j].repo, x.alias = y.alias
      PROVE  i = j /\ x.variant = y.variant
  <2>1. /\ entry(k, i, x).repo = entry(k, j, y).repo /\ entry(k, i, x).alias = entry(k, j, y).alias
        /\ entry(k, i, x).for = <<k, i, x.variant>> /\ entry(k, j, y).for = <<k, j, y.variant>>
    BY <1>2
  <2> HIDE DEF ts, entry
  <2>2. entry(k, i, x) = entry(k, j, y)
    BY <1>1, <2>1 DEF AliasesCollide
  <2>3. QED
    BY <2>1, <2>2
<1>3. ~AliasesCollide(<<[targets |-> ts]>>)
  <2> SUFFICES ASSUME NEW d \in AliasEntries(<<[targets |-> ts]>>), NEW e \in AliasEntries(<<[targets |-> ts]>>),
                      d.repo = e.repo, d.alias = e.alias
               PROVE  d = e
    BY Zenon DEF AliasesCollide
  <2>1. ASSUME NEW z \in AliasEntries(<<[targets |-> ts]>>)
        PROVE  \E i \in DOMAIN ts : \E x \in ts[i].aliases : z = entry(1, i, x)
    <3> HIDE DEF ts
    <3>1. DOMAIN <<[targets |-> ts]>> = {1} /\ <<[targets |-> ts]>>[1].targets = ts
      OBVIOUS
    <3>2. QED
      BY <3>1 DEF AliasEntries
  <2>2. PICK i \in DOMAIN ts : \E x \in ts[i].aliases : d = entry(1, i, x)
    BY <2>1
  <2>3. PICK x \in ts[i].aliases : d = entry(1, i, x)
    BY <2>2
  <2>4. PICK j \in DOMAIN ts : \E y \in ts[j].aliases : e = entry(1, j, y)
    BY <2>1
  <2>5. PICK y \in ts[j].aliases : e = entry(1, j, y)
    BY <2>4
  <2>6. ts[i].repo = ts[j].repo /\ x.alias = y.alias
    BY <2>3, <2>5
  <2>7. i = j /\ x.variant = y.variant
    BY <1>2, <2>6
  <2>8. QED
    BY <2>3, <2>5, <2>6, <2>7
<1>4. \A t \in ToSet(ts) : OneVariant(t)
  <2> SUFFICES ASSUME NEW t \in ToSet(ts), NEW x \in t.aliases, NEW y \in t.aliases, x.alias = y.alias
               PROVE  x.variant = y.variant
    BY Zenon DEF OneVariant
  <2>1. PICK j \in DOMAIN ts : t = ts[j]
    BY DEF ToSet
  <2> HIDE DEF ts
  <2>2. QED
    BY <1>2, <2>1
<1>5. QED
  BY <1>3, <1>4

\* The alias targets of a registry plan are images of it, of tags that the source has.
LEMMA PlannedFacts ==
  ASSUME NEW p \in Policy, NEW tags, NEW ts \in PlansOf(p, tags), NEW t \in ToSet(ts)
  PROVE  /\ \A i \in t.images : i.src \in tags
         /\ \A x \in t.aliases : \E i \in t.images : i.out = x.target
         /\ \E d \in ToSet(Destinations(p)) : t.repo = DestRepo(d) /\ t.mode = DeletionMode(p, d)
<1> DEFINE imp(i) == ResolveImports(p)[i]
           own(i) == SelectTags(imp(i).tags, tags)
<1>1. PICK i \in DOMAIN p.imports : \E d \in ToSet(Inner(p)[i]) : \E c \in ResolveAliases(imp(i).tags, own(i)) :
         t = Planned(p, imp(i), d, own(i), c)
  <2>1. PlannedBy(p, tags, t)
    BY PlansFacts
  <2>2. QED
    BY <2>1, Zenon DEF PlannedBy
<1>2. PICK d \in ToSet(Inner(p)[i]) : \E c \in ResolveAliases(imp(i).tags, own(i)) :
         t = Planned(p, imp(i), d, own(i), c)
  BY <1>1
<1>3. PICK c \in ResolveAliases(imp(i).tags, own(i)) : t = Planned(p, imp(i), d, own(i), c)
  BY <1>2
<1>4. /\ t.images = Images(imp(i), own(i)) /\ t.aliases = Pointers(imp(i), c)
      /\ t.repo = DestRepo(d) /\ t.mode = DeletionMode(p, d)
  BY <1>3 DEF Planned
<1>5. d \in ToSet(Destinations(p))
  BY <1>2, DestinationFacts
<1>6. own(i) \subseteq tags
  BY DEF SelectTags
<1>7. \A a \in DOMAIN c : c[a] \in own(i)
  BY DEF ResolveAliases
<1> HIDE DEF own, imp
<1>8. ASSUME NEW x \in t.aliases PROVE \E image \in t.images : image.out = x.target
  <2> DEFINE vs == ExpandVariants(imp(i))
  <2>1. PICK v \in DOMAIN vs : \E a \in DOMAIN c :
           x = [alias |-> Suffixed(a, vs[v].suffix), target |-> Suffixed(c[a], vs[v].suffix), variant |-> v]
    BY <1>4 DEF Pointers
  <2>2. PICK a \in DOMAIN c :
           x = [alias |-> Suffixed(a, vs[v].suffix), target |-> Suffixed(c[a], vs[v].suffix), variant |-> v]
    BY <2>1
  <2> DEFINE image == [out |-> Suffixed(c[a], vs[v].suffix), src |-> c[a], transform |-> vs[v].transform]
  <2>3. vs[v] \in ToSet(vs) /\ c[a] \in own(i)
    BY <1>7 DEF ToSet
  <2>4. image \in t.images
    BY <1>4, <2>3 DEF Images
  <2>5. image.out = x.target
    BY <2>2
  <2>6. QED
    BY <2>4, <2>5
<1>9. \A image \in t.images : image.src \in tags
  BY <1>4, <1>6 DEF Images
<1>10. QED
  BY <1>4, <1>5, <1>8, <1>9

\* What is planned of a tidy policy can be carried out, when its aliases do not collide.
LEMMA ProperFacts ==
  ASSUME NEW s \in Shards, NEW f \in DOMAIN PolicySets, Refused(s, f) = 0, NEW p \in ToSet(Batches(s, f)), Tidy,
         NEW done, ~AliasesCollide(done), NEW k \in DOMAIN done, Made(done[k].targets, p), IsSeq(done[k].targets)
  PROVE  /\ \A t \in ToSet(done[k].targets) : Proper(t)
         /\ \A i, j \in DOMAIN done[k].targets : done[k].targets[i].repo = done[k].targets[j].repo => i = j
<1> DEFINE ts == done[k].targets
<1>1. p \in ToSet(Policies(f)) /\ TidyPolicy(p) /\ p \in Policy
  BY BatchFacts DEF Tidy, Policy
<1>2. CASE p.source.kind = "git"
  <2>1. PICK rev \in Revisions : GitMade(p, rev, ts)
    BY <1>2 DEF Made
  <2>2. p.source.ref \notin Revisions
        /\ \A i, j \in DOMAIN Destinations(p) : DestRepo(Destinations(p)[i]) = DestRepo(Destinations(p)[j]) => i = j
    BY <1>1, <1>2 DEF TidyPolicy
  <2>3. ASSUME NEW t \in ToSet(ts) PROVE Proper(t)
    <3> DEFINE image == [out |-> rev, src |-> rev, transform |-> <<>>]
               x == [alias |-> p.source.ref, target |-> rev, variant |-> 1]
    <3>1. t.images = {image} /\ t.aliases = {x}
      BY <2>1 DEF GitMade, ToSet
    <3>2. image.out = rev /\ image.src = rev /\ image.transform = <<>> /\ x.alias = p.source.ref /\ x.target = rev
      OBVIOUS
    <3> HIDE DEF image, x
    <3>3. QED
      BY <2>2, <3>1, <3>2 DEF Proper
  <2>4. QED
    BY <2>1, <2>2, <2>3 DEF GitMade
<1>3. CASE p.source.kind # "git"
  <2>1. PICK tags \in SourceTags[p.source.repo] : ts \in PlansOf(p, tags)
    BY <1>3 DEF Made
  <2>2. ~AliasesCollide(<<[targets |-> ts]>>)
    BY OneCollision
  <2>3. tags \cap Revisions = {} /\ (\A i, j \in DOMAIN ts : ts[i].repo = ts[j].repo => i = j)
        /\ \A t \in ToSet(ts) : NamesApart(t)
    BY <1>1, <1>3, <2>1, <2>2, Zenon DEF TidyPolicy
  <2>4. ASSUME NEW t \in ToSet(ts) PROVE Proper(t)
    <3>1. /\ \A i \in t.images : i.src \in tags
          /\ \A x \in t.aliases : \E i \in t.images : i.out = x.target
          /\ \E d \in ToSet(Destinations(p)) : t.mode = DeletionMode(p, d)
      BY <1>1, <2>1, PlannedFacts
    <3>2. t.mode # "none"
      <4>1. PICK d \in ToSet(Destinations(p)) : t.mode = DeletionMode(p, d)
        BY <3>1
      <4>2. ResolveRegistry(d.registry) \in DOMAIN Roster
        BY <1>1, AcceptedFacts
      <4>3. p.mode \in Modes \cup {Unset}
        BY <1>1, DriverAssumption DEF IsPolicy, Policies
      <4>4. t.mode \in Modes
        BY <4>1, <4>2, <4>3, SchemaAssumption DEF DeletionMode
      <4>5. QED
        BY <4>4 DEF Modes
    <3>3. OneVariant(t)
      BY OneCollision
    <3>4. QED
      BY <2>3, <3>1, <3>2, <3>3 DEF Proper, NamesApart, OneVariant
  <2>5. QED
    BY <2>3, <2>4
<1>4. QED
  BY <1>2, <1>3

-----------------------------------------------------------------------------
(* The second invariant: what an exit code can be trusted for.             *)

Active(s) == stage[s] \in {"plan", "read", "write", "done"}

\* Target j of policy k has been written, or given up.
Behind(s, k, j) ==
    stage[s] # "plan" /\ (k < at[s][1] \/ (k = at[s][1] /\ j < at[s][2]))

\* The repositories hold what can be placed, the sources have what they can have.
WorldOK ==
    /\ DOMAIN dest = Repos /\ \A r \in Repos : HeldOK(dest[r])
    /\ DOMAIN source = DOMAIN SourceTags /\ \A r \in DOMAIN SourceTags : source[r] \in SourceTags[r]
    /\ DOMAIN mirror = Shards

\* A policy report is ok exactly if every code in it is 0.
Frank(r) ==
    /\ r.code \in {0, 2} /\ \A o \in r.ops : o.code \in {0, 2}
    /\ r.status = "ok" <=> r.code = 0 /\ \A o \in r.ops : o.code = 0

ToldOK(s) ==
    /\ \A r \in ToSet(report[s]) : Frank(r)
    /\ \A o \in ops[s] : o.code \in {0, 2}
    /\ stage[s] = "done" => exit[s] = ExitOf(report[s])

\* Plans are made of what the sources can have, for policies that were accepted.
MadeOK(s) ==
    /\ Active(s) => /\ Refused(s, seen[s]) = 0
                    /\ \A k \in DOMAIN plans[s] : Made(plans[s][k].targets, Batch(s)[k])
    /\ stage[s] \in {"read", "write", "done"} => ~AliasesCollide(plans[s])

\* Nothing of policy k has failed.
Well(s, k) ==
    IF k = at[s][1] THEN \A o \in ops[s] : o.code = 0
    ELSE \A r \in ToSet(report[s]) : r.name = plans[s][k].name => r.status = "ok"

\* A repository ahead is as it was read; one behind is as planned, if nothing of
\* its policy failed.
KeptOK(s) ==
    /\ Active(s) => \A k \in DOMAIN plans[s] : \A j \in DOMAIN plans[s][k].targets :
          plans[s][k].kind = "git" /\ ~Behind(s, k, j) =>
              plans[s][k].targets[j].mirror = dest[plans[s][k].targets[j].repo]
    /\ stage[s] = "write" => mirror[s] = dest[target(s).repo]
    /\ stage[s] \in {"read", "write", "done"} =>
          \A k \in DOMAIN plans[s] : \A j \in DOMAIN plans[s][k].targets :
              Behind(s, k, j) /\ Well(s, k) => Fits(plans[s][k].targets[j], dest[plans[s][k].targets[j].repo])

RunOK(s) == ToldOK(s) /\ MadeOK(s) /\ KeptOK(s)

RunInv == WorldOK /\ \A s \in Shards : RunOK(s)

\* What a pod does to the destination it is at does not disturb what the others rely on.
LEMMA RunOther ==
  ASSUME Inv, NEW s \in Shards, NEW u \in Shards \ {s}, RunOK(u), Others(s), mirror'[u] = mirror[u],
         Active(u) => \A k \in DOMAIN plans[u] : \A j \in DOMAIN plans[u][k].targets :
             dest'[plans[u][k].targets[j].repo] = dest[plans[u][k].targets[j].repo]
  PROVE  RunOK(u)'
<1>1. /\ stage'[u] = stage[u] /\ seen'[u] = seen[u] /\ plans'[u] = plans[u] /\ at'[u] = at[u]
      /\ ops'[u] = ops[u] /\ report'[u] = report[u] /\ exit'[u] = exit[u] /\ wrote'[u] = wrote[u]
  BY DEF Others
<1>2. ToldOK(u)'
  BY <1>1 DEF RunOK, ToldOK
<1>3. MadeOK(u)'
  BY <1>1 DEF RunOK, MadeOK, Active, Batch
<1>4. \A k, j : Behind(u, k, j)' <=> Behind(u, k, j)
  BY <1>1 DEF Behind
<1>5. (\A k : Well(u, k)' <=> Well(u, k)) /\ (Active(u)' <=> Active(u)) /\ target(u)' = target(u)
  BY <1>1 DEF Well, Active, target, policy
<1>6. stage[u] = "write" => dest'[target(u).repo] = dest[target(u).repo]
  <2> SUFFICES ASSUME stage[u] = "write" PROVE dest'[target(u).repo] = dest[target(u).repo]
    OBVIOUS
  <2>1. at[u][1] \in DOMAIN plans[u]
    BY DEF Inv, PodOK, ReportOK
  <2>2. at[u][2] \in DOMAIN policy(u).targets
    BY <2>1, TargetFacts DEF IsSeq
  <2>3. QED
    BY <2>1, <2>2 DEF target, policy, Active
<1>7. KeptOK(u)'
  <2>1. KeptOK(u)
    BY DEF RunOK
  <2>2. ASSUME Active(u), NEW k \in DOMAIN plans[u], NEW j \in DOMAIN plans[u][k].targets,
               plans[u][k].kind = "git", ~Behind(u, k, j)
        PROVE  plans[u][k].targets[j].mirror = dest'[plans[u][k].targets[j].repo]
    BY <2>1, <2>2 DEF KeptOK
  <2>3. ASSUME stage[u] \in {"read", "write", "done"},
               NEW k \in DOMAIN plans[u], NEW j \in DOMAIN plans[u][k].targets, Behind(u, k, j), Well(u, k)
        PROVE  Fits(plans[u][k].targets[j], dest'[plans[u][k].targets[j].repo])
    BY <2>1, <2>3 DEF KeptOK, Active
  <2>4. stage[u] = "write" => mirror'[u] = dest'[target(u).repo]
    BY <1>6, <2>1 DEF KeptOK
  <2>5. QED
    BY <1>1, <1>4, <1>5, <2>2, <2>3, <2>4 DEF KeptOK
<1>8. QED
  BY <1>2, <1>3, <1>7 DEF RunOK

LEMMA RunFromPod ==
  ASSUME Inv, RunInv, NEW s \in Shards, Others(s), RunOK(s)', UNCHANGED <<dest, source>>,
         DOMAIN mirror' = DOMAIN mirror, \A u \in Shards \ {s} : mirror'[u] = mirror[u]
  PROVE  RunInv'
<1>1. WorldOK'
  BY DEF RunInv, WorldOK
<1>2. ASSUME NEW u \in Shards PROVE RunOK(u)'
  <2>1. CASE u = s
    BY <2>1
  <2>2. CASE u # s
    BY <2>2, RunOther DEF RunInv
  <2>3. QED
    BY <2>1, <2>2
<1>3. QED
  BY <1>1, <1>2 DEF RunInv

LEMMA HaltRun ==
  ASSUME Inv, RunInv, NEW s \in Shards, NEW code,
         Stops(s, code), UNCHANGED <<files, job, plans, at, wrote, dest, source>>,
         seen' = seen \/ seen' = [seen EXCEPT ![s] = files]
  PROVE  RunInv'
<1>1. /\ stage' = [stage EXCEPT ![s] = "stopped"] /\ report' = [report EXCEPT ![s] = <<>>]
      /\ exit' = [exit EXCEPT ![s] = code] /\ ops' = [ops EXCEPT ![s] = {}] /\ mirror' = [mirror EXCEPT ![s] = Unset]
  BY DEF Stops, Ends
<1>2. TypeInv /\ DOMAIN mirror = Shards
  BY DEF Inv, RunInv, WorldOK
<1>3. stage'[s] = "stopped" /\ report'[s] = <<>> /\ ops'[s] = {}
  BY <1>1, <1>2 DEF TypeInv
<1>4. Others(s)
  BY <1>1, <1>2 DEF TypeInv, Others
<1>5. DOMAIN mirror' = DOMAIN mirror /\ \A u \in Shards \ {s} : mirror'[u] = mirror[u]
  BY <1>1, <1>2
<1>6. RunOK(s)'
  <2>1. ToSet(<<>>) = {}
    BY DEF ToSet
  <2>2. ToldOK(s)'
    BY <1>3, <2>1 DEF ToldOK
  <2>3. MadeOK(s)' /\ KeptOK(s)'
    BY <1>3 DEF MadeOK, KeptOK, Active
  <2>4. QED
    BY <2>2, <2>3 DEF RunOK
<1>7. QED
  BY <1>4, <1>5, <1>6, RunFromPod

LEMMA StartPodRun == ASSUME Inv, RunInv, NEW s \in Shards, StartPod(s) PROVE RunInv'
<1>1. TypeInv /\ PodOK(s) /\ RunOK(s)
  BY DEF Inv, RunInv
<1>2. /\ stage[s] = "waiting" /\ job /\ seen' = [seen EXCEPT ![s] = files]
      /\ UNCHANGED <<files, job, plans, at, wrote, dest, source>>
  BY DEF StartPod, worldVars
<1>3. CASE Refused(s, files) = 0
  <2>1. stage' = [stage EXCEPT ![s] = "plan"] /\ UNCHANGED <<exit, report, ops, mirror>>
    BY <1>3 DEF StartPod
  <2>2. stage'[s] = "plan" /\ seen'[s] = files
    BY <1>1, <1>2, <2>1 DEF TypeInv
  <2>3. Others(s)
    BY <1>1, <1>2, <2>1 DEF TypeInv, Others
  <2>4. plans'[s] = <<>> /\ DOMAIN <<>> = {}
    BY <1>1, <1>2 DEF PodOK, PlansOK
  <2>5. ToldOK(s)'
    BY <1>1, <2>1, <2>2 DEF RunOK, ToldOK
  <2>6. MadeOK(s)' /\ KeptOK(s)'
    <3>1. MadeOK(s)'
      BY <1>3, <2>2, <2>4 DEF MadeOK
    <3>2. KeptOK(s)'
      BY <2>2, <2>4 DEF KeptOK
    <3>3. QED
      BY <3>1, <3>2
  <2>7. QED
    BY <1>2, <2>1, <2>3, <2>5, <2>6, RunFromPod DEF RunOK
<1>4. CASE Refused(s, files) # 0
  <2>1. Stops(s, Refused(s, files))
    BY <1>4 DEF StartPod
  <2>2. QED
    BY <1>2, <2>1, HaltRun
<1>5. QED
  BY <1>3, <1>4

\* What is planned is as it was read.
AsRead(e) == e.kind = "git" => \A j \in DOMAIN e.targets : e.targets[j].mirror = dest[e.targets[j].repo]

LEMMA PlannedRun ==
  ASSUME Inv, RunInv, NEW s \in Shards, stage[s] = "plan",
         NEW done, \A k \in DOMAIN done : Made(done[k].targets, Batch(s)[k]) /\ AsRead(done[k]),
         IsSeq(done), Len(done) <= Len(Batch(s)),
         \A k \in DOMAIN done : IsSeq(done[k].targets),
         DOMAIN plans' = DOMAIN plans, plans'[s] = done, \A u \in Shards \ {s} : plans'[u] = plans[u],
         AfterPlan(s, done), UNCHANGED <<files, job, seen, wrote, dest, source>>
  PROVE  RunInv'
<1>1. TypeInv /\ PodOK(s) /\ RunOK(s) /\ DOMAIN mirror = Shards
  BY DEF Inv, RunInv, WorldOK
<1>2. Batch(s)' = Batch(s) /\ Len(done) \in Nat /\ Len(Batch(s)) \in Nat
  <2>1. seen[s] \in DOMAIN PolicySets
    BY <1>1 DEF TypeInv
  <2>2. IsSeq(Batch(s))
    BY <2>1, BatchFacts DEF Batch
  <2>3. QED
    BY <2>2 DEF IsSeq, Batch
<1>3. Refused(s, seen[s]) = 0
  BY <1>1 DEF PodOK, SeenOK
<1>4. \A k \in DOMAIN done : done[k].kind = "git" =>
          \A j \in DOMAIN done[k].targets : done[k].targets[j].mirror = dest[done[k].targets[j].repo]
  BY DEF AsRead
<1>5. CASE Len(done) < Len(Batch(s))
  <2>1. UNCHANGED <<stage, exit, report, mirror, ops, at>>
    BY <1>5 DEF AfterPlan
  <2>2. Others(s)
    BY <1>1, <2>1 DEF TypeInv, Others
  <2>3. ToldOK(s)'
    BY <1>1, <2>1 DEF RunOK, ToldOK
  <2>4. MadeOK(s)'
    BY <1>2, <1>3, <2>1 DEF MadeOK
  <2>5. KeptOK(s)'
    BY <1>4, <2>1 DEF KeptOK
  <2>6. QED
    BY <2>1, <2>2, <2>3, <2>4, <2>5, RunFromPod DEF RunOK
<1>6. CASE Len(done) = Len(Batch(s)) /\ ~AliasesCollide(done)
  <2>1. Onto(s, 1, 1) /\ UNCHANGED <<exit, report, mirror, ops>>
    BY <1>2, <1>6 DEF AfterPlan
  <2>2. /\ stage' = [stage EXCEPT ![s] = "read"] /\ at' = [at EXCEPT ![s] = <<1, 1>>]
        /\ stage'[s] = "read" /\ at'[s] = <<1, 1>> /\ UNCHANGED <<exit, report, ops, mirror>>
    BY <1>1, <2>1 DEF Onto, TypeInv
  <2>3. Others(s)
    BY <1>1, <2>2 DEF TypeInv, Others
  <2>4. ToldOK(s)'
    BY <1>1, <2>2 DEF RunOK, ToldOK
  <2>5. MadeOK(s)'
    BY <1>2, <1>3, <1>6, <2>2 DEF MadeOK
  <2>6. ASSUME NEW k \in DOMAIN done, NEW j \in DOMAIN done[k].targets PROVE ~Behind(s, k, j)'
    <3>1. DOMAIN done = 1 .. Len(done) /\ DOMAIN done[k].targets = 1 .. Len(done[k].targets)
          /\ Len(done[k].targets) \in Nat
      BY DEF IsSeq
    <3>2. ~ (k < 1) /\ ~ (j < 1)
      BY <1>2, <3>1
    <3>3. QED
      BY <2>2, <3>2 DEF Behind
  <2>7. KeptOK(s)'
    BY <1>4, <2>2, <2>6 DEF KeptOK
  <2>8. QED
    BY <2>2, <2>3, <2>4, <2>5, <2>7, RunFromPod DEF RunOK
<1>7. CASE Len(done) = Len(Batch(s)) /\ AliasesCollide(done)
  <2>1. Stops(s, 1) /\ UNCHANGED at
    BY <1>2, <1>7 DEF AfterPlan
  <2>2. /\ stage' = [stage EXCEPT ![s] = "stopped"] /\ report' = [report EXCEPT ![s] = <<>>]
        /\ exit' = [exit EXCEPT ![s] = 1] /\ ops' = [ops EXCEPT ![s] = {}] /\ mirror' = [mirror EXCEPT ![s] = Unset]
    BY <2>1 DEF Stops, Ends
  <2>3. stage'[s] = "stopped" /\ report'[s] = <<>> /\ ops'[s] = {} /\ ToSet(<<>>) = {}
    BY <1>1, <2>2 DEF TypeInv, ToSet
  <2>4. Others(s)
    BY <1>1, <2>1, <2>2 DEF TypeInv, Others
  <2>5. ToldOK(s)'
    BY <2>3 DEF ToldOK
  <2>6. MadeOK(s)' /\ KeptOK(s)'
    BY <2>3 DEF MadeOK, KeptOK, Active
  <2>7. DOMAIN mirror' = DOMAIN mirror /\ \A u \in Shards \ {s} : mirror'[u] = mirror[u]
    BY <1>1, <2>2
  <2>8. QED
    BY <2>4, <2>5, <2>6, <2>7, RunFromPod DEF RunOK
<1>8. QED
  BY <1>2, <1>5, <1>6, <1>7

LEMMA PlanPolicyRun == ASSUME Inv, RunInv, NEW s \in Shards, PlanPolicy(s) PROVE RunInv'
<1>1. TypeInv /\ PodOK(s) /\ RunOK(s) /\ stage[s] = "plan" /\ UNCHANGED <<files, job, seen, wrote, dest, source>>
  BY DEF Inv, RunInv, PlanPolicy, worldVars
<1> DEFINE next == Len(plans[s]) + 1
<1>2. IsSeq(plans[s]) /\ \A k \in DOMAIN plans[s] : k \in DOMAIN Batch(s) /\ PlannedFor(plans[s][k], Batch(s)[k])
  BY <1>1 DEF PodOK, PlansOK
<1>3. /\ IsSeq(Batch(s)) /\ \A k \in DOMAIN Batch(s) : Batch(s)[k] \in Policy /\ source[Batch(s)[k].source.repo] \in SourceTags[Batch(s)[k].source.repo]
  <2>1. seen[s] \in DOMAIN PolicySets
    BY <1>1 DEF TypeInv
  <2>2. IsSeq(Batch(s)) /\ ToSet(Batch(s)) \subseteq ToSet(Policies(seen[s]))
    BY <2>1, BatchFacts DEF Batch
  <2>3. \A k \in DOMAIN Batch(s) : Batch(s)[k] \in ToSet(Batch(s))
    BY DEF ToSet
  <2>4. \A p \in ToSet(Policies(seen[s])) : p.source.repo \in DOMAIN SourceTags
    BY <2>1, DriverAssumption DEF Policies
  <2>5. QED
    BY <2>1, <2>2, <2>3, <2>4 DEF Policy, RunInv, WorldOK
<1>4. /\ Len(plans[s]) \in Nat /\ Len(Batch(s)) \in Nat /\ DOMAIN Batch(s) = 1 .. Len(Batch(s))
      /\ DOMAIN plans[s] = 1 .. Len(plans[s])
  BY <1>2, <1>3 DEF IsSeq
<1>5. Len(plans[s]) <= Len(Batch(s))
  <2>1. CASE Len(plans[s]) = 0
    BY <1>4, <2>1
  <2>2. CASE Len(plans[s]) # 0
    <3>1. Len(plans[s]) \in DOMAIN plans[s]
      BY <1>4, <2>2
    <3>2. QED
      BY <1>2, <1>4, <3>1
  <2>3. QED
    BY <2>1, <2>2
<1>6. \A k \in DOMAIN plans[s] : Made(plans[s][k].targets, Batch(s)[k]) /\ AsRead(plans[s][k]) /\ IsSeq(plans[s][k].targets)
  BY <1>1, <1>2 DEF RunOK, MadeOK, KeptOK, Active, Behind, AsRead, PlannedFor
<1>7. CASE next > Len(Batch(s))
  <2>1. AfterPlan(s, plans[s]) /\ UNCHANGED plans
    BY <1>7 DEF PlanPolicy
  <2>2. QED
    BY <1>1, <1>2, <1>5, <1>6, <2>1, PlannedRun
<1>8. CASE ~ (next > Len(Batch(s)))
  <2> DEFINE p == Batch(s)[next]
  <2>1. next \in DOMAIN Batch(s) /\ p \in Policy /\ source[p.source.repo] \in SourceTags[p.source.repo]
    BY <1>3, <1>4, <1>8
  <2>2. CASE NotCompiled(p)
    <3>1. Stops(s, 3) /\ UNCHANGED <<plans, at>>
      BY <1>8, <2>2 DEF PlanPolicy
    <3>2. QED
      BY <1>1, <3>1, HaltRun
  <2>3. CASE ~ NotCompiled(p)
    <3>1. PICK ts \in Plannings(p) :
             LET done == Append(plans[s], Entry(p, ts))
             IN  plans' = [plans EXCEPT ![s] = done] /\ AfterPlan(s, done)
      BY <1>8, <2>3 DEF PlanPolicy, Entry
    <3> DEFINE done == Append(plans[s], Entry(p, ts))
    <3>2. /\ IsSeq(done) /\ Len(done) = Len(plans[s]) + 1
          /\ \A k \in DOMAIN done : done[k] = IF k = next THEN Entry(p, ts) ELSE plans[s][k]
      BY <1>2, Appended
    <3>3. Made(Entry(p, ts).targets, p) /\ AsRead(Entry(p, ts)) /\ IsSeq(Entry(p, ts).targets)
      <4>1. Entry(p, ts).kind = p.source.kind /\ Entry(p, ts).targets = ts
        BY DEF Entry
      <4>2. Made(ts, p) /\ IsSeq(ts)
        BY <2>1, MadeFacts, PlanningFits
      <4>3. p.source.kind = "git" => \A j \in DOMAIN ts : ts[j].mirror = dest[ts[j].repo]
        BY DEF Plannings, GitPlans
      <4>4. QED
        BY <4>1, <4>2, <4>3 DEF AsRead
    <3>4. ASSUME NEW k \in DOMAIN done
          PROVE  Made(done[k].targets, Batch(s)[k]) /\ AsRead(done[k]) /\ IsSeq(done[k].targets)
      <4>1. CASE k = next
        BY <3>2, <3>3, <4>1
      <4>2. CASE k # next
        <5>1. DOMAIN done = 1 .. Len(done)
          BY <3>2 DEF IsSeq
        <5>2. k \in DOMAIN plans[s] /\ done[k] = plans[s][k]
          BY <1>4, <3>2, <4>2, <5>1
        <5>3. QED
          BY <1>6, <5>2
      <4>3. QED
        BY <4>1, <4>2
    <3>5. Len(done) <= Len(Batch(s))
      BY <1>4, <1>8, <3>2
    <3>6. plans' = [plans EXCEPT ![s] = done] /\ AfterPlan(s, done)
      BY <3>1
    <3> HIDE DEF done
    <3>7. DOMAIN plans' = DOMAIN plans /\ plans'[s] = done /\ \A u \in Shards \ {s} : plans'[u] = plans[u]
      BY <1>1, <3>6 DEF TypeInv
    <3>8. QED
      BY <1>1, <3>2, <3>4, <3>5, <3>6, <3>7, PlannedRun
  <2>4. QED
    BY <2>2, <2>3
<1>9. QED
  BY <1>7, <1>8

\* A destination is planned once: by one pod, for one policy, as one of its targets.
LEMMA RepoOnce ==
  ASSUME ~EditsMidJob, Tidy, Inv, RunInv,
         NEW s \in Shards, NEW u \in Shards, stage[s] = "write", Active(u),
         NEW k \in DOMAIN plans[s], NEW j \in DOMAIN plans[s][k].targets,
         NEW l \in DOMAIN plans[u], NEW i \in DOMAIN plans[u][l].targets,
         plans[s][k].targets[j].repo = plans[u][l].targets[i].repo
  PROVE  u = s /\ l = k /\ i = j
<1> DEFINE p == Batch(s)[k]
           q == Batch(u)[l]
<1>1. files \in DOMAIN PolicySets
  BY DEF Inv, TypeInv
<1>2. ASSUME NEW v \in {s, u}, NEW n \in DOMAIN plans[v], NEW o \in DOMAIN plans[v][n].targets
      PROVE  /\ seen[v] = files /\ Refused(v, files) = 0
             /\ n \in DOMAIN Batches(v, files) /\ Batch(v)[n] = Batches(v, files)[n]
             /\ Batch(v)[n] \in ToSet(Policies(files)) /\ Owns(v, Batch(v)[n])
             /\ plans[v][n].targets[o].repo \in DestRepos(Batch(v)[n])
  <2>1. v \in Shards /\ PodOK(v) /\ RunOK(v) /\ Active(v)
    BY DEF Inv, RunInv, Active
  <2>2. seen[v] = files /\ Refused(v, files) = 0
    BY <2>1 DEF PodOK, SeenOK, RunOK, MadeOK, Active
  <2>3. n \in DOMAIN Batch(v) /\ PlannedFor(plans[v][n], Batch(v)[n])
    BY <2>1 DEF PodOK, PlansOK
  <2>4. plans[v][n].targets[o] \in ToSet(plans[v][n].targets)
    BY DEF ToSet
  <2>5. plans[v][n].targets[o].repo \in DestRepos(Batch(v)[n])
    BY <2>3, <2>4 DEF PlannedFor
  <2>6. Batch(v)[n] \in ToSet(Batch(v))
    BY <2>3 DEF ToSet
  <2>7. Batch(v)[n] \in ToSet(Policies(files)) /\ Owns(v, Batch(v)[n])
    BY <1>1, <2>2, <2>6, BatchFacts DEF Batch
  <2>8. QED
    BY <2>2, <2>3, <2>5, <2>7 DEF Batch
<1>3. p \in ToSet(Policies(files)) /\ Owns(s, p) /\ plans[s][k].targets[j].repo \in DestRepos(p)
  BY <1>2
<1>4. q \in ToSet(Policies(files)) /\ Owns(u, q) /\ plans[s][k].targets[j].repo \in DestRepos(q)
  BY <1>2
<1>5. p.name = q.name
  <2>1. ~Collide(ToSet(Policies(files)))
    BY <1>2 DEF Refused
  <2>2. QED
    BY <1>3, <1>4, <2>1 DEF Collide
<1>6. u = s
  BY <1>3, <1>4, <1>5 DEF Owns
<1>7. l = k
  BY <1>1, <1>2, <1>5, <1>6 DEF Tidy
<1>8. i = j
  <2>1. PodOK(s) /\ RunOK(s)
    BY DEF Inv, RunInv
  <2>2. Made(plans[s][k].targets, p) /\ ~AliasesCollide(plans[s]) /\ IsSeq(plans[s][k].targets)
    BY <2>1 DEF PodOK, PlansOK, PlannedFor, RunOK, MadeOK, Active
  <2>3. p \in ToSet(Batches(s, files)) /\ Refused(s, files) = 0
    BY <1>2 DEF ToSet
  <2>4. QED
    BY <1>1, <1>6, <1>7, <2>2, <2>3, ProperFacts
<1>9. QED
  BY <1>6, <1>7, <1>8

\* The pod goes on to another destination.
LEMMA AdvanceRun ==
  ASSUME RunInv, NEW s \in Shards, stage[s] \in {"read", "write"}, stage'[s] = "read",
         UNCHANGED <<seen, plans>>, ToldOK(s)',
         \A k \in DOMAIN plans[s] : \A j \in DOMAIN plans[s][k].targets : ~Behind(s, k, j)' =>
             ~Behind(s, k, j) /\ dest'[plans[s][k].targets[j].repo] = dest[plans[s][k].targets[j].repo],
         \A k \in DOMAIN plans[s] : \A j \in DOMAIN plans[s][k].targets :
             Behind(s, k, j)' /\ Well(s, k)' => Fits(plans[s][k].targets[j], dest'[plans[s][k].targets[j].repo])
  PROVE  RunOK(s)'
<1>1. MadeOK(s) /\ KeptOK(s)
  BY DEF RunInv, RunOK
<1>2. MadeOK(s)'
  BY <1>1 DEF MadeOK, Active, Batch
<1>3. ASSUME NEW k \in DOMAIN plans[s], NEW j \in DOMAIN plans[s][k].targets, plans[s][k].kind = "git", ~Behind(s, k, j)'
      PROVE  plans[s][k].targets[j].mirror = dest'[plans[s][k].targets[j].repo]
  BY <1>1, <1>3 DEF KeptOK, Active
<1>4. ASSUME NEW k \in DOMAIN plans[s], NEW j \in DOMAIN plans[s][k].targets, Behind(s, k, j)', Well(s, k)'
      PROVE  Fits(plans[s][k].targets[j], dest'[plans[s][k].targets[j].repo])
  BY <1>4
<1>5. KeptOK(s)'
  BY <1>3, <1>4 DEF KeptOK
<1>6. QED
  BY <1>2, <1>5 DEF RunOK

\* What a policy report adds to the reports.
LEMMA PolicyDoneTold ==
  ASSUME Inv, RunInv, NEW s \in Shards, NEW status, NEW code, NEW os,
         PolicyDone(s, status, code, os), code \in {0, 2}, \A o \in os : o.code \in {0, 2},
         status = "ok" <=> code = 0 /\ \A o \in os : o.code = 0,
         UNCHANGED plans, at[s][1] \in DOMAIN plans[s]
  PROVE  /\ stage'[s] = "read" /\ at'[s] = <<at[s][1] + 1, 1>> /\ ToldOK(s)'
         /\ \A k \in DOMAIN plans[s] : k = at[s][1] /\ Well(s, k)' => status = "ok"
         /\ \A k \in DOMAIN plans[s] : k < at[s][1] /\ Well(s, k)' => Well(s, k)
<1> DEFINE r == [name |-> policy(s).name, status |-> status, code |-> code, ops |-> os]
<1>1. TypeInv /\ PodOK(s) /\ RunOK(s)
  BY DEF Inv, RunInv
<1>2. /\ report' = [report EXCEPT ![s] = Append(report[s], r)] /\ ops' = [ops EXCEPT ![s] = {}]
      /\ stage' = [stage EXCEPT ![s] = "read"] /\ at' = [at EXCEPT ![s] = <<at[s][1] + 1, 1>>]
  BY DEF PolicyDone, Onto
<1>3. /\ report'[s] = Append(report[s], r) /\ stage'[s] = "read" /\ at'[s] = <<at[s][1] + 1, 1>> /\ ops'[s] = {}
  BY <1>1, <1>2 DEF TypeInv
<1>4. ToSet(report'[s]) = ToSet(report[s]) \cup {r}
  <2>1. IsSeq(report[s])
    BY <1>1 DEF PodOK, ReportOK
  <2> HIDE DEF r
  <2>2. QED
    BY <1>3, <2>1, Appended
<1>5. r.name = policy(s).name /\ r.status = status /\ r.code = code /\ r.ops = os
  OBVIOUS
<1> HIDE DEF r
<1>6. Frank(r)
  BY <1>5 DEF Frank
<1>7. ToldOK(s)'
  <2>1. \A x \in ToSet(report'[s]) : Frank(x)
    BY <1>1, <1>4, <1>6 DEF RunOK, ToldOK
  <2>2. QED
    BY <1>3, <2>1 DEF ToldOK
<1>8. at[s][1] \in Nat /\ (\A k \in DOMAIN plans[s] : k \in Nat) /\ r.name = plans[s][at[s][1]].name
  BY <1>1, <1>5 DEF TypeInv, Indices, PodOK, PlansOK, IsSeq, policy
<1>9. ASSUME NEW k \in DOMAIN plans[s], k = at[s][1], Well(s, k)' PROVE status = "ok"
  <2>1. k # at'[s][1]
    BY <1>3, <1>8, <1>9
  <2>2. \A x \in ToSet(report'[s]) : x.name = plans[s][k].name => x.status = "ok"
    BY <1>9, <2>1 DEF Well
  <2>3. QED
    BY <1>4, <1>5, <1>8, <1>9, <2>2
<1>10. ASSUME NEW k \in DOMAIN plans[s], k < at[s][1], Well(s, k)' PROVE Well(s, k)
  <2>1. k # at[s][1] /\ k # at'[s][1]
    BY <1>3, <1>8, <1>10
  <2>2. \A x \in ToSet(report'[s]) : x.name = plans[s][k].name => x.status = "ok"
    BY <1>10, <2>1 DEF Well
  <2>3. QED
    BY <1>4, <2>1, <2>2 DEF Well
<1>11. QED
  BY <1>3, <1>7, <1>9, <1>10

\* A pod has its plans at whole numbers.
LEMMA Numbered ==
  ASSUME Inv, NEW s \in Shards, NEW k \in DOMAIN plans[s], NEW j \in DOMAIN plans[s][k].targets
  PROVE  /\ k \in Nat \ {0} /\ k <= Len(plans[s]) /\ Len(plans[s]) \in Nat
         /\ j \in Nat \ {0} /\ j <= Len(plans[s][k].targets) /\ Len(plans[s][k].targets) \in Nat
         /\ at[s][1] \in Nat \ {0} /\ at[s][2] \in Nat \ {0}
<1>1. PodOK(s) /\ TypeInv
  BY DEF Inv
<1>2. IsSeq(plans[s]) /\ IsSeq(plans[s][k].targets)
  BY <1>1 DEF PodOK, PlansOK, PlannedFor
<1>3. /\ DOMAIN plans[s] = 1 .. Len(plans[s]) /\ Len(plans[s]) \in Nat
      /\ DOMAIN plans[s][k].targets = 1 .. Len(plans[s][k].targets) /\ Len(plans[s][k].targets) \in Nat
  BY <1>2 DEF IsSeq
<1>4. at[s][1] \in Nat \ {0} /\ at[s][2] \in Nat \ {0}
  BY <1>1 DEF TypeInv, Indices
<1>5. QED
  BY <1>3, <1>4

\* A policy is done without a write: it has failed, or it has no destination.
LEMMA PolicyDoneRun ==
  ASSUME Inv, RunInv, NEW s \in Shards, NEW status, NEW code,
         PolicyDone(s, status, code, {}), code \in {0, 2}, status = "ok" <=> code = 0,
         UNCHANGED <<files, job, seen, plans, wrote, dest, source>>, stage[s] = "read",
         at[s][1] \in DOMAIN plans[s], status = "ok" => policy(s).targets = <<>> /\ ops[s] = {}
  PROVE  RunInv'
<1>1. TypeInv /\ RunOK(s) /\ DOMAIN mirror = Shards
  BY DEF Inv, RunInv, WorldOK
<1>2. /\ stage'[s] = "read" /\ at'[s] = <<at[s][1] + 1, 1>> /\ ToldOK(s)'
      /\ \A k \in DOMAIN plans[s] : k = at[s][1] /\ Well(s, k)' => status = "ok"
      /\ \A k \in DOMAIN plans[s] : k < at[s][1] /\ Well(s, k)' => Well(s, k)
  <2>1. \A o \in {} : o.code \in {0, 2} /\ o.code = 0
    OBVIOUS
  <2>2. QED
    BY <2>1, PolicyDoneTold
<1>3. /\ stage' = [stage EXCEPT ![s] = "read"] /\ at' = [at EXCEPT ![s] = <<at[s][1] + 1, 1>>]
      /\ DOMAIN report' = DOMAIN report /\ (\A u \in Shards \ {s} : report'[u] = report[u])
      /\ ops' = [ops EXCEPT ![s] = {}] /\ mirror' = [mirror EXCEPT ![s] = Unset] /\ exit' = exit
  BY <1>1 DEF PolicyDone, Onto, TypeInv
<1>4. Others(s) /\ DOMAIN mirror' = DOMAIN mirror /\ \A u \in Shards \ {s} : mirror'[u] = mirror[u]
  <2>1. DOMAIN ops' = DOMAIN ops /\ \A u \in Shards \ {s} : ops'[u] = ops[u] /\ stage'[u] = stage[u] /\ at'[u] = at[u]
    BY <1>1, <1>3 DEF TypeInv
  <2>2. QED
    BY <1>1, <1>3, <2>1 DEF TypeInv, Others
<1>5. ASSUME NEW k \in DOMAIN plans[s], NEW j \in DOMAIN plans[s][k].targets, ~Behind(s, k, j)' PROVE ~Behind(s, k, j)
  BY <1>2, <1>5, Numbered DEF Behind
<1>6. ASSUME NEW k \in DOMAIN plans[s], NEW j \in DOMAIN plans[s][k].targets, Behind(s, k, j)', Well(s, k)'
      PROVE  Fits(plans[s][k].targets[j], dest[plans[s][k].targets[j].repo])
  <2>1. k # at[s][1]
    <3>1. j \in 1 .. Len(plans[s][k].targets)
      BY Numbered
    <3>2. Len(<<>>) = 0
      OBVIOUS
    <3>3. k = at[s][1] => plans[s][k].targets = <<>>
      BY <1>2, <1>6 DEF policy
    <3>4. QED
      BY <3>1, <3>2, <3>3
  <2>2. k < at[s][1] /\ Behind(s, k, j)
    BY <1>2, <1>6, <2>1, Numbered DEF Behind
  <2>3. Well(s, k)
    BY <1>2, <1>6, <2>2
  <2>4. QED
    BY <1>1, <2>2, <2>3 DEF RunOK, KeptOK
<1>7. RunOK(s)'
  BY <1>2, <1>5, <1>6, AdvanceRun
<1>8. QED
  BY <1>4, <1>7, RunFromPod

LEMMA ReadFailsRun == ASSUME Inv, RunInv, NEW s \in Shards, ReadFails(s) PROVE RunInv'
<1>1. at[s][1] \in DOMAIN plans[s]
  BY ApplyingFacts DEF ReadFails
<1>2. QED
  BY <1>1, PolicyDoneRun DEF ReadFails, Applying, PolicyFails, worldVars

LEMMA NoTargetRun == ASSUME Inv, RunInv, NEW s \in Shards, NoTarget(s) PROVE RunInv'
<1>1. TypeInv /\ PodOK(s) /\ RunOK(s) /\ DOMAIN mirror = Shards
  BY DEF Inv, RunInv, WorldOK
<1>2. /\ stage[s] = "read" /\ policy(s).targets = <<>> /\ UNCHANGED <<files, job, seen, plans, wrote, dest, source>>
  BY DEF NoTarget, Applying, worldVars
<1>3. at[s][1] \in DOMAIN plans[s] /\ at[s][1] \in Nat \ {0} /\ at[s][2] \in Nat \ {0}
  BY <1>1, ApplyingFacts DEF NoTarget, TypeInv, Indices
<1>4. Len(policy(s).targets) = 0
  BY <1>2
<1>5. ops[s] = {}
  BY <1>1, <1>3, <1>4 DEF PodOK, OpsOK
<1>6. CASE policy(s).kind = "git"
  <2>1. /\ stage' = [stage EXCEPT ![s] = "read"] /\ at' = [at EXCEPT ![s] = <<at[s][1] + 1, 1>>]
        /\ UNCHANGED <<mirror, ops, report, exit>>
    BY <1>6 DEF NoTarget, Onto
  <2>2. stage'[s] = "read" /\ at'[s] = <<at[s][1] + 1, 1>>
    BY <1>1, <2>1 DEF TypeInv
  <2>3. Others(s)
    BY <1>1, <1>2, <2>1 DEF TypeInv, Others
  <2>4. ToldOK(s)'
    BY <1>1, <2>1, <2>2 DEF RunOK, ToldOK
  <2>5. ASSUME NEW k \in DOMAIN plans[s], NEW j \in DOMAIN plans[s][k].targets PROVE Behind(s, k, j)' <=> Behind(s, k, j)
    <3>1. k # at[s][1]
      <4>1. j \in 1 .. Len(plans[s][k].targets)
        BY Numbered
      <4>2. QED
        BY <1>4, <4>1 DEF policy
    <3>2. QED
      BY <1>2, <2>2, <3>1, Numbered DEF Behind
  <2>6. RunOK(s)'
    <3>1. ASSUME NEW k \in DOMAIN plans[s], NEW j \in DOMAIN plans[s][k].targets, Behind(s, k, j)', Well(s, k)'
          PROVE  Fits(plans[s][k].targets[j], dest[plans[s][k].targets[j].repo])
      <4>1. Behind(s, k, j) /\ k # at[s][1] /\ k # at[s][1] + 1
        <5>1. Behind(s, k, j)
          BY <2>5, <3>1
        <5>2. j \in 1 .. Len(plans[s][k].targets)
          BY Numbered
        <5>3. k # at[s][1]
          BY <1>4, <5>2 DEF policy
        <5>4. k < at[s][1]
          BY <5>1, <5>3 DEF Behind
        <5>5. QED
          BY <1>3, <5>1, <5>3, <5>4, Numbered
      <4>2. Well(s, k)
        BY <1>2, <2>1, <2>2, <3>1, <4>1 DEF Well
      <4>3. QED
        BY <1>1, <1>2, <4>1, <4>2 DEF RunOK, KeptOK
    <3>2. QED
      BY <1>2, <2>2, <2>4, <2>5, <3>1, AdvanceRun
  <2>7. QED
    BY <1>2, <2>1, <2>3, <2>6, RunFromPod
<1>7. CASE policy(s).kind # "git"
  <2>1. PolicyDone(s, "ok", 0, {})
    BY <1>7 DEF NoTarget
  <2>2. QED
    BY <1>2, <1>3, <1>5, <2>1, PolicyDoneRun
<1>8. QED
  BY <1>6, <1>7

\* What the git planner read when it planned is still there.
LEMMA ReadDestRun == ASSUME Inv, RunInv, NEW s \in Shards, ReadDest(s) PROVE RunInv'
<1>1. TypeInv /\ PodOK(s) /\ RunOK(s) /\ DOMAIN mirror = Shards
  BY DEF Inv, RunInv, WorldOK
<1>2. /\ stage[s] = "read" /\ policy(s).targets # <<>> /\ stage' = [stage EXCEPT ![s] = "write"]
      /\ UNCHANGED <<files, job, seen, plans, at, ops, report, exit, wrote, dest, source>>
      /\ mirror' = [mirror EXCEPT ![s] = IF policy(s).kind = "git" THEN target(s).mirror ELSE dest[target(s).repo]]
  BY DEF ReadDest, Applying, worldVars
<1>3. stage'[s] = "write" /\ target(s)' = target(s)
  BY <1>1, <1>2 DEF TypeInv, target, policy
<1>4. Others(s) /\ DOMAIN mirror' = DOMAIN mirror /\ \A u \in Shards \ {s} : mirror'[u] = mirror[u]
  BY <1>1, <1>2 DEF TypeInv, Others
<1>5. at[s][1] \in DOMAIN plans[s] /\ at[s][2] \in DOMAIN policy(s).targets
  <2>1. at[s][1] \in DOMAIN plans[s]
    BY ApplyingFacts DEF ReadDest
  <2>2. IsSeq(policy(s).targets) /\ Len(policy(s).targets) \in Nat /\ Len(policy(s).targets) # 0
    BY <1>2, <2>1, TargetFacts
  <2>3. at[s][2] \in Nat \ {0}
    BY <1>1 DEF TypeInv, Indices
  <2>4. at[s][2] = 1 \/ at[s][2] <= Len(policy(s).targets)
    BY <1>1, <1>2 DEF PodOK, OpsOK
  <2>5. DOMAIN policy(s).targets = 1 .. Len(policy(s).targets)
    BY <2>2 DEF IsSeq
  <2>6. QED
    BY <2>1, <2>2, <2>3, <2>4, <2>5
<1>6. policy(s).kind = "git" => target(s).mirror = dest[target(s).repo]
  <2>1. ~Behind(s, at[s][1], at[s][2])
    BY <1>1 DEF Behind, TypeInv, Indices
  <2>2. QED
    BY <1>1, <1>2, <1>5, <2>1 DEF RunOK, KeptOK, Active, target, policy
<1>7. mirror'[s] = dest[target(s).repo]
  BY <1>1, <1>2, <1>6
<1>8. \A k, j : Behind(s, k, j)' <=> Behind(s, k, j)
  BY <1>2, <1>3 DEF Behind
<1>9. ToldOK(s)' /\ MadeOK(s)' /\ \A k : Well(s, k)' <=> Well(s, k)
  BY <1>1, <1>2, <1>3 DEF RunOK, ToldOK, MadeOK, Active, Batch, Well
<1>10. KeptOK(s)'
  BY <1>1, <1>2, <1>3, <1>7, <1>8, <1>9 DEF RunOK, KeptOK, Active
<1>11. QED
  BY <1>2, <1>4, <1>9, <1>10, RunFromPod DEF RunOK

LEMMA EndRunRun == ASSUME Inv, RunInv, NEW s \in Shards, EndRun(s) PROVE RunInv'
<1>1. TypeInv /\ PodOK(s) /\ RunOK(s) /\ DOMAIN mirror = Shards
  BY DEF Inv, RunInv, WorldOK
<1>2. /\ stage[s] = "read" /\ at[s][1] > Len(plans[s])
      /\ UNCHANGED <<files, job, seen, plans, at, wrote, dest, source>>
      /\ stage' = [stage EXCEPT ![s] = "done"] /\ report' = [report EXCEPT ![s] = report[s]]
      /\ exit' = [exit EXCEPT ![s] = ExitOf(report[s])] /\ ops' = [ops EXCEPT ![s] = {}]
      /\ mirror' = [mirror EXCEPT ![s] = Unset]
  BY DEF EndRun, Ends, worldVars
<1>3. /\ stage'[s] = "done" /\ report'[s] = report[s] /\ ops'[s] = {} /\ exit'[s] = ExitOf(report[s])
  BY <1>1, <1>2 DEF TypeInv
<1>4. Others(s) /\ DOMAIN mirror' = DOMAIN mirror /\ \A u \in Shards \ {s} : mirror'[u] = mirror[u]
  BY <1>1, <1>2 DEF TypeInv, Others
<1>5. ops[s] = {}
  <2>1. at[s][1] \notin DOMAIN plans[s]
    BY <1>1, <1>2 DEF PodOK, PlansOK, IsSeq
  <2>2. QED
    BY <1>1, <2>1 DEF PodOK, OpsOK
<1>6. \A k, j : Behind(s, k, j)' <=> Behind(s, k, j)
  BY <1>2, <1>3 DEF Behind
<1>7. ToldOK(s)'
  BY <1>1, <1>3 DEF RunOK, ToldOK
<1>8. MadeOK(s)' /\ \A k : Well(s, k)' <=> Well(s, k)
  BY <1>1, <1>2, <1>3, <1>5 DEF RunOK, MadeOK, Active, Batch, Well
<1>9. KeptOK(s)'
  BY <1>1, <1>2, <1>3, <1>6, <1>8 DEF RunOK, KeptOK, Active
<1>10. QED
  BY <1>2, <1>4, <1>7, <1>8, <1>9, RunFromPod DEF RunOK

LEMMA OpCodes == ASSUME NEW s, NEW t, NEW m, NEW failing PROVE \A o \in OpsOf(s, t, m, failing) : o.code \in {0, 2}
<1> DEFINE images == Placed(dest[t.repo], t, m, failing)
           Code(ok) == IF ok THEN 0 ELSE 2
           put(i) == [repo |-> t.repo, kind |-> "imported", out |-> i.out, code |-> Code(i.out \notin failing)]
           point(x) == [repo |-> t.repo, kind |-> "aliased", out |-> x.alias, code |-> Code(x \in Pointed(images, t, m, failing))]
           drop(o) == [repo |-> t.repo, kind |-> "deleted", out |-> o, code |-> Code(o \notin failing)]
<1> SUFFICES ASSUME NEW o \in OpsOf(s, t, m, failing) PROVE o.code \in {0, 2}
  OBVIOUS
<1>1. \/ \E i \in ToPlace(t, m) : o = put(i)
      \/ \E x \in ToPoint(t, m) : o = point(x)
      \/ \E x \in ToDelete(t, m) : o = drop(x)
  BY DEF OpsOf
<1>2. /\ \A i : put(i).code = Code(i.out \notin failing)
      /\ \A x : point(x).code = Code(x \in Pointed(images, t, m, failing))
      /\ \A x : drop(x).code = Code(x \notin failing)
  OBVIOUS
<1>3. \A ok : Code(ok) \in {0, 2}
  OBVIOUS
<1> HIDE DEF put, point, drop, Code
<1>4. QED
  BY <1>1, <1>2, <1>3

\* A destination after it is written: as planned, if every operation succeeded.
LEMMA WriteFacts ==
  ASSUME NEW s \in Shards, NEW t, NEW failing \in SUBSET Items(t, dest[t.repo]), Proper(t), HeldOK(dest[t.repo])
  PROVE  LET os    == OpsOf(s, t, dest[t.repo], failing)
             after == After(dest[t.repo], t, dest[t.repo], failing)
         IN  /\ HeldOK(after)
             /\ (\A o \in os : o.code = 0) => failing = {} /\ Fits(t, after)
<1> DEFINE h == dest[t.repo]
<1>1. HeldOK(After(h, t, h, failing))
  BY AfterHeld
<1>2. ASSUME \A o \in OpsOf(s, t, h, failing) : o.code = 0 PROVE failing = {} /\ Fits(t, After(h, t, h, failing))
  <2>1. failing = {} /\ ToPoint(t, h) \subseteq Pointed(Placed(dest[t.repo], t, h, failing), t, h, failing)
    BY <1>2, Untroubled
  <2> HIDE DEF h
  <2>2. h = dest[t.repo]
    BY DEF h
  <2>3. Fits(t, After(h, t, h, {}))
    <3>1. HeldOK(h) /\ ToPoint(t, h) \subseteq Pointed(Placed(h, t, h, {}), t, h, {})
      BY <2>1, <2>2
    <3>2. QED
      BY <3>1, AfterFits
  <2>4. QED
    BY <2>1, <2>3
<1>3. QED
  BY <1>1, <1>2

\* A pod after it wrote: at its next policy or target, with what it did in its reports.
LEMMA WriteTold ==
  ASSUME Inv, RunInv, NEW s \in Shards, NEW os, stage[s] = "write",
         PolicyFails(s) \/ TargetDone(s, os), \A o \in os : o.code \in {0, 2},
         UNCHANGED <<files, job, seen, plans>>, at[s][1] \in DOMAIN plans[s],
         DOMAIN wrote' = DOMAIN wrote, \A u \in Shards \ {s} : wrote'[u] = wrote[u]
  PROVE  /\ stage'[s] = "read" /\ ToldOK(s)' /\ Others(s)
         /\ DOMAIN mirror' = Shards /\ \A u \in Shards \ {s} : mirror'[u] = mirror[u]
         /\ at'[s] = <<at[s][1] + 1, 1>> \/ at'[s] = <<at[s][1], at[s][2] + 1>>
         /\ \A k \in DOMAIN plans[s] : k = at[s][1] /\ Well(s, k)' =>
                /\ Well(s, k) /\ \A o \in os : o.code = 0
                /\ at'[s] = <<at[s][1] + 1, 1>> => at[s][2] = Len(policy(s).targets)
         /\ \A k \in DOMAIN plans[s] : k < at[s][1] /\ Well(s, k)' => Well(s, k)
<1>1. TypeInv /\ PodOK(s) /\ RunOK(s) /\ DOMAIN mirror = Shards
  BY DEF Inv, RunInv, WorldOK
<1>2. \A o \in ops[s] : o.code \in {0, 2}
  BY <1>1 DEF RunOK, ToldOK
<1>3. ASSUME NEW status, NEW code, NEW all, PolicyDone(s, status, code, all)
      PROVE  Others(s) /\ DOMAIN mirror' = Shards /\ \A u \in Shards \ {s} : mirror'[u] = mirror[u]
  <2>1. /\ stage' = [stage EXCEPT ![s] = "read"] /\ at' = [at EXCEPT ![s] = <<at[s][1] + 1, 1>>]
        /\ DOMAIN report' = DOMAIN report /\ (\A u \in Shards \ {s} : report'[u] = report[u])
        /\ ops' = [ops EXCEPT ![s] = {}] /\ mirror' = [mirror EXCEPT ![s] = Unset] /\ exit' = exit
    BY <1>1, <1>3 DEF PolicyDone, Onto, TypeInv
  <2>2. DOMAIN ops' = DOMAIN ops /\ \A u \in Shards \ {s} : ops'[u] = ops[u] /\ stage'[u] = stage[u] /\ at'[u] = at[u]
    BY <1>1, <2>1 DEF TypeInv
  <2>3. QED
    BY <1>1, <2>1, <2>2 DEF TypeInv, Others
<1>4. CASE PolicyFails(s)
  <2>1. PolicyDone(s, "failed", 2, {})
    BY <1>4 DEF PolicyFails
  <2>2. /\ stage'[s] = "read" /\ at'[s] = <<at[s][1] + 1, 1>> /\ ToldOK(s)'
        /\ \A k \in DOMAIN plans[s] : ~(k = at[s][1] /\ Well(s, k)')
        /\ \A k \in DOMAIN plans[s] : k < at[s][1] /\ Well(s, k)' => Well(s, k)
    <3>1. \A o \in {} : o.code \in {0, 2} /\ o.code = 0
      OBVIOUS
    <3>2. QED
      BY <2>1, <3>1, PolicyDoneTold
  <2>3. QED
    BY <1>3, <2>1, <2>2
<1>5. CASE TargetDone(s, os) /\ at[s][2] = Len(policy(s).targets)
  <2> DEFINE all == ops[s] \cup os
  <2>1. PolicyDone(s, NodeStatus(all), 0, all)
    BY <1>5 DEF TargetDone
  <2>2. /\ \A o \in all : o.code \in {0, 2}
        /\ NodeStatus(all) = "ok" <=> \A o \in all : o.code = 0
    BY <1>2 DEF NodeStatus
  <2> HIDE DEF all
  <2>3. /\ stage'[s] = "read" /\ at'[s] = <<at[s][1] + 1, 1>> /\ ToldOK(s)'
        /\ \A k \in DOMAIN plans[s] : k = at[s][1] /\ Well(s, k)' => NodeStatus(all) = "ok"
        /\ \A k \in DOMAIN plans[s] : k < at[s][1] /\ Well(s, k)' => Well(s, k)
    BY <2>1, <2>2, PolicyDoneTold
  <2>4. ASSUME NEW k \in DOMAIN plans[s], k = at[s][1], Well(s, k)' PROVE Well(s, k) /\ \A o \in os : o.code = 0
    <3>1. \A o \in all : o.code = 0
      BY <2>2, <2>3, <2>4
    <3>2. QED
      BY <2>4, <3>1 DEF Well, all
  <2>5. QED
    BY <1>3, <1>5, <2>1, <2>3, <2>4
<1>6. CASE TargetDone(s, os) /\ at[s][2] # Len(policy(s).targets)
  <2>1. /\ ops' = [ops EXCEPT ![s] = ops[s] \cup os] /\ UNCHANGED <<report, exit>>
        /\ mirror' = [mirror EXCEPT ![s] = Unset]
        /\ stage' = [stage EXCEPT ![s] = "read"] /\ at' = [at EXCEPT ![s] = <<at[s][1], at[s][2] + 1>>]
    BY <1>6 DEF TargetDone, Onto
  <2>2. ops'[s] = ops[s] \cup os /\ stage'[s] = "read" /\ at'[s] = <<at[s][1], at[s][2] + 1>>
    BY <1>1, <2>1 DEF TypeInv
  <2>3. Others(s) /\ DOMAIN mirror' = Shards /\ \A u \in Shards \ {s} : mirror'[u] = mirror[u]
    BY <1>1, <2>1 DEF TypeInv, Others
  <2>4. ToldOK(s)'
    BY <1>1, <2>1, <2>2 DEF RunOK, ToldOK
  <2>5. /\ \A k \in DOMAIN plans[s] : k = at[s][1] /\ Well(s, k)' => Well(s, k) /\ \A o \in os : o.code = 0
        /\ \A k \in DOMAIN plans[s] : k < at[s][1] /\ Well(s, k)' => Well(s, k)
    BY <2>1, <2>2 DEF Well
  <2>6. at'[s] # <<at[s][1] + 1, 1>>
    <3>1. at[s][1] \in Nat
      BY <1>1 DEF TypeInv, Indices
    <3>2. QED
      BY <2>2, <3>1
  <2>7. QED
    BY <2>2, <2>3, <2>4, <2>5, <2>6
<1>7. QED
  BY <1>4, <1>5, <1>6

LEMMA WriteDestRun == ASSUME ~EditsMidJob, Tidy, Inv, RunInv, NEW s \in Shards, WriteDest(s) PROVE RunInv'
<1> DEFINE a == at[s][1]
           b == at[s][2]
           t == target(s)
<1>1. TypeInv /\ PodOK(s) /\ RunOK(s) /\ WorldOK /\ stage[s] = "write" /\ UNCHANGED <<files, job, seen, plans, source>>
  BY DEF Inv, RunInv, WriteDest
<1>2. a \in DOMAIN plans[s] /\ b \in DOMAIN plans[s][a].targets /\ IsSeq(plans[s][a].targets)
      /\ policy(s) = plans[s][a] /\ t = plans[s][a].targets[b]
  <2>1. at[s][1] \in DOMAIN plans[s]
    BY <1>1 DEF PodOK, ReportOK
  <2>2. IsSeq(policy(s).targets) /\ b \in 1 .. Len(policy(s).targets)
    BY <1>1, <2>1, TargetFacts
  <2>3. QED
    BY <2>1, <2>2 DEF IsSeq, policy, target
<1>3. Proper(t) /\ t.repo \in Repos
  <2>1. files \in DOMAIN PolicySets /\ seen[s] = files /\ Refused(s, files) = 0
    BY <1>1 DEF TypeInv, PodOK, SeenOK
  <2>2. a \in DOMAIN Batch(s) /\ PlannedFor(plans[s][a], Batch(s)[a]) /\ Made(plans[s][a].targets, Batch(s)[a])
        /\ ~AliasesCollide(plans[s])
    BY <1>1, <1>2 DEF PodOK, PlansOK, RunOK, MadeOK, Active
  <2>3. Batch(s)[a] \in ToSet(Batches(s, files)) /\ t \in ToSet(plans[s][a].targets)
    BY <1>2, <2>1, <2>2 DEF Batch, ToSet
  <2>4. Proper(t)
    BY <1>2, <2>1, <2>2, <2>3, ProperFacts
  <2>5. t.repo \in DestRepos(Batch(s)[a])
    BY <2>2, <2>3 DEF PlannedFor
  <2>6. Batch(s)[a] \in ToSet(Policies(files))
    BY <2>1, <2>3, BatchFacts
  <2>7. QED
    BY <2>1, <2>4, <2>5, <2>6, AcceptedFacts
<1>4. mirror[s] = dest[t.repo] /\ HeldOK(dest[t.repo])
  BY <1>1, <1>3 DEF RunOK, KeptOK, WorldOK
<1> DEFINE After4(failing) == After(dest[t.repo], t, dest[t.repo], failing)
           Ops4(failing) == OpsOf(s, t, dest[t.repo], failing)
<1>5. PICK failing \in SUBSET Items(t, dest[t.repo]) :
         /\ dest' = [dest EXCEPT ![t.repo] = After4(failing)]
         /\ DOMAIN wrote' = DOMAIN wrote /\ \A u \in Shards \ {s} : wrote'[u] = wrote[u]
         /\ IF failing # {} /\ policy(s).kind = "git" THEN PolicyFails(s) ELSE TargetDone(s, Ops4(failing))
  BY <1>1, <1>4 DEF WriteDest, TypeInv
<1> DEFINE os == Ops4(failing)
           after == After4(failing)
<1>6. HeldOK(after) /\ ((\A o \in os : o.code = 0) => failing = {} /\ Fits(t, after))
  BY <1>3, <1>4, WriteFacts
<1>7. \A o \in os : o.code \in {0, 2}
  BY OpCodes
<1> HIDE DEF After4, Ops4
<1>8. dest'[t.repo] = after /\ DOMAIN dest' = Repos /\ \A r \in Repos \ {t.repo} : dest'[r] = dest[r]
  BY <1>1, <1>3, <1>5 DEF WorldOK
<1>9. \A r : r # t.repo => dest'[r] = dest[r]
  BY <1>5
<1> HIDE DEF os, after
<1>10. /\ stage'[s] = "read" /\ ToldOK(s)' /\ Others(s)
       /\ DOMAIN mirror' = Shards /\ (\A u \in Shards \ {s} : mirror'[u] = mirror[u])
       /\ (at'[s] = <<a + 1, 1>> \/ at'[s] = <<a, b + 1>>)
       /\ \A k \in DOMAIN plans[s] : k = a /\ Well(s, k)' =>
              Well(s, k) /\ (\A o \in os : o.code = 0) /\ (at'[s] = <<a + 1, 1>> => b = Len(plans[s][a].targets))
       /\ \A k \in DOMAIN plans[s] : k < a /\ Well(s, k)' => Well(s, k)
  <2>1. PolicyFails(s) \/ TargetDone(s, os)
    BY <1>5 DEF os
  <2>2. /\ stage'[s] = "read" /\ ToldOK(s)' /\ Others(s)
        /\ DOMAIN mirror' = Shards /\ \A u \in Shards \ {s} : mirror'[u] = mirror[u]
        /\ at'[s] = <<at[s][1] + 1, 1>> \/ at'[s] = <<at[s][1], at[s][2] + 1>>
        /\ \A k \in DOMAIN plans[s] : k = at[s][1] /\ Well(s, k)' =>
               /\ Well(s, k) /\ \A o \in os : o.code = 0
               /\ at'[s] = <<at[s][1] + 1, 1>> => at[s][2] = Len(policy(s).targets)
        /\ \A k \in DOMAIN plans[s] : k < at[s][1] /\ Well(s, k)' => Well(s, k)
    BY <1>1, <1>2, <1>5, <1>7, <2>1, WriteTold
  <2>3. QED
    BY <1>2, <2>2
<1>11. WorldOK'
  BY <1>1, <1>6, <1>8, <1>10 DEF WorldOK
<1>12. ASSUME NEW k \in DOMAIN plans[s], NEW j \in DOMAIN plans[s][k].targets
       PROVE  /\ ~Behind(s, k, j)' => ~Behind(s, k, j) /\ ~(k = a /\ j = b)
              /\ Well(s, k)' /\ Behind(s, k, j)' => (k = a /\ j = b) \/ (Behind(s, k, j) /\ Well(s, k))
  <2>1. /\ k \in Nat \ {0} /\ j \in Nat \ {0} /\ a \in Nat \ {0} /\ b \in Nat \ {0}
        /\ j <= Len(plans[s][k].targets) /\ Len(plans[s][k].targets) \in Nat
    BY Numbered
  <2>2. Behind(s, k, j) <=> k < a \/ (k = a /\ j < b)
    BY <1>1 DEF Behind
  <2>3. /\ \/ at'[s] = <<a + 1, 1>> /\ (k = a /\ Well(s, k)' => b = Len(plans[s][a].targets))
           \/ at'[s] = <<a, b + 1>>
        /\ k = a \/ k < a => (Well(s, k)' => Well(s, k))
    <3>1. at'[s] = <<a + 1, 1>> \/ at'[s] = <<a, b + 1>>
      BY <1>10
    <3>2. k = a /\ Well(s, k)' => Well(s, k) /\ (at'[s] = <<a + 1, 1>> => b = Len(plans[s][a].targets))
      BY <1>10
    <3>3. k < a /\ Well(s, k)' => Well(s, k)
      BY <1>10
    <3> HIDE DEF a, b
    <3>4. QED
      BY <3>1, <3>2, <3>3
  <2> HIDE DEF a, b
  <2>4. CASE at'[s] = <<a + 1, 1>> /\ (k = a /\ Well(s, k)' => b = Len(plans[s][a].targets))
    <3>1. Behind(s, k, j)' <=> k < a + 1
      BY <1>10, <2>1, <2>4 DEF Behind
    <3>2. Well(s, k)' /\ k = a => j <= b
      BY <2>1, <2>4
    <3>3. QED
      BY <2>1, <2>2, <2>3, <3>1, <3>2
  <2>5. CASE at'[s] = <<a, b + 1>>
    <3>1. Behind(s, k, j)' <=> k < a \/ (k = a /\ j < b + 1)
      BY <1>10, <2>5 DEF Behind
    <3>2. QED
      BY <2>1, <2>2, <2>3, <3>1
  <2>6. QED
    BY <2>3, <2>4, <2>5
<1>13. ASSUME NEW u \in Shards, Active(u), NEW k \in DOMAIN plans[u], NEW j \in DOMAIN plans[u][k].targets,
              ~(u = s /\ k = a /\ j = b)
       PROVE  dest'[plans[u][k].targets[j].repo] = dest[plans[u][k].targets[j].repo]
  <2>1. plans[s][a].targets[b].repo # plans[u][k].targets[j].repo
    <3>1. ~EditsMidJob /\ Tidy /\ Inv /\ RunInv /\ stage[s] = "write" /\ a \in DOMAIN plans[s] /\ b \in DOMAIN plans[s][a].targets
      BY <1>1, <1>2
    <3> HIDE DEF a, b
    <3>2. plans[s][a].targets[b].repo = plans[u][k].targets[j].repo => u = s /\ k = a /\ j = b
      BY <1>13, <3>1, RepoOnce
    <3>3. QED
      BY <1>13, <3>2
  <2>2. QED
    BY <1>2, <1>9, <2>1
<1>14. RunOK(s)'
  <2>1. Active(s)
    BY <1>1 DEF Active
  <2>2. ASSUME NEW k \in DOMAIN plans[s], NEW j \in DOMAIN plans[s][k].targets, ~Behind(s, k, j)'
        PROVE  ~Behind(s, k, j) /\ dest'[plans[s][k].targets[j].repo] = dest[plans[s][k].targets[j].repo]
    <3>1. ~(k = a /\ j = b) /\ ~Behind(s, k, j)
      BY <1>12, <2>2
    <3>2. QED
      BY <1>13, <2>1, <3>1
  <2>3. ASSUME NEW k \in DOMAIN plans[s], NEW j \in DOMAIN plans[s][k].targets, Behind(s, k, j)', Well(s, k)'
        PROVE  Fits(plans[s][k].targets[j], dest'[plans[s][k].targets[j].repo])
    <3>1. CASE k = a /\ j = b
      BY <1>2, <1>6, <1>8, <1>10, <2>3, <3>1
    <3>2. CASE ~(k = a /\ j = b)
      <4>1. Behind(s, k, j) /\ Well(s, k)
        BY <1>12, <2>3, <3>2
      <4>2. Fits(plans[s][k].targets[j], dest[plans[s][k].targets[j].repo])
        BY <1>1, <4>1 DEF RunOK, KeptOK
      <4>3. QED
        BY <1>13, <2>1, <3>2, <4>2
    <3>3. QED
      BY <3>1, <3>2
  <2>4. QED
    BY <1>1, <1>10, <2>2, <2>3, AdvanceRun
<1>15. ASSUME NEW u \in Shards \ {s} PROVE RunOK(u)'
  <2>1. RunOK(u)
    BY DEF RunInv
  <2>2. QED
    BY <1>10, <1>13, <2>1, RunOther
<1>16. QED
  BY <1>11, <1>14, <1>15 DEF RunInv

LEMMA FreshRun == \A s \in Shards : Fresh(s) => RunOK(s)
<1> SUFFICES ASSUME NEW s \in Shards, Fresh(s) PROVE RunOK(s)
  OBVIOUS
<1>1. ToSet(<<>>) = {}
  BY DEF ToSet
<1>2. ToldOK(s)
  BY <1>1 DEF ToldOK, Fresh
<1>3. MadeOK(s) /\ KeptOK(s)
  BY DEF MadeOK, KeptOK, Active, Fresh
<1>4. QED
  BY <1>2, <1>3 DEF RunOK

LEMMA RunInit == Init => RunInv
<1> SUFFICES ASSUME Init PROVE RunInv
  OBVIOUS
<1>1. WorldOK
  <2>1. DOMAIN dest = Repos /\ \A r \in Repos : dest[r] = Empty
    BY DEF Init
  <2>2. HeldOK(Empty)
    BY DEF HeldOK, Empty
  <2>3. DOMAIN source = DOMAIN SourceTags /\ \A r \in DOMAIN SourceTags : source[r] \in SourceTags[r]
    BY DriverAssumption DEF Init
  <2>4. DOMAIN mirror = Shards
    BY DEF Init
  <2>5. QED
    BY <2>1, <2>2, <2>3, <2>4 DEF WorldOK
<1>2. \A s \in Shards : Fresh(s)
  BY DEF Init, Fresh
<1>3. QED
  BY <1>1, <1>2, FreshRun DEF RunInv

LEMMA JobRun == ASSUME Inv, RunInv, StartJob \/ JobEnds PROVE RunInv'
<1>1. WorldOK /\ UNCHANGED <<dest, source>>
  BY DEF RunInv, StartJob, JobEnds, worldVars
<1>2. CASE StartJob
  <2>1. stage' = [s \in Shards |-> "waiting"] /\ UNCHANGED <<mirror, ops, report, exit>>
    BY <1>2 DEF StartJob
  <2>2. WorldOK'
    BY <1>1, <2>1 DEF WorldOK
  <2>3. ASSUME NEW s \in Shards PROVE RunOK(s)'
    <3>1. ToldOK(s) /\ stage'[s] = "waiting"
      BY <2>1 DEF RunInv, RunOK
    <3>2. ToldOK(s)'
      BY <2>1, <3>1 DEF ToldOK
    <3>3. MadeOK(s)' /\ KeptOK(s)'
      BY <3>1 DEF MadeOK, KeptOK, Active
    <3>4. QED
      BY <3>2, <3>3 DEF RunOK
  <2>4. QED
    BY <2>2, <2>3 DEF RunInv
<1>3. CASE JobEnds
  <2>1. DOMAIN mirror' = Shards
    BY <1>3 DEF JobEnds
  <2>2. WorldOK'
    BY <1>1, <2>1 DEF WorldOK
  <2>3. \A s \in Shards : Fresh(s)'
    BY <1>3 DEF JobEnds, Fresh
  <2>4. (\A s \in Shards : Fresh(s) => RunOK(s))'
    BY FreshRun, PTL
  <2>5. QED
    BY <2>2, <2>3, <2>4 DEF RunInv
<1>4. QED
  BY <1>2, <1>3

\* What upstream and the authors of policies do meanwhile does not matter to a pod.
LEMMA AroundRun ==
  ASSUME RunInv, UNCHANGED <<dest, podVars>>, DOMAIN source' = DOMAIN source,
         \A r \in DOMAIN source : source'[r] = source[r] \/ source'[r] \in SourceTags[r]
  PROVE  RunInv'
<1>1. UNCHANGED <<stage, seen, plans, at, mirror, ops, report, exit>>
  BY DEF podVars
<1>2. WorldOK'
  BY <1>1 DEF RunInv, WorldOK
<1>3. ASSUME NEW s \in Shards PROVE RunOK(s)'
  <2>1. RunOK(s)
    BY DEF RunInv
  <2>2. ToldOK(s)' /\ MadeOK(s)'
    BY <1>1, <2>1 DEF RunOK, ToldOK, MadeOK, Active, Batch
  <2>3. (\A k, j : Behind(s, k, j)' <=> Behind(s, k, j)) /\ (\A k : Well(s, k)' <=> Well(s, k))
        /\ (Active(s)' <=> Active(s)) /\ target(s)' = target(s)
    BY <1>1 DEF Behind, Well, Active, target, policy
  <2>4. KeptOK(s)'
    BY <1>1, <2>1, <2>3 DEF RunOK, KeptOK
  <2>5. QED
    BY <2>2, <2>4 DEF RunOK
<1>4. QED
  BY <1>2, <1>3 DEF RunInv

LEMMA RunNext == ASSUME ~EditsMidJob, Tidy PROVE Inv /\ RunInv /\ [Next]_vars => RunInv'
<1> SUFFICES ASSUME Inv, RunInv, [Next]_vars PROVE RunInv'
  OBVIOUS
<1>1. CASE StartJob \/ JobEnds
  BY <1>1, JobRun
<1>2. CASE EditFiles
  BY <1>2, AroundRun DEF EditFiles
<1>3. CASE UpstreamMoves
  <2>1. PICK r \in DOMAIN source : \E tags \in SourceTags[r] \ {source[r]} : source' = [source EXCEPT ![r] = tags]
    BY <1>3 DEF UpstreamMoves
  <2>2. PICK tags \in SourceTags[r] : source' = [source EXCEPT ![r] = tags]
    BY <2>1
  <2>3. UNCHANGED <<dest, podVars>>
    BY <1>3 DEF UpstreamMoves
  <2>4. DOMAIN source' = DOMAIN source /\ \A x \in DOMAIN source : source'[x] = source[x] \/ source'[x] \in SourceTags[x]
    BY <2>2
  <2>5. QED
    BY <2>3, <2>4, AroundRun
<1>4. ASSUME NEW s \in Shards, PodStep(s) PROVE RunInv'
  BY <1>4, StartPodRun, PlanPolicyRun, ReadDestRun, NoTargetRun, WriteDestRun, EndRunRun DEF PodStep
<1>5. ASSUME NEW s \in Shards, Failure(s) PROVE RunInv'
  <2>1. CASE PlanFails(s)
    BY <2>1, HaltRun DEF PlanFails, worldVars
  <2>2. CASE PodLost(s)
    BY <2>2, HaltRun DEF PodLost, worldVars
  <2>3. QED
    BY <1>5, <2>1, <2>2, ReadFailsRun DEF Failure
<1>6. CASE UNCHANGED vars
  BY <1>6, AroundRun DEF vars, worldVars
<1>7. QED
  BY <1>1, <1>2, <1>3, <1>4, <1>5, <1>6 DEF Next

\* What the exit code and the report rest on holds in every state, when the pods of a job see
\* the same policies and these are tidy.
THEOREM RunInvAlways == ASSUME ~EditsMidJob, Tidy PROVE Spec => []RunInv
<1>1. Inv /\ RunInv /\ [Next]_vars => RunInv'
  BY RunNext
<1>2. QED
  BY <1>1, RunInit, InvAlways, PTL DEF Spec

\* An exit code is 0 exactly if every code is.
LEMMA ExitZero ==
  ASSUME NEW rs, \A r \in ToSet(rs) : Frank(r)
  PROVE  /\ ExitOf(rs) = 0 <=> \A r \in ToSet(rs) : r.status = "ok"
         /\ RunStatus(rs) = "ok" <=> \A r \in ToSet(rs) : r.status = "ok"
<1> DEFINE codes == {0} \cup {rs[i].code : i \in DOMAIN rs} \cup {o.code : o \in UNION {rs[i].ops : i \in DOMAIN rs}}
<1>1. \A i \in DOMAIN rs : rs[i] \in ToSet(rs) /\ Frank(rs[i])
  BY DEF ToSet
<1>2. codes \subseteq {0, 2}
  BY <1>1 DEF Frank
<1>3. 2 \notin codes <=> \A i \in DOMAIN rs : rs[i].status = "ok"
  <2>1. 2 \in codes <=> \E i \in DOMAIN rs : rs[i].code = 2 \/ \E o \in rs[i].ops : o.code = 2
    OBVIOUS
  <2>2. \A i \in DOMAIN rs : rs[i].status = "ok" <=> ~(rs[i].code = 2 \/ \E o \in rs[i].ops : o.code = 2)
    BY <1>1 DEF Frank
  <2>3. QED
    BY <2>1, <2>2
<1>4. ExitOf(rs) = Max(codes) /\ 0 \in codes
  BY DEF ExitOf
<1> HIDE DEF codes
<1>5. Max(codes) = 0 <=> 2 \notin codes
  <2>1. CASE 2 \in codes
    <3>1. codes = {0, 2}
      BY <1>2, <1>4, <2>1
    <3>2. QED
      BY <3>1 DEF Max
  <2>2. CASE 2 \notin codes
    <3>1. codes = {0}
      BY <1>2, <1>4, <2>2
    <3>2. QED
      BY <2>2, <3>1 DEF Max
  <2>3. QED
    BY <2>1, <2>2
<1>6. (\A i \in DOMAIN rs : rs[i].status = "ok") <=> \A r \in ToSet(rs) : r.status = "ok"
  BY DEF ToSet
<1>7. RunStatus(rs) = "ok" <=> \A i \in DOMAIN rs : rs[i].status = "ok"
  BY DEF RunStatus
<1>8. QED
  BY <1>3, <1>4, <1>5, <1>6, <1>7

-----------------------------------------------------------------------------
(* The third invariant: a policy that ran cleanly stays as planned.        *)

\* What is planned is what a read of the source leads to now.
MadeNow(ts, p) ==
    IF p.source.kind = "git" THEN \E rev \in source[p.source.repo] : GitMade(p, rev, ts)
    ELSE ts \in PlansOf(p, source[p.source.repo])

GitTarget(p, rev) ==
    [mode |-> "none", images |-> {[out |-> rev, src |-> rev, transform |-> <<>>]},
     aliases |-> {[alias |-> p.source.ref, target |-> rev, variant |-> 1]}]

\* Whatever is planned for the policy now, its destinations are so already.
Satisfied(p) ==
    IF p.source.kind = "git"
    THEN \A rev \in source[p.source.repo] : \A r \in DestRepos(p) : Fits(GitTarget(p, rev), dest[r])
    ELSE \A ts \in PlansOf(p, source[p.source.repo]) : \A t \in ToSet(ts) : Fits(t, dest[t.repo])

\* Each report is of a policy that is behind, and the only one of it.
NamedOK(s) ==
    /\ stage[s] \in {"gone", "waiting", "plan"} => report[s] = <<>>
    /\ \A r \in ToSet(report[s]) : \E k \in DOMAIN plans[s] : k < at[s][1] /\ r.name = plans[s][k].name
    /\ \A r, x \in ToSet(report[s]) : r.name = x.name => r = x

SteadyOK(s) == steady /\ Active(s) => \A k \in DOMAIN plans[s] : MadeNow(plans[s][k].targets, Batch(s)[k])

SettledOK ==
    /\ ~steady => settled = {}
    /\ \A p \in ToSet(Policies(files)) : p.name \in settled => Satisfied(p)

SettleInv == SettledOK /\ \A s \in Shards : NamedOK(s) /\ SteadyOK(s)

\* Fits asks for images, aliases and the mode only.
LEMMA FitsAlike ==
  ASSUME NEW t, NEW x, NEW held, t.mode = x.mode, t.images = x.images, t.aliases = x.aliases
  PROVE  Fits(t, held) <=> Fits(x, held)
  BY DEF Fits, ToDelete, Wanted

LEMMA GitAlike ==
  ASSUME NEW p, NEW rev, NEW ts, GitMade(p, rev, ts), NEW j \in DOMAIN ts, NEW held
  PROVE  Fits(ts[j], held) <=> Fits(GitTarget(p, rev), held)
<1>1. /\ ts[j].mode = "none" /\ ts[j].images = {[out |-> rev, src |-> rev, transform |-> <<>>]}
      /\ ts[j].aliases = {[alias |-> p.source.ref, target |-> rev, variant |-> 1]}
  BY DEF GitMade
<1>2. /\ GitTarget(p, rev).mode = "none"
      /\ GitTarget(p, rev).images = {[out |-> rev, src |-> rev, transform |-> <<>>]}
      /\ GitTarget(p, rev).aliases = {[alias |-> p.source.ref, target |-> rev, variant |-> 1]}
  BY DEF GitTarget
<1> DEFINE g == GitTarget(p, rev)
           t == ts[j]
<1>3. t.mode = g.mode /\ t.images = g.images /\ t.aliases = g.aliases
  BY <1>1, <1>2
<1> HIDE DEF g, t
<1>4. Fits(t, held) <=> Fits(g, held)
  BY <1>3, FitsAlike
<1>5. QED
  BY <1>4 DEF t, g

\* A plan that is made of the source as it is, of a policy that is satisfied, is carried out.
LEMMA SatisfiedFits ==
  ASSUME NEW p, Satisfied(p), NEW ts, MadeNow(ts, p), NEW j \in DOMAIN ts
  PROVE  Fits(ts[j], dest[ts[j].repo])
<1>1. CASE p.source.kind = "git"
  <2>1. PICK rev \in source[p.source.repo] : GitMade(p, rev, ts)
    BY <1>1 DEF MadeNow
  <2>2. ts[j].repo \in DestRepos(p)
    BY <2>1 DEF GitMade, DestRepos, ToSet
  <2>3. Fits(GitTarget(p, rev), dest[ts[j].repo])
    BY <1>1, <2>2 DEF Satisfied
  <2>4. QED
    BY <2>1, <2>3, GitAlike
<1>2. CASE p.source.kind # "git"
  BY <1>2 DEF Satisfied, MadeNow, ToSet
<1>3. QED
  BY <1>1, <1>2

\* And once one such plan is carried out, the policy is satisfied: there is no other plan.
LEMMA FitsSatisfied ==
  ASSUME Decided, RunInv, NEW s \in Shards, NEW f \in DOMAIN PolicySets, Refused(s, f) = 0,
         NEW p \in ToSet(Batches(s, f)), NEW ts, MadeNow(ts, p),
         \A j \in DOMAIN ts : Fits(ts[j], dest[ts[j].repo])
  PROVE  Satisfied(p)
<1>1. p \in ToSet(Policies(f))
  BY BatchFacts
<1>2. source[p.source.repo] \in SourceTags[p.source.repo]
  <2>1. p.source.repo \in DOMAIN SourceTags
    BY <1>1, DriverAssumption DEF Policies
  <2>2. QED
    BY <2>1 DEF RunInv, WorldOK
<1>3. IF p.source.kind = "git" THEN \A x, y \in source[p.source.repo] : x = y
      ELSE \A us, vs \in PlansOf(p, source[p.source.repo]) : us = vs
  BY <1>2 DEF Decided
<1>4. CASE p.source.kind = "git"
  <2>1. PICK rev \in source[p.source.repo] : GitMade(p, rev, ts)
    BY <1>4 DEF MadeNow
  <2>2. ASSUME NEW x \in source[p.source.repo], NEW r \in DestRepos(p) PROVE Fits(GitTarget(p, x), dest[r])
    <3>1. x = rev
      BY <1>3, <1>4
    <3>2. PICK j \in DOMAIN Destinations(p) : r = DestRepo(Destinations(p)[j])
      BY DEF DestRepos, ToSet
    <3>3. j \in DOMAIN ts /\ ts[j].repo = r
      BY <2>1, <3>2 DEF GitMade
    <3>4. QED
      BY <2>1, <3>1, <3>3, GitAlike
  <2>3. QED
    BY <1>4, <2>2 DEF Satisfied
<1>5. CASE p.source.kind # "git"
  <2>1. \A us \in PlansOf(p, source[p.source.repo]) : us = ts
    BY <1>3, <1>5 DEF MadeNow
  <2>2. QED
    BY <1>5, <2>1 DEF Satisfied, ToSet
<1>6. QED
  BY <1>4, <1>5

\* A write elsewhere does not concern a policy.
LEMMA SatisfiedKept ==
  ASSUME NEW p \in Policy, Satisfied(p), source' = source, \A r \in DestRepos(p) : dest'[r] = dest[r]
  PROVE  Satisfied(p)'
<1>1. CASE p.source.kind = "git"
  BY <1>1 DEF Satisfied
<1>2. CASE p.source.kind # "git"
  <2>1. ASSUME NEW ts \in PlansOf(p, source[p.source.repo]), NEW t \in ToSet(ts) PROVE Fits(t, dest'[t.repo])
    <3>1. t.repo \in DestRepos(p)
      BY PlansFacts
    <3>2. Fits(t, dest[t.repo])
      BY <1>2 DEF Satisfied
    <3>3. QED
      BY <3>1, <3>2
  <2>2. QED
    BY <1>2, <2>1 DEF Satisfied
<1>3. QED
  BY <1>1, <1>2

\* To write what is there already changes nothing, whatever fails.
LEMMA NothingToDo ==
  ASSUME NEW h, NEW t, NEW failing, HeldOK(h), Fits(t, h)
  PROVE  After(h, t, h, failing) = h
<1> DEFINE images  == Placed(h, t, h, failing)
           pointed == Pointed(images, t, h, failing)
           names   == {x.alias : x \in pointed}
           one(o)  == CHOOSE x \in pointed : x.alias = o
<1>1. ToPlace(t, h) = {} /\ ToDelete(t, h) = {}
  BY DEF Fits, ToPlace
<1>2. images = h
  <2>1. {i \in ToPlace(t, h) : i.out \notin failing} = {}
    BY <1>1
  <2>2. images = [o \in DOMAIN h |-> h[o]]
    BY <2>1 DEF Placed
  <2>3. QED
    BY <2>2 DEF HeldOK
<1>3. \A x \in pointed : x.alias \in DOMAIN h /\ h[x.target] = h[x.alias]
  <2>1. pointed \subseteq t.aliases
    BY DEF Pointed, ToPoint
  <2>2. QED
    BY <2>1 DEF Fits
<1>4. After(h, t, h, failing) =
        [o \in (names \cup DOMAIN images) \ (ToDelete(t, h) \ failing) |-> IF o \in names THEN images[one(o).target] ELSE images[o]]
  BY DEF After
<1> HIDE DEF images, pointed
<1>5. \A o \in names : one(o) \in pointed /\ one(o).alias = o
  OBVIOUS
<1>6. \A o \in names : o \in DOMAIN h /\ h[one(o).target] = h[o]
  BY <1>3, <1>5
<1> HIDE DEF names, one
<1>7. (names \cup DOMAIN h) \ ({} \ failing) = DOMAIN h
  BY <1>6
<1>8. After(h, t, h, failing) = [o \in DOMAIN h |-> IF o \in names THEN h[one(o).target] ELSE h[o]]
  BY <1>1, <1>2, <1>4, <1>7
<1>9. After(h, t, h, failing) = [o \in DOMAIN h |-> h[o]]
  BY <1>6, <1>8
<1>10. QED
  BY <1>9 DEF HeldOK

\* A pod plans a policy name once.
LEMMA NameOnce ==
  ASSUME Tidy, Inv, NEW s \in Shards, stage[s] \in {"plan", "read", "write"},
         NEW k \in DOMAIN plans[s], NEW l \in DOMAIN plans[s], plans[s][k].name = plans[s][l].name
  PROVE  k = l
<1>1. TypeInv /\ PodOK(s)
  BY DEF Inv
<1>2. seen[s] \in DOMAIN PolicySets /\ Refused(s, seen[s]) = 0
  BY <1>1 DEF TypeInv, PodOK, SeenOK
<1>3. /\ k \in DOMAIN Batch(s) /\ l \in DOMAIN Batch(s)
      /\ plans[s][k].name = Batch(s)[k].name /\ plans[s][l].name = Batch(s)[l].name
  BY <1>1 DEF PodOK, PlansOK, PlannedFor
<1>4. \A i, j \in DOMAIN Batch(s) : Batch(s)[i].name = Batch(s)[j].name => i = j
  BY <1>2 DEF Tidy, Batch
<1>5. QED
  BY <1>3, <1>4

\* Nothing that one pod does touches the reports and plans of another.
LEMMA SettleOther ==
  ASSUME SettleInv, NEW s \in Shards, NEW u \in Shards \ {s}, Others(s), UNCHANGED <<source, steady>>
  PROVE  NamedOK(u)' /\ SteadyOK(u)'
<1>1. /\ stage'[u] = stage[u] /\ seen'[u] = seen[u] /\ plans'[u] = plans[u] /\ at'[u] = at[u]
      /\ report'[u] = report[u]
  BY DEF Others
<1>2. NamedOK(u) /\ SteadyOK(u)
  BY DEF SettleInv
<1>3. NamedOK(u)'
  BY <1>1, <1>2 DEF NamedOK
<1>4. SteadyOK(u)'
  BY <1>1, <1>2 DEF SteadyOK, Active, MadeNow, Batch
<1>5. QED
  BY <1>3, <1>4

LEMMA SettleFromPod ==
  ASSUME SettleInv, NEW s \in Shards, Others(s), UNCHANGED <<source, dest, steady, settled>>,
         NamedOK(s)', SteadyOK(s)'
  PROVE  SettleInv'
<1>1. files' = files
  BY DEF Others
<1>2. SettledOK'
  BY <1>1 DEF SettleInv, SettledOK, Satisfied
<1>3. ASSUME NEW u \in Shards PROVE NamedOK(u)' /\ SteadyOK(u)'
  <2>1. CASE u = s
    BY <2>1
  <2>2. CASE u # s
    BY <2>2, SettleOther
  <2>3. QED
    BY <2>1, <2>2
<1>4. QED
  BY <1>2, <1>3 DEF SettleInv

\* What was planned is still what would be.
LEMMA SteadyKept ==
  ASSUME SettleInv, NEW s \in Shards, Active(s), UNCHANGED <<source, steady>>, plans'[s] = plans[s], seen'[s] = seen[s]
  PROVE  SteadyOK(s)'
<1>1. SteadyOK(s)
  BY DEF SettleInv
<1>2. QED
  BY <1>1 DEF SteadyOK, MadeNow, Batch

LEMMA HaltSettle ==
  ASSUME Inv, SettleInv, NEW s \in Shards, NEW code,
         Stops(s, code), UNCHANGED <<files, job, plans, at, wrote, dest, source, steady, settled>>,
         seen' = seen \/ seen' = [seen EXCEPT ![s] = files]
  PROVE  SettleInv'
<1>1. /\ stage' = [stage EXCEPT ![s] = "stopped"] /\ report' = [report EXCEPT ![s] = <<>>]
      /\ exit' = [exit EXCEPT ![s] = code] /\ ops' = [ops EXCEPT ![s] = {}]
  BY DEF Stops, Ends
<1>2. TypeInv
  BY DEF Inv
<1>3. stage'[s] = "stopped" /\ report'[s] = <<>> /\ ToSet(<<>>) = {}
  BY <1>1, <1>2 DEF TypeInv, ToSet
<1>4. Others(s)
  BY <1>1, <1>2 DEF TypeInv, Others
<1>5. NamedOK(s)' /\ SteadyOK(s)'
  BY <1>3 DEF NamedOK, SteadyOK, Active
<1>6. QED
  BY <1>4, <1>5, SettleFromPod

LEMMA StartPodSettle == ASSUME Inv, SettleInv, NEW s \in Shards, StartPod(s) PROVE SettleInv'
<1>1. TypeInv /\ PodOK(s) /\ NamedOK(s)
  BY DEF Inv, SettleInv
<1>2. /\ stage[s] = "waiting" /\ job /\ seen' = [seen EXCEPT ![s] = files]
      /\ UNCHANGED <<files, job, plans, at, wrote, dest, source, steady, settled>>
  BY DEF StartPod, worldVars
<1>3. CASE Refused(s, files) = 0
  <2>1. stage' = [stage EXCEPT ![s] = "plan"] /\ UNCHANGED <<exit, report, ops>>
    BY <1>3 DEF StartPod
  <2>2. stage'[s] = "plan" /\ report'[s] = <<>> /\ plans'[s] = <<>>
    BY <1>1, <1>2, <2>1 DEF TypeInv, NamedOK, PodOK, PlansOK
  <2>3. Others(s)
    BY <1>1, <1>2, <2>1 DEF TypeInv, Others
  <2>4. ToSet(<<>>) = {} /\ DOMAIN <<>> = {}
    BY DEF ToSet
  <2>5. NamedOK(s)'
    BY <2>2, <2>4 DEF NamedOK
  <2>6. SteadyOK(s)'
    BY <2>2, <2>4 DEF SteadyOK
  <2>7. QED
    BY <1>2, <2>3, <2>5, <2>6, SettleFromPod
<1>4. CASE Refused(s, files) # 0
  <2>1. Stops(s, Refused(s, files))
    BY <1>4 DEF StartPod
  <2>2. QED
    BY <1>2, <2>1, HaltSettle
<1>5. QED
  BY <1>3, <1>4

LEMMA MadeNowFacts == ASSUME NEW p, NEW ts \in Plannings(p) PROVE MadeNow(ts, p)
<1>1. CASE p.source.kind = "git"
  <2> DEFINE d == Destinations(p)
  <2>1. PICK rev \in source[p.source.repo] : ts = [j \in DOMAIN d |->
            LET repo == DestRepo(d[j])
            IN  [repo |-> repo, mode |-> "none",
                 images |-> {[out |-> rev, src |-> rev, transform |-> <<>>]},
                 aliases |-> {[alias |-> p.source.ref, target |-> rev, variant |-> 1]}, mirror |-> dest[repo]]]
    BY <1>1, Zenon DEF Plannings, GitPlans
  <2>2. GitMade(p, rev, ts)
    BY <2>1 DEF GitMade
  <2>3. QED
    BY <1>1, <2>2 DEF MadeNow
<1>2. CASE p.source.kind # "git"
  BY <1>2 DEF Plannings, MadeNow
<1>3. QED
  BY <1>1, <1>2

LEMMA PlannedSettle ==
  ASSUME Inv, SettleInv, NEW s \in Shards, stage[s] = "plan",
         NEW done, steady => \A k \in DOMAIN done : MadeNow(done[k].targets, Batch(s)[k]),
         DOMAIN plans' = DOMAIN plans, plans'[s] = done, \A u \in Shards \ {s} : plans'[u] = plans[u],
         AfterPlan(s, done), UNCHANGED <<files, job, seen, wrote, dest, source, steady, settled>>
  PROVE  SettleInv'
<1>1. TypeInv /\ report[s] = <<>> /\ ToSet(<<>>) = {}
  BY DEF Inv, SettleInv, NamedOK, ToSet
<1>2. Others(s) /\ report'[s] = <<>>
  <2>1. CASE UNCHANGED <<stage, exit, report, ops, at>>
    BY <1>1, <2>1 DEF TypeInv, Others
  <2>2. CASE Stops(s, 1) /\ UNCHANGED at
    <3>1. /\ stage' = [stage EXCEPT ![s] = "stopped"] /\ report' = [report EXCEPT ![s] = <<>>]
          /\ exit' = [exit EXCEPT ![s] = 1] /\ ops' = [ops EXCEPT ![s] = {}]
      BY <2>2 DEF Stops, Ends
    <3>2. QED
      BY <1>1, <2>2, <3>1 DEF TypeInv, Others
  <2>3. CASE Onto(s, 1, 1) /\ UNCHANGED <<exit, report, ops>>
    <3>1. stage' = [stage EXCEPT ![s] = "read"] /\ at' = [at EXCEPT ![s] = <<1, 1>>]
      BY <2>3 DEF Onto
    <3>2. QED
      BY <1>1, <2>3, <3>1 DEF TypeInv, Others
  <2>4. QED
    BY <2>1, <2>2, <2>3 DEF AfterPlan
<1>3. NamedOK(s)'
  BY <1>1, <1>2 DEF NamedOK
<1>4. SteadyOK(s)'
  BY DEF SteadyOK, MadeNow, Batch
<1>5. QED
  BY <1>2, <1>3, <1>4, SettleFromPod

LEMMA PlanPolicySettle == ASSUME Inv, SettleInv, NEW s \in Shards, PlanPolicy(s) PROVE SettleInv'
<1>1. /\ TypeInv /\ PodOK(s) /\ SteadyOK(s) /\ stage[s] = "plan"
      /\ UNCHANGED <<files, job, seen, wrote, dest, source, steady, settled>>
  BY DEF Inv, SettleInv, PlanPolicy, worldVars
<1> DEFINE next == Len(plans[s]) + 1
           p == Batch(s)[next]
<1>2. IsSeq(plans[s])
  BY <1>1 DEF PodOK, PlansOK
<1>3. steady => \A k \in DOMAIN plans[s] : MadeNow(plans[s][k].targets, Batch(s)[k])
  BY <1>1 DEF SteadyOK, Active
<1>4. CASE next > Len(Batch(s))
  <2>1. AfterPlan(s, plans[s]) /\ UNCHANGED plans
    BY <1>4 DEF PlanPolicy
  <2>2. QED
    BY <1>1, <1>3, <2>1, PlannedSettle
<1>5. CASE ~ (next > Len(Batch(s))) /\ NotCompiled(p)
  <2>1. Stops(s, 3) /\ UNCHANGED <<plans, at>>
    BY <1>5 DEF PlanPolicy
  <2>2. QED
    BY <1>1, <2>1, HaltSettle
<1>6. CASE ~ (next > Len(Batch(s))) /\ ~ NotCompiled(p)
  <2>1. PICK ts \in Plannings(p) :
           LET done == Append(plans[s], Entry(p, ts))
           IN  plans' = [plans EXCEPT ![s] = done] /\ AfterPlan(s, done)
    BY <1>6 DEF PlanPolicy, Entry
  <2> DEFINE done == Append(plans[s], Entry(p, ts))
  <2>2. /\ IsSeq(done) /\ Len(done) = Len(plans[s]) + 1
        /\ \A k \in DOMAIN done : done[k] = IF k = next THEN Entry(p, ts) ELSE plans[s][k]
    BY <1>2, Appended
  <2>3. MadeNow(Entry(p, ts).targets, p)
    BY MadeNowFacts DEF Entry
  <2>4. ASSUME steady, NEW k \in DOMAIN done PROVE MadeNow(done[k].targets, Batch(s)[k])
    <3>1. CASE k = next
      BY <2>2, <2>3, <3>1
    <3>2. CASE k # next
      <4>1. DOMAIN done = 1 .. Len(done) /\ DOMAIN plans[s] = 1 .. Len(plans[s]) /\ Len(plans[s]) \in Nat
        BY <1>2, <2>2 DEF IsSeq
      <4>2. k \in DOMAIN plans[s] /\ done[k] = plans[s][k]
        BY <2>2, <3>2, <4>1
      <4>3. QED
        BY <1>3, <2>4, <4>2
    <3>3. QED
      BY <3>1, <3>2
  <2>5. plans' = [plans EXCEPT ![s] = done] /\ AfterPlan(s, done)
    BY <2>1
  <2> HIDE DEF done
  <2>6. DOMAIN plans' = DOMAIN plans /\ plans'[s] = done /\ \A u \in Shards \ {s} : plans'[u] = plans[u]
    BY <1>1, <2>5 DEF TypeInv
  <2>7. QED
    BY <1>1, <2>4, <2>5, <2>6, PlannedSettle
<1>7. QED
  BY <1>4, <1>5, <1>6

\* A policy that is reported has not been before.
LEMMA PolicyDoneNamed ==
  ASSUME Tidy, Inv, SettleInv, NEW s \in Shards, NEW status, NEW code, NEW os,
         PolicyDone(s, status, code, os), UNCHANGED plans,
         stage[s] \in {"read", "write"}, at[s][1] \in DOMAIN plans[s]
  PROVE  NamedOK(s)'
<1> DEFINE r == [name |-> policy(s).name, status |-> status, code |-> code, ops |-> os]
<1>1. TypeInv /\ PodOK(s) /\ NamedOK(s)
  BY DEF Inv, SettleInv
<1>2. /\ report' = [report EXCEPT ![s] = Append(report[s], r)]
      /\ stage' = [stage EXCEPT ![s] = "read"] /\ at' = [at EXCEPT ![s] = <<at[s][1] + 1, 1>>]
  BY DEF PolicyDone, Onto
<1>3. report'[s] = Append(report[s], r) /\ stage'[s] = "read" /\ at'[s] = <<at[s][1] + 1, 1>>
  BY <1>1, <1>2 DEF TypeInv
<1>4. ToSet(report'[s]) = ToSet(report[s]) \cup {r}
  <2>1. IsSeq(report[s])
    BY <1>1 DEF PodOK, ReportOK
  <2> HIDE DEF r
  <2>2. QED
    BY <1>3, <2>1, Appended
<1>5. r.name = plans[s][at[s][1]].name
  BY DEF policy
<1> HIDE DEF r
<1>6. at[s][1] \in Nat /\ \A k \in DOMAIN plans[s] : k \in Nat
  BY <1>1 DEF TypeInv, Indices, PodOK, PlansOK, IsSeq
<1>7. \A x \in ToSet(report[s]) : \E k \in DOMAIN plans[s] : k < at[s][1] /\ x.name = plans[s][k].name
  BY <1>1 DEF NamedOK
<1>8. \A x \in ToSet(report[s]) : x.name # r.name
  BY <1>5, <1>6, <1>7, NameOnce
<1>9. \A x \in ToSet(report'[s]) : \E k \in DOMAIN plans[s] : k < at'[s][1] /\ x.name = plans[s][k].name
  <2>1. \A k \in DOMAIN plans[s] : k < at[s][1] \/ k = at[s][1] => k < at'[s][1]
    BY <1>3, <1>6
  <2>2. QED
    BY <1>4, <1>5, <1>7, <2>1
<1>10. \A x, y \in ToSet(report'[s]) : x.name = y.name => x = y
  BY <1>1, <1>4, <1>8 DEF NamedOK
<1>11. QED
  BY <1>3, <1>9, <1>10 DEF NamedOK

LEMMA PolicyDoneSettle ==
  ASSUME Tidy, Inv, SettleInv, NEW s \in Shards, NEW status, NEW code, NEW os,
         PolicyDone(s, status, code, os),
         UNCHANGED <<files, job, seen, plans, wrote, dest, source, steady, settled>>,
         stage[s] \in {"read", "write"}, at[s][1] \in DOMAIN plans[s]
  PROVE  SettleInv'
<1>1. TypeInv
  BY DEF Inv
<1>2. /\ stage' = [stage EXCEPT ![s] = "read"] /\ at' = [at EXCEPT ![s] = <<at[s][1] + 1, 1>>]
      /\ DOMAIN report' = DOMAIN report /\ (\A u \in Shards \ {s} : report'[u] = report[u])
      /\ ops' = [ops EXCEPT ![s] = {}] /\ exit' = exit
  BY <1>1 DEF PolicyDone, Onto, TypeInv
<1>3. Others(s)
  <2>1. DOMAIN ops' = DOMAIN ops /\ \A u \in Shards \ {s} : ops'[u] = ops[u] /\ stage'[u] = stage[u] /\ at'[u] = at[u]
    BY <1>1, <1>2 DEF TypeInv
  <2>2. QED
    BY <1>1, <1>2, <2>1 DEF TypeInv, Others
<1>4. NamedOK(s)'
  BY PolicyDoneNamed
<1>5. SteadyOK(s)'
  BY SteadyKept DEF Active
<1>6. QED
  BY <1>3, <1>4, <1>5, SettleFromPod

LEMMA ReadFailsSettle == ASSUME Tidy, Inv, SettleInv, NEW s \in Shards, ReadFails(s) PROVE SettleInv'
<1>1. at[s][1] \in DOMAIN plans[s]
  BY ApplyingFacts DEF ReadFails
<1>2. PolicyDone(s, "failed", 2, {}) /\ stage[s] = "read"
      /\ UNCHANGED <<files, job, seen, plans, wrote, dest, source, steady, settled>>
  BY DEF ReadFails, Applying, PolicyFails, worldVars
<1>3. QED
  BY <1>1, <1>2, PolicyDoneSettle

LEMMA NoTargetSettle == ASSUME Tidy, Inv, SettleInv, NEW s \in Shards, NoTarget(s) PROVE SettleInv'
<1>1. TypeInv /\ NamedOK(s)
  BY DEF Inv, SettleInv
<1>2. stage[s] = "read" /\ UNCHANGED <<files, job, seen, plans, wrote, dest, source, steady, settled>>
  BY DEF NoTarget, Applying, worldVars
<1>3. at[s][1] \in DOMAIN plans[s]
  BY ApplyingFacts DEF NoTarget
<1>4. CASE policy(s).kind = "git"
  <2>1. /\ stage' = [stage EXCEPT ![s] = "read"] /\ at' = [at EXCEPT ![s] = <<at[s][1] + 1, 1>>]
        /\ UNCHANGED <<ops, report, exit>>
    BY <1>4 DEF NoTarget, Onto
  <2>2. stage'[s] = "read" /\ at'[s] = <<at[s][1] + 1, 1>>
    BY <1>1, <2>1 DEF TypeInv
  <2>3. Others(s)
    BY <1>1, <1>2, <2>1 DEF TypeInv, Others
  <2>4. NamedOK(s)'
    <3>1. at[s][1] \in Nat /\ \A k \in DOMAIN plans[s] : k \in Nat
      BY DEF Inv, TypeInv, Indices, PodOK, PlansOK, IsSeq
    <3>2. \A k \in DOMAIN plans[s] : k < at[s][1] => k < at'[s][1]
      BY <2>2, <3>1
    <3>3. QED
      BY <1>1, <1>2, <2>1, <2>2, <3>2 DEF NamedOK
  <2>5. SteadyOK(s)'
    BY <1>2, SteadyKept DEF Active
  <2>6. QED
    BY <1>2, <2>3, <2>4, <2>5, SettleFromPod
<1>5. CASE policy(s).kind # "git"
  <2>1. PolicyDone(s, "ok", 0, {})
    BY <1>5 DEF NoTarget
  <2>2. QED
    BY <1>2, <1>3, <2>1, PolicyDoneSettle
<1>6. QED
  BY <1>4, <1>5

LEMMA ReadDestSettle == ASSUME Inv, SettleInv, NEW s \in Shards, ReadDest(s) PROVE SettleInv'
<1>1. TypeInv /\ NamedOK(s)
  BY DEF Inv, SettleInv
<1>2. /\ stage[s] = "read" /\ stage' = [stage EXCEPT ![s] = "write"]
      /\ UNCHANGED <<files, job, seen, plans, at, ops, report, exit, wrote, dest, source, steady, settled>>
  BY DEF ReadDest, Applying, worldVars
<1>3. stage'[s] = "write"
  BY <1>1, <1>2 DEF TypeInv
<1>4. Others(s)
  BY <1>1, <1>2 DEF TypeInv, Others
<1>5. NamedOK(s)'
  BY <1>1, <1>2, <1>3 DEF NamedOK
<1>6. SteadyOK(s)'
  BY <1>2, SteadyKept DEF Active
<1>7. QED
  BY <1>2, <1>4, <1>5, <1>6, SettleFromPod

\* What a pod that writes is at: the policy, and the repository as it was read.
LEMMA WritingFacts ==
  ASSUME ~EditsMidJob, Inv, RunInv, NEW s \in Shards, stage[s] = "write"
  PROVE  /\ at[s][1] \in DOMAIN plans[s] /\ at[s][2] \in DOMAIN plans[s][at[s][1]].targets
         /\ files \in DOMAIN PolicySets /\ seen[s] = files /\ Refused(s, files) = 0
         /\ Batch(s)[at[s][1]] \in ToSet(Batches(s, files)) /\ Batch(s)[at[s][1]] \in ToSet(Policies(files))
         /\ Batch(s)[at[s][1]].name = policy(s).name
         /\ target(s) = plans[s][at[s][1]].targets[at[s][2]] /\ target(s).repo \in DestRepos(Batch(s)[at[s][1]])
         /\ mirror[s] = dest[target(s).repo] /\ HeldOK(dest[target(s).repo])
<1> DEFINE a == at[s][1]
           b == at[s][2]
           p == Batch(s)[a]
<1>1. TypeInv /\ PodOK(s) /\ RunOK(s) /\ WorldOK
  BY DEF Inv, RunInv
<1>2. a \in DOMAIN plans[s] /\ b \in DOMAIN plans[s][a].targets
      /\ policy(s) = plans[s][a] /\ target(s) = plans[s][a].targets[b]
  <2>1. at[s][1] \in DOMAIN plans[s]
    BY <1>1 DEF PodOK, ReportOK
  <2>2. IsSeq(policy(s).targets) /\ b \in 1 .. Len(policy(s).targets)
    BY <2>1, TargetFacts
  <2>3. QED
    BY <2>1, <2>2 DEF IsSeq, policy, target
<1>3. files \in DOMAIN PolicySets /\ seen[s] = files /\ Refused(s, files) = 0
  BY <1>1 DEF TypeInv, PodOK, SeenOK
<1>4. a \in DOMAIN Batch(s) /\ PlannedFor(plans[s][a], p)
  BY <1>1, <1>2 DEF PodOK, PlansOK
<1>5. p \in ToSet(Batches(s, files)) /\ target(s) \in ToSet(plans[s][a].targets)
  BY <1>2, <1>3, <1>4 DEF Batch, ToSet
<1>6. p.name = policy(s).name /\ target(s).repo \in DestRepos(p)
  BY <1>2, <1>4, <1>5 DEF PlannedFor
<1>7. p \in ToSet(Policies(files))
  BY <1>3, <1>5, BatchFacts
<1>8. mirror[s] = dest[target(s).repo] /\ HeldOK(dest[target(s).repo])
  <2>1. target(s).repo \in Repos
    BY <1>3, <1>6, <1>7, AcceptedFacts
  <2>2. QED
    BY <1>1, <2>1 DEF RunOK, KeptOK, WorldOK
<1>9. QED
  BY <1>2, <1>3, <1>5, <1>6, <1>7, <1>8

\* What a pod writes is what it planned, onto what is there.
LEMMA WriteFound ==
  ASSUME ~EditsMidJob, Inv, RunInv, NEW s \in Shards, WriteDest(s)
  PROVE  \E failing : /\ dest' = [dest EXCEPT ![target(s).repo] = After(@, target(s), @, failing)]
                      /\ DOMAIN wrote' = DOMAIN wrote /\ \A u \in Shards \ {s} : wrote'[u] = wrote[u]
                      /\ \/ PolicyDone(s, "failed", 2, {})
                         \/ TargetDone(s, OpsOf(s, target(s), dest[target(s).repo], failing))
<1>1. mirror[s] = dest[target(s).repo] /\ TypeInv
  BY WritingFacts DEF WriteDest, Inv
<1>2. QED
  BY <1>1 DEF WriteDest, PolicyFails, TypeInv

\* A policy that ran cleanly is written to no effect.
LEMMA WriteNoOp ==
  ASSUME ~EditsMidJob, Inv, RunInv, SettleInv, NEW s \in Shards, WriteDest(s), policy(s).name \in settled
  PROVE  dest'[target(s).repo] = dest[target(s).repo]
<1> DEFINE a == at[s][1]
           p == Batch(s)[a]
           t == target(s)
<1>1. stage[s] = "write"
  BY DEF WriteDest
<1>2. /\ a \in DOMAIN plans[s] /\ at[s][2] \in DOMAIN plans[s][a].targets
      /\ p \in ToSet(Policies(files)) /\ p.name = policy(s).name
      /\ t = plans[s][a].targets[at[s][2]] /\ HeldOK(dest[t.repo])
  BY <1>1, WritingFacts
<1>3. Satisfied(p)
  BY <1>2 DEF SettleInv, SettledOK
<1>4. MadeNow(plans[s][a].targets, p)
  <2>1. steady /\ SteadyOK(s) /\ Active(s)
    BY <1>1 DEF SettleInv, SettledOK, Active
  <2>2. QED
    BY <1>2, <2>1 DEF SteadyOK
<1>5. Fits(t, dest[t.repo])
  BY <1>2, <1>3, <1>4, SatisfiedFits
<1>6. PICK failing : dest' = [dest EXCEPT ![t.repo] = After(@, t, @, failing)]
  BY WriteFound
<1>7. After(dest[t.repo], t, dest[t.repo], failing) = dest[t.repo]
  BY <1>2, <1>5, NothingToDo
<1> HIDE DEF t
<1>8. QED
  BY <1>6, <1>7 DEF t

LEMMA WriteDestSettle == ASSUME ~EditsMidJob, Tidy, Inv, RunInv, SettleInv, NEW s \in Shards, WriteDest(s) PROVE SettleInv'
<1> DEFINE t == target(s)
           q == Batch(s)[at[s][1]]
<1>1. /\ TypeInv /\ NamedOK(s) /\ stage[s] = "write"
      /\ UNCHANGED <<files, job, seen, plans, source, steady, settled>>
  BY DEF Inv, SettleInv, WriteDest
<1>2. /\ at[s][1] \in DOMAIN plans[s] /\ files \in DOMAIN PolicySets /\ Refused(s, files) = 0
      /\ q \in ToSet(Policies(files)) /\ q.name = policy(s).name /\ t.repo \in DestRepos(q)
  BY <1>1, WritingFacts
<1>3. PICK failing : /\ dest' = [dest EXCEPT ![t.repo] = After(@, t, @, failing)]
                     /\ DOMAIN wrote' = DOMAIN wrote /\ \A u \in Shards \ {s} : wrote'[u] = wrote[u]
                     /\ \/ PolicyDone(s, "failed", 2, {})
                        \/ TargetDone(s, OpsOf(s, t, dest[t.repo], failing))
  BY WriteFound
<1> DEFINE os == OpsOf(s, t, dest[t.repo], failing)
<1>4. Others(s) /\ NamedOK(s)'
  <2>1. ASSUME NEW status, NEW code, NEW all, PolicyDone(s, status, code, all) PROVE Others(s) /\ NamedOK(s)'
    <3>1. /\ stage' = [stage EXCEPT ![s] = "read"] /\ at' = [at EXCEPT ![s] = <<at[s][1] + 1, 1>>]
          /\ DOMAIN report' = DOMAIN report /\ (\A u \in Shards \ {s} : report'[u] = report[u])
          /\ ops' = [ops EXCEPT ![s] = {}] /\ exit' = exit
      BY <1>1, <2>1 DEF PolicyDone, Onto, TypeInv
    <3>2. DOMAIN ops' = DOMAIN ops /\ \A u \in Shards \ {s} : ops'[u] = ops[u] /\ stage'[u] = stage[u] /\ at'[u] = at[u]
      BY <1>1, <3>1 DEF TypeInv
    <3>3. Others(s)
      BY <1>1, <1>3, <3>1, <3>2 DEF TypeInv, Others
    <3>4. NamedOK(s)'
      BY <1>1, <1>2, <2>1, PolicyDoneNamed
    <3>5. QED
      BY <3>3, <3>4
  <2>2. CASE TargetDone(s, os) /\ at[s][2] # Len(policy(s).targets)
    <3>1. /\ ops' = [ops EXCEPT ![s] = ops[s] \cup os] /\ UNCHANGED <<report, exit>>
          /\ stage' = [stage EXCEPT ![s] = "read"] /\ at' = [at EXCEPT ![s] = <<at[s][1], at[s][2] + 1>>]
      BY <2>2 DEF TargetDone, Onto
    <3>2. stage'[s] = "read" /\ at'[s][1] = at[s][1]
      BY <1>1, <3>1 DEF TypeInv
    <3>3. Others(s)
      BY <1>1, <1>3, <3>1 DEF TypeInv, Others
    <3>4. NamedOK(s)'
      BY <1>1, <3>1, <3>2 DEF NamedOK
    <3>5. QED
      BY <3>3, <3>4
  <2>3. CASE TargetDone(s, os) /\ at[s][2] = Len(policy(s).targets)
    BY <2>1, <2>3 DEF TargetDone
  <2>4. QED
    BY <1>3, <2>1, <2>2, <2>3
<1>5. SteadyOK(s)'
  BY <1>1, SteadyKept DEF Active
<1>6. ASSUME NEW p \in ToSet(Policies(files)), p.name \in settled PROVE Satisfied(p)'
  <2>1. Satisfied(p) /\ p \in Policy
    BY <1>2, <1>6 DEF SettleInv, SettledOK, Policy
  <2>2. ASSUME NEW r \in DestRepos(p) PROVE dest'[r] = dest[r]
    <3>1. CASE r # t.repo
      BY <1>3, <3>1
    <3>2. CASE r = t.repo
      <4>1. ~Collide(ToSet(Policies(files)))
        BY <1>2 DEF Refused
      <4>2. p.name = q.name
        BY <1>2, <3>2, <4>1 DEF Collide
      <4>3. policy(s).name \in settled
        BY <1>2, <1>6, <4>2
      <4>4. QED
        BY <3>2, <4>3, WriteNoOp
    <3>3. QED
      BY <3>1, <3>2
  <2>3. QED
    BY <1>1, <2>1, <2>2, SatisfiedKept
<1>7. SettledOK'
  BY <1>1, <1>6 DEF SettleInv, SettledOK
<1>8. ASSUME NEW u \in Shards PROVE NamedOK(u)' /\ SteadyOK(u)'
  <2>1. CASE u = s
    BY <1>4, <1>5, <2>1
  <2>2. CASE u # s
    BY <1>1, <1>4, <2>2, SettleOther
  <2>3. QED
    BY <2>1, <2>2
<1>9. QED
  BY <1>7, <1>8 DEF SettleInv

\* A run that ends without a failure of a policy has left it as it is planned now, if nothing
\* has changed since the job began.
LEMMA EndedWell ==
  ASSUME ~EditsMidJob, Tidy, Decided, Inv, RunInv, SettleInv, NEW s \in Shards, EndRun(s), steady,
         NEW r \in ToSet(report[s]), r.status = "ok", NEW p \in ToSet(Policies(files)), p.name = r.name
  PROVE  Satisfied(p)
<1>1. /\ TypeInv /\ PodOK(s) /\ RunOK(s) /\ NamedOK(s) /\ SteadyOK(s)
      /\ stage[s] = "read" /\ at[s][1] > Len(plans[s])
  BY DEF Inv, RunInv, SettleInv, EndRun
<1>2. files \in DOMAIN PolicySets /\ seen[s] = files /\ Refused(s, files) = 0
  BY <1>1 DEF TypeInv, PodOK, SeenOK
<1>3. PICK k \in DOMAIN plans[s] : k < at[s][1] /\ r.name = plans[s][k].name
  BY <1>1 DEF NamedOK
<1>4. k \in DOMAIN Batch(s) /\ PlannedFor(plans[s][k], Batch(s)[k])
  BY <1>1 DEF PodOK, PlansOK
<1>5. Batch(s)[k] \in ToSet(Batches(s, files))
  BY <1>2, <1>4 DEF Batch, ToSet
<1>6. p = Batch(s)[k]
  <2>1. Batch(s)[k] \in ToSet(Policies(files))
    BY <1>2, <1>5, BatchFacts
  <2>2. Batch(s)[k].name = p.name
    BY <1>3, <1>4 DEF PlannedFor
  <2>3. QED
    BY <1>2, <2>1, <2>2, DriverAssumption DEF Policies
<1>7. MadeNow(plans[s][k].targets, p)
  BY <1>1, <1>6 DEF SteadyOK, Active
<1>8. Well(s, k)
  <2>1. at[s][1] \in Nat /\ k \in Nat
    BY <1>1 DEF TypeInv, Indices, PodOK, PlansOK, IsSeq
  <2>2. k # at[s][1]
    BY <1>3, <2>1
  <2>3. \A x \in ToSet(report[s]) : x.name = plans[s][k].name => x = r
    BY <1>1, <1>3 DEF NamedOK
  <2>4. QED
    BY <2>2, <2>3 DEF Well
<1>9. ASSUME NEW j \in DOMAIN plans[s][k].targets
      PROVE  Fits(plans[s][k].targets[j], dest[plans[s][k].targets[j].repo])
  <2>1. Behind(s, k, j)
    BY <1>1, <1>3 DEF Behind
  <2>2. QED
    BY <1>1, <1>8, <2>1 DEF RunOK, KeptOK
<1>10. QED
  BY <1>2, <1>5, <1>6, <1>7, <1>9, FitsSatisfied

LEMMA EndRunSettle == ASSUME ~EditsMidJob, Tidy, Decided, Inv, RunInv, SettleInv, NEW s \in Shards, EndRun(s) PROVE SettleInv'
<1>1. /\ TypeInv /\ NamedOK(s) /\ stage[s] = "read"
      /\ UNCHANGED <<files, job, seen, plans, at, wrote, dest, source, steady>>
      /\ stage' = [stage EXCEPT ![s] = "done"] /\ report' = [report EXCEPT ![s] = report[s]]
      /\ exit' = [exit EXCEPT ![s] = ExitOf(report[s])] /\ ops' = [ops EXCEPT ![s] = {}]
  BY DEF Inv, SettleInv, EndRun, Ends, worldVars
<1>2. stage'[s] = "done" /\ report'[s] = report[s]
  BY <1>1 DEF TypeInv
<1>3. Others(s)
  BY <1>1 DEF TypeInv, Others
<1>4. NamedOK(s)'
  BY <1>1, <1>2 DEF NamedOK
<1>5. SteadyOK(s)'
  BY <1>1, SteadyKept DEF Active
<1>6. settled' = IF steady THEN settled \cup {r.name : r \in {x \in ToSet(report[s]) : x.status = "ok"}} ELSE settled
  BY DEF EndRun
<1>7. ASSUME NEW p \in ToSet(Policies(files)), p.name \in settled' PROVE Satisfied(p)'
  <2>1. CASE p.name \in settled
    BY <1>1, <2>1 DEF SettleInv, SettledOK, Satisfied
  <2>2. CASE p.name \notin settled
    <3>1. steady /\ \E r \in ToSet(report[s]) : r.status = "ok" /\ p.name = r.name
      BY <1>6, <1>7, <2>2
    <3>2. Satisfied(p)
      BY <3>1, EndedWell
    <3>3. QED
      BY <1>1, <3>2 DEF Satisfied
  <2>3. QED
    BY <2>1, <2>2
<1>8. SettledOK'
  BY <1>1, <1>6, <1>7 DEF SettleInv, SettledOK
<1>9. ASSUME NEW u \in Shards PROVE NamedOK(u)' /\ SteadyOK(u)'
  <2>1. CASE u = s
    BY <1>4, <1>5, <2>1
  <2>2. CASE u # s
    BY <1>1, <1>3, <2>2, SettleOther
  <2>3. QED
    BY <2>1, <2>2
<1>10. QED
  BY <1>8, <1>9 DEF SettleInv

LEMMA JobSettle == ASSUME Inv, SettleInv, StartJob \/ JobEnds PROVE SettleInv'
<1>1. UNCHANGED <<files, dest, source, settled>>
  BY DEF StartJob, JobEnds, worldVars
<1>2. SettledOK'
  <2>1. steady' = steady \/ steady' = TRUE
    BY DEF StartJob, JobEnds
  <2>2. QED
    BY <1>1, <2>1 DEF SettleInv, SettledOK, Satisfied
<1>3. ToSet(<<>>) = {}
  BY DEF ToSet
<1>4. ASSUME NEW s \in Shards PROVE NamedOK(s)' /\ SteadyOK(s)'
  <2>1. stage'[s] \in {"waiting", "gone"} /\ report'[s] = <<>>
    <3>1. CASE StartJob
      <4>1. stage[s] = "gone"
        BY <3>1 DEF Inv, PodOK, SeenOK, StartJob
      <4>2. report[s] = <<>>
        BY <4>1 DEF SettleInv, NamedOK
      <4>3. QED
        BY <3>1, <4>2 DEF StartJob
    <3>2. CASE JobEnds
      BY <3>2 DEF JobEnds
    <3>3. QED
      BY <3>1, <3>2
  <2>2. QED
    BY <1>3, <2>1 DEF NamedOK, SteadyOK, Active
<1>5. QED
  BY <1>2, <1>4 DEF SettleInv

\* After a change nothing counts as settled, and the job that is under way is not steady.
LEMMA AroundSettle ==
  ASSUME Inv, SettleInv, UNCHANGED podVars, settled' = {}, steady' = ~job
  PROVE  SettleInv'
<1>1. UNCHANGED <<stage, seen, plans, at, report>>
  BY DEF podVars
<1>2. SettledOK'
  BY DEF SettledOK
<1>3. ASSUME NEW s \in Shards PROVE NamedOK(s)' /\ SteadyOK(s)'
  <2>1. NamedOK(s)'
    BY <1>1 DEF SettleInv, NamedOK
  <2>2. ~job => ~Active(s)'
    BY <1>1 DEF Inv, PodOK, SeenOK, Active
  <2>3. QED
    BY <2>1, <2>2 DEF SteadyOK
<1>4. QED
  BY <1>2, <1>3 DEF SettleInv

LEMMA SettleInit == Init => SettleInv
<1> SUFFICES ASSUME Init PROVE SettleInv
  OBVIOUS
<1>1. SettledOK
  BY DEF Init, SettledOK
<1>2. ASSUME NEW s \in Shards PROVE NamedOK(s) /\ SteadyOK(s)
  <2>1. stage[s] = "gone" /\ report[s] = <<>> /\ ToSet(<<>>) = {}
    BY DEF Init, ToSet
  <2>2. QED
    BY <2>1 DEF NamedOK, SteadyOK, Active
<1>3. QED
  BY <1>1, <1>2 DEF SettleInv

LEMMA SettleNext == ASSUME ~EditsMidJob, Tidy, Decided PROVE Inv /\ RunInv /\ SettleInv /\ [Next]_vars => SettleInv'
<1> SUFFICES ASSUME Inv, RunInv, SettleInv, [Next]_vars PROVE SettleInv'
  OBVIOUS
<1>1. CASE StartJob \/ JobEnds
  BY <1>1, JobSettle
<1>2. CASE EditFiles \/ UpstreamMoves
  BY <1>2, AroundSettle DEF EditFiles, UpstreamMoves
<1>3. ASSUME NEW s \in Shards, PodStep(s) PROVE SettleInv'
  BY <1>3, StartPodSettle, PlanPolicySettle, ReadDestSettle, NoTargetSettle, WriteDestSettle, EndRunSettle DEF PodStep
<1>4. ASSUME NEW s \in Shards, Failure(s) PROVE SettleInv'
  <2>1. CASE PlanFails(s)
    BY <2>1, HaltSettle DEF PlanFails, worldVars
  <2>2. CASE PodLost(s)
    BY <2>2, HaltSettle DEF PodLost, worldVars
  <2>3. QED
    BY <1>4, <2>1, <2>2, ReadFailsSettle DEF Failure
<1>5. CASE UNCHANGED vars
  <2>1. UNCHANGED <<worldVars, job, stage, seen, plans, at, report, steady, settled>>
    BY <1>5 DEF vars, podVars
  <2>2. QED
    BY <2>1 DEF worldVars, SettleInv, SettledOK, Satisfied, NamedOK, SteadyOK, Active, MadeNow, Batch
<1>6. QED
  BY <1>1, <1>2, <1>3, <1>4, <1>5 DEF Next

\* What ran cleanly stays as planned in every state, when the pods of a job see the same
\* policies, and these are tidy and leave the planner no choice.
THEOREM SettleInvAlways == ASSUME ~EditsMidJob, Tidy, Decided PROVE Spec => []SettleInv
<1>1. Inv /\ RunInv /\ SettleInv /\ [Next]_vars => SettleInv'
  BY SettleNext
<1>2. QED
  BY <1>1, SettleInit, InvAlways, RunInvAlways, PTL DEF Spec

-----------------------------------------------------------------------------
(* The theorems.                                                           *)

\* What stops a whole run (a policy set that is refused, a policy that does not compile, a
\* source that cannot be read, aliases that collide) stops it with nothing written: every
\* check comes before the apply phase (use_cases/reconcile.py).
THEOREM FailFastAlways == Spec => []FailFast
<1>1. Inv => FailFast
  BY DEF Inv, PodOK, WroteOK, FailFast
<1>2. QED
  BY <1>1, InvAlways, PTL

\* No two pods that cloned the same commit ever apply to the same repository, whatever is
\* committed during the job, fails or moves: each checks the whole set for collisions before
\* it keeps its share, and a policy has one owner (domain/collision.py, domain/sharding.py).
\* Nothing ties pods that cloned different commits to each other.
THEOREM OneWriterAlways == Spec => []OneWriter
<1>1. ASSUME Inv PROVE OneWriter
  <2> SUFFICES ASSUME NEW s \in Shards, NEW t \in Shards, s # t, {stage[s], stage[t]} \subseteq {"read", "write"},
                      seen[s] = seen[t], NEW r, r \in Mine(s), r \in Mine(t)
               PROVE  FALSE
    BY Zenon DEF OneWriter
  <2> DEFINE f == seen[s]
  <2>1. ASSUME NEW u \in {s, t}
        PROVE  /\ Refused(u, f) = 0
               /\ r \in Mine(u) => \E p \in ToSet(Policies(f)) : Owns(u, p) /\ r \in DestRepos(p)
    <3>1. u \in Shards /\ PodOK(u) /\ TypeInv /\ stage[u] \in {"read", "write"} /\ seen[u] = f
      BY <1>1 DEF Inv
    <3>2. Refused(u, f) = 0 /\ f \in DOMAIN PolicySets
      BY <3>1 DEF PodOK, SeenOK, TypeInv
    <3>3. ASSUME r \in Mine(u) PROVE \E p \in ToSet(Policies(f)) : Owns(u, p) /\ r \in DestRepos(p)
      <4>1. PICK k \in DOMAIN plans[u] : \E x \in ToSet(plans[u][k].targets) : r = x.repo
        BY <3>3 DEF Mine
      <4>2. k \in DOMAIN Batch(u) /\ PlannedFor(plans[u][k], Batch(u)[k])
        BY <3>1 DEF PodOK, PlansOK
      <4>3. r \in DestRepos(Batch(u)[k]) /\ Batch(u)[k] \in ToSet(Batch(u))
        BY <4>1, <4>2 DEF PlannedFor, ToSet
      <4>4. ToSet(Batch(u)) = {p \in ToSet(Policies(f)) : Owns(u, p) /\ p.source.kind \in {"registry", "git"}}
        BY <3>1, <3>2, BatchFacts DEF Batch
      <4>5. QED
        BY <4>3, <4>4
    <3>4. QED
      BY <3>2, <3>3
  <2> HIDE DEF f
  <2>2. PICK p \in ToSet(Policies(f)) : Owns(s, p) /\ r \in DestRepos(p)
    BY <2>1
  <2>3. PICK q \in ToSet(Policies(f)) : Owns(t, q) /\ r \in DestRepos(q)
    BY <2>1
  <2>4. p.name # q.name
    BY <2>2, <2>3 DEF Owns
  <2>5. Collide(ToSet(Policies(f)))
    BY <2>2, <2>3, <2>4 DEF Collide
  <2>6. ~Collide(ToSet(Policies(f)))
    BY <2>1 DEF Refused
  <2>7. QED
    BY <2>5, <2>6
<1>2. QED
  BY <1>1, InvAlways, PTL

\* The report of a pod that comes to its end has every policy of its shard that has a
\* destination, and every image it placed, as an operation or under a policy that it reports
\* as failed, whatever failed on the way (use_cases/reconcile_registry.py, use_cases/report.py).
THEOREM ReportCompleteAlways == Spec => []ReportComplete
<1>1. ASSUME Inv PROVE ReportComplete
  <2> SUFFICES ASSUME NEW s \in Shards, stage[s] = "done"
               PROVE  /\ \A p \in ToSet(Batch(s)) : Destinations(p) # <<>> => \E r \in ToSet(report[s]) : r.name = p.name
                      /\ \A w \in wrote[s] : \E r \in ToSet(report[s]) :
                            /\ r.name = w[3]
                            /\ \/ r.status = "failed"
                               \/ \E o \in r.ops : o.repo = w[1] /\ o.out = w[2] /\ o.kind = "imported" /\ o.code = 0
    BY Zenon DEF ReportComplete
  <2>1. TypeInv /\ PodOK(s)
    BY <1>1 DEF Inv
  <2>2. /\ DOMAIN plans[s] = 1 .. Len(plans[s]) /\ Len(plans[s]) \in Nat /\ at[s][1] \in Nat
        /\ Len(plans[s]) = Len(Batch(s)) /\ at[s][1] > Len(plans[s])
    BY <2>1 DEF PodOK, PlansOK, ReportOK, IsSeq, TypeInv, Indices
  <2>3. IsSeq(Batch(s)) /\ DOMAIN Batch(s) = 1 .. Len(Batch(s))
    <3>1. seen[s] \in DOMAIN PolicySets
      BY <2>1 DEF TypeInv
    <3>2. IsSeq(Batch(s))
      BY <3>1, BatchFacts DEF Batch
    <3>3. QED
      BY <3>2 DEF IsSeq
  <2>4. ASSUME NEW p \in ToSet(Batch(s)), Destinations(p) # <<>> PROVE \E r \in ToSet(report[s]) : r.name = p.name
    <3>1. PICK k \in DOMAIN Batch(s) : p = Batch(s)[k]
      BY DEF ToSet
    <3>2. k \in DOMAIN plans[s] /\ k < at[s][1]
      BY <2>2, <2>3, <3>1
    <3>3. IsTold(s, k) /\ PlannedFor(plans[s][k], p)
      BY <2>1, <3>1, <3>2 DEF PodOK, PlansOK, ReportOK
    <3>4. plans[s][k].targets # <<>> /\ plans[s][k].name = p.name
      BY <2>4, <3>3 DEF PlannedFor
    <3>5. QED
      BY <3>3, <3>4 DEF IsTold
  <2>5. at[s][1] \notin DOMAIN plans[s]
    BY <2>2
  <2>6. \A w \in wrote[s] : \E r \in ToSet(report[s]) :
            r.name = w[3] /\ (r.status = "failed" \/ \E o \in r.ops : Places(o, w))
    BY <2>1, <2>5 DEF PodOK, ReportOK
  <2>7. QED
    BY <2>4, <2>6 DEF Places
<1>2. QED
  BY <1>1, InvAlways, PTL

\* When the pods of a job see the same policies, and these name every tag and repository once
\* (Tidy), exit code 0 means what an operator takes it to mean: the report says so, and every
\* destination of the shard is exactly as it was planned, whatever the other pods and the
\* sources did meanwhile (use_cases/report.py, cli/reconcile.py).
THEOREM ExitTruthfulAlways == ASSUME ~EditsMidJob, Tidy PROVE Spec => []ExitTruthful
<1>1. ASSUME Inv, RunInv PROVE ExitTruthful
  <2> SUFFICES ASSUME NEW s \in Shards, stage[s] = "done"
               PROVE  /\ exit[s] = 0 <=> RunStatus(report[s]) = "ok"
                      /\ exit[s] = 0 => \A t \in Targets(s) : Fits(t, dest[t.repo])
    BY Zenon DEF ExitTruthful
  <2>1. TypeInv /\ PodOK(s) /\ RunOK(s)
    BY <1>1 DEF Inv, RunInv
  <2>2. exit[s] = ExitOf(report[s]) /\ \A r \in ToSet(report[s]) : Frank(r)
    BY <2>1 DEF RunOK, ToldOK
  <2>3. /\ exit[s] = 0 <=> \A r \in ToSet(report[s]) : r.status = "ok"
        /\ RunStatus(report[s]) = "ok" <=> \A r \in ToSet(report[s]) : r.status = "ok"
    BY <2>2, ExitZero
  <2>4. ASSUME exit[s] = 0, NEW t \in Targets(s) PROVE Fits(t, dest[t.repo])
    <3>1. ops[s] = {}
      BY <2>1 DEF PodOK, OpsOK
    <3>2. \A k : Well(s, k)
      BY <2>3, <2>4, <3>1 DEF Well
    <3>3. PICK k \in DOMAIN plans[s] : t \in ToSet(plans[s][k].targets)
      BY DEF Targets
    <3>4. PICK j \in DOMAIN plans[s][k].targets : t = plans[s][k].targets[j]
      BY <3>3 DEF ToSet
    <3>5. Behind(s, k, j)
      <4>1. at[s][1] > Len(plans[s])
        BY <2>1 DEF PodOK, ReportOK
      <4>2. QED
        BY <1>1, <4>1, Numbered DEF Behind
    <3>6. QED
      BY <2>1, <3>2, <3>4, <3>5 DEF RunOK, KeptOK
  <2>5. QED
    BY <2>3, <2>4
<1>2. QED
  BY <1>1, InvAlways, RunInvAlways, PTL

\* Once a policy ran cleanly, no later run changes its destinations until a source or the
\* policies change, whatever fails on the way: a pod that writes to one finds there what it
\* has planned.  It holds when the pods of a job see the same policies, and these name every
\* tag and repository once and leave the planner no choice (use_cases/reconcile_registry.py,
\* use_cases/reconcile_git.py; a re-run is to converge: horizontal-sharding-design.md).
THEOREM NoOpAlways == ASSUME ~EditsMidJob, Tidy, Decided PROVE Spec => NoOp
<1> DEFINE Unwritten == \A s \in Shards : stage[s] = "write" /\ policy(s).name \in settled =>
                            dest'[target(s).repo] = dest[target(s).repo]
<1>1. ASSUME Inv, RunInv, SettleInv, [Next]_vars PROVE [Unwritten]_vars
  <2> SUFFICES ASSUME Next, NEW s \in Shards, stage[s] = "write", policy(s).name \in settled
               PROVE  dest'[target(s).repo] = dest[target(s).repo]
    BY <1>1
  <2>1. CASE StartJob \/ JobEnds \/ EditFiles \/ UpstreamMoves
    BY <2>1 DEF StartJob, JobEnds, EditFiles, UpstreamMoves, worldVars
  <2>2. ASSUME NEW u \in Shards, WriteDest(u) PROVE dest'[target(s).repo] = dest[target(s).repo]
    <3>1. CASE u = s
      BY <1>1, <2>2, <3>1, WriteNoOp
    <3>2. CASE u # s
      <4>1. Active(s) /\ stage[u] = "write"
        BY <2>2 DEF Active, WriteDest
      <4>2. \A v \in {s, u} : /\ at[v][1] \in DOMAIN plans[v] /\ at[v][2] \in DOMAIN plans[v][at[v][1]].targets
                              /\ target(v) = plans[v][at[v][1]].targets[at[v][2]]
        BY <1>1, <4>1, WritingFacts
      <4>3. target(u).repo # target(s).repo
        BY <1>1, <3>2, <4>1, <4>2, RepoOnce
      <4>4. PICK failing : dest' = [dest EXCEPT ![target(u).repo] = After(@, target(u), @, failing)]
        BY <1>1, <2>2, WriteFound
      <4>5. QED
        BY <4>3, <4>4
    <3>3. QED
      BY <3>1, <3>2
  <2>3. ASSUME NEW u \in Shards, PodStep(u) \/ Failure(u), ~WriteDest(u) PROVE dest' = dest
    BY <2>3 DEF PodStep, Failure, StartPod, PlanPolicy, ReadDest, NoTarget, EndRun, PlanFails, ReadFails, PodLost, worldVars
  <2>4. QED
    BY <2>1, <2>2, <2>3 DEF Next
<1>2. QED
  BY <1>1, InvAlways, RunInvAlways, SettleInvAlways, PTL DEF Spec, NoOp
=============================================================================
