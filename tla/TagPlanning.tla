----------------------------- MODULE TagPlanning -----------------------------
(***************************************************************************)
(* From an import and the tags of its source to what is wanted in each     *)
(* destination: domain/selection.py, semver.py, aliases.py and expand.py.  *)
(*                                                                         *)
(* A tag is a record [num, rest]: the numbers of a version, empty when the *)
(* tag is not one, and what follows them (a pre-release, or all of the     *)
(* tag), as a sequence whose order is that of the text.  Appending a       *)
(* suffix to a tag appends to its rest.  A leading v is left out.  A regular expression is the       *)
(* function that takes the tags it matches to what its named group         *)
(* captures.  An alias template is the record [nums, rest, group] of the   *)
(* version parts it names, its fixed text and whether it ends in the       *)
(* group: `latest' has neither parts nor group.                            *)
(***************************************************************************)
EXTENDS PolicySchema

\* TagSelection's defaults
Selecting(sel, f) ==
    IF f \in DOMAIN sel THEN sel[f]
    ELSE CASE f = "include" -> Unset
           [] f = "exclude" -> {}
           [] f = "semverOnly" -> TRUE
           [] f = "names" -> {}
           [] f = "aliases" -> <<>>

IsSemver(t) == t.num # <<>>

\* select_tags: explicit names bypass every filter, if the source has them.
SelectTags(sel, source) ==
    LET include == Selecting(sel, "include")
    IN  {t \in source :
            \/ t \in Selecting(sel, "names")
            \/ /\ include # Unset => t \in DOMAIN include
               /\ t \notin Selecting(sel, "exclude")
               /\ Selecting(sel, "semverOnly") => IsSemver(t)}

-----------------------------------------------------------------------------
(* Versions.                                                               *)

\* parse_semver: a missing minor or patch is 0.
VersionPart(t, i) == IF i <= Len(t.num) THEN t.num[i] ELSE 0

\* _key: a pre-release is below its release.
Key(t) == [i \in 1 .. 3 |-> VersionPart(t, i)] \o <<IF t.rest = <<>> THEN 1 ELSE 0>> \o t.rest

Below(k, l) ==
    \/ Len(k) < Len(l) /\ IsPrefix(k, l)
    \/ \E i \in DOMAIN k \cap DOMAIN l : k[i] < l[i] /\ SubSeq(k, 1, i - 1) = SubSeq(l, 1, i - 1)

\* _highest.  Two spellings of one version (1.2 and 1.2.0) have the same key; the sort is
\* stable and select_tags hands it the order of a Python set, so either may come first.
Highest(tags) ==
    LET versions == {t \in tags : IsSemver(t)}
    IN  IF versions # {} THEN {t \in versions : \A u \in versions : ~Below(Key(t), Key(u))}
        ELSE {t \in tags : \A u \in tags : ~Below(t.rest, u.rest)}

-----------------------------------------------------------------------------
(* Aliases.                                                                *)

Captures(sel, t) ==
    LET include == Selecting(sel, "include")
    IN  IF include # Unset /\ t \in DOMAIN include THEN include[t] ELSE Unset

Fillable(sel, template, t) ==
    /\ template.nums # <<>> => IsSemver(t)
    /\ template.group => Captures(sel, t) # Unset

\* render_template
Rendered(sel, template, t) ==
    [num  |-> [i \in DOMAIN template.nums |-> VersionPart(t, template.nums[i])],
     rest |-> template.rest \o (IF template.group THEN Captures(sel, t) ELSE <<>>)]

Group(sel, template, tags, a) ==
    {t \in tags : Fillable(sel, template, t) /\ Rendered(sel, template, t) = a}

AliasNames(sel, tags) ==
    UNION {{Rendered(sel, x, t) : t \in {u \in tags : Fillable(sel, x, u)}} :
               x \in ToSet(Selecting(sel, "aliases"))}

\* A later template overwrites the group of an earlier one.
Members(sel, tags, a) ==
    LET templates == Selecting(sel, "aliases")
        last == CHOOSE i \in DOMAIN templates :
                   /\ Group(sel, templates[i], tags, a) # {}
                   /\ \A j \in DOMAIN templates : j > i => Group(sel, templates[j], tags, a) = {}
    IN  Group(sel, templates[last], tags, a)

\* resolve_aliases: the outcomes a process can have.
ResolveAliases(sel, tags) ==
    {f \in [AliasNames(sel, tags) -> tags] : \A a \in DOMAIN f : f[a] \in Highest(Members(sel, tags, a))}

-----------------------------------------------------------------------------
(* Plans.                                                                  *)

Suffixed(t, suffix) == [t EXCEPT !.rest = @ \o suffix]

\* Out tags with what is wanted in them: the source tag and its transform.
Images(imp, tags) ==
    UNION {{[out |-> Suffixed(t, v.suffix), src |-> t, transform |-> v.transform] : t \in tags} :
               v \in ToSet(ExpandVariants(imp))}

\* Alias names with what they point at; each variant has its own.
Pointers(imp, aliases) ==
    LET variants == ExpandVariants(imp)
    IN  UNION {{[alias |-> Suffixed(a, variants[v].suffix), target |-> Suffixed(aliases[a], variants[v].suffix),
                 variant |-> v] : a \in DOMAIN aliases} : v \in DOMAIN variants}

\* expand_import, for one destination
Planned(p, imp, d, tags, aliases) ==
    [repo |-> DestRepo(d), mode |-> DeletionMode(p, d),
     images |-> Images(imp, tags), aliases |-> Pointers(imp, aliases)]

\* The plans of a policy: one per import and destination, in their order.
PlansOf(p, source) ==
    LET imports == ResolveImports(p)
        tags(i)  == SelectTags(imports[i].tags, source)
        choices == [i \in DOMAIN imports |-> ResolveAliases(imports[i].tags, tags(i))]
    IN  {FlattenSeq([i \in DOMAIN imports |->
             [j \in DOMAIN imports[i].destinations |->
                 Planned(p, imports[i], imports[i].destinations[j], tags(i), c[i])]]) :
                     c \in {f \in [DOMAIN imports -> UNION Range(choices)] :
                               \A i \in DOMAIN imports : f[i] \in choices[i]}}
=============================================================================
