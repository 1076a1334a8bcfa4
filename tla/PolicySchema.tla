----------------------------- MODULE PolicySchema -----------------------------
(***************************************************************************)
(* A MirrorPolicy as its author wrote it, and what is made of it before    *)
(* anything is planned: the validators of domain/mirror_policy.py, the     *)
(* inheritance of domain/policy_merge.py, the roster look-ups of config.py *)
(* and the cascade of domain/deletion_mode.py.                             *)
(*                                                                         *)
(* A policy is a record [name, artifact, source, mode, defaults, imports]; *)
(* defaults and an import are records of tags, destinations, transform,    *)
(* archive and platforms, an import has variants too, and what its author  *)
(* left out is Unset.  Only tags and archive are merged field by field, so *)
(* they are functions on the fields that were written.  A registry host,   *)
(* a project and a repository are strings that the code joins with `/' and *)
(* compares; here each is the sequence of its segments: `ghcr.io/acme' is  *)
(* <<"ghcr.io", "acme">>, and what has no `/' in it, the empty string      *)
(* included, is one segment, so that sequences are equal where strings are.*)
(***************************************************************************)
EXTENDS Integers, Sequences, SequencesExt

CONSTANTS Unset,       (* not written                                                  *)
          Roster,      (* roster name -> [host, mode]                                  *)
          GlobalMode,  (* KNOCK_DELETION_MODE                                          *)
          Resources    (* the certificates and mirrors that are configured             *)

Modes == {"purge", "mark"}

ASSUME SchemaAssumption ==
    /\ \A e \in DOMAIN Roster : Roster[e].host # <<>> /\ Roster[e].mode \in Modes \cup {Unset}
    /\ GlobalMode \in Modes

\* What the loader makes of a file: lists of imports and, where they are written, destinations.
IsPolicy(p) ==
    /\ p.mode \in Modes \cup {Unset}
    /\ p.imports \in Seq(ToSet(p.imports))
    /\ \A x \in ToSet(p.imports) \cup ({p.defaults} \ {Unset}) :
          \/ x.destinations = Unset
          \/ /\ x.destinations \in Seq(ToSet(x.destinations))
             /\ \A d \in ToSet(x.destinations) : d.project # <<>> /\ d.repository # <<>>

-----------------------------------------------------------------------------
(* Validation, at load time.                                               *)

Written(x) == x # Unset /\ x # <<>>

Parts(p) == (IF p.defaults = Unset THEN {} ELSE {p.defaults}) \cup ToSet(p.imports)

SourceMatches(p) ==
    /\ p.artifact \in {"image", "helmChart"} => p.source.kind = "registry"
    /\ p.artifact = "skill" => p.source.kind = "git"

NoTransform(p) == p.artifact \in {"generic", "skill"} => \A x \in Parts(p) : ~Written(x.transform)

NoRetention(p) == p.artifact = "skill" => p.mode = Unset /\ \A x \in Parts(p) : x.archive = Unset

\* parse_mirror_policy
Valid(p) == p.imports # <<>> /\ SourceMatches(p) /\ NoTransform(p) /\ NoRetention(p)

-----------------------------------------------------------------------------
(* resolve_imports.                                                        *)

Inherited(p, imp, f) ==
    IF imp[f] # Unset \/ p.defaults = Unset THEN imp[f] ELSE p.defaults[f]

\* A field that the import wrote wins, the others are the defaults'.
Merged(p, imp, f) ==
    IF p.defaults = Unset \/ imp[f] = Unset \/ p.defaults[f] = Unset THEN Inherited(p, imp, f)
    ELSE imp[f] @@ p.defaults[f]

ListOf(x) == IF x = Unset THEN <<>> ELSE x

ResolveImport(p, imp) ==
    [tags         |-> Merged(p, imp, "tags"),
     archive      |-> Merged(p, imp, "archive"),
     destinations |-> ListOf(Inherited(p, imp, "destinations")),
     transform    |-> ListOf(Inherited(p, imp, "transform")),
     platforms    |-> ListOf(Inherited(p, imp, "platforms")),
     variants     |-> imp.variants]

MultiPlatformRebuild(imp) == imp.transform # <<>> /\ Len(imp.platforms) > 1

ResolveImports(p) == [i \in DOMAIN p.imports |-> ResolveImport(p, p.imports[i])]

\* expand_variants: without variants there is one, and a variant may have its own transform.
ExpandVariants(imp) ==
    IF imp.variants = Unset THEN <<[suffix |-> <<>>, transform |-> imp.transform]>>
    ELSE [i \in DOMAIN imp.variants |->
             [suffix    |-> imp.variants[i].suffix,
              transform |-> IF imp.variants[i].transform = Unset THEN imp.transform
                            ELSE imp.variants[i].transform]]

\* validate_transform_steps, _resolve_transform: every step names something configured.
Compiles(imp) == \A v \in ToSet(ExpandVariants(imp)) : ToSet(v.transform) \subseteq Resources

-----------------------------------------------------------------------------
(* The roster.                                                             *)

\* resolve_registry: by name; without one, the only entry there is.  Unset: a ConfigError.
ResolveRegistry(name) ==
    LET found == {e \in DOMAIN Roster : name = e \/ (name = Unset /\ DOMAIN Roster = {e})}
    IN  IF found = {} THEN Unset ELSE CHOOSE e \in found : TRUE

DestRepo(d) == Roster[ResolveRegistry(d.registry)].host \o d.project \o d.repository

\* resolve_deletion_mode: the policy's, else the destination registry's, else the global one.
DeletionMode(p, d) ==
    LET own == Roster[ResolveRegistry(d.registry)].mode
    IN  IF p.mode # Unset THEN p.mode ELSE IF own # Unset THEN own ELSE GlobalMode

\* The destinations of a policy, import by import.
Destinations(p) == FlattenSeq([i \in DOMAIN p.imports |-> ResolveImports(p)[i].destinations])

\* _resolved_dest_repos
DestRepos(p) == {DestRepo(d) : d \in ToSet(Destinations(p))}
=============================================================================
