---------------------------- MODULE SkillArchive ----------------------------
(***************************************************************************)
(* What a fetched tree is packaged into: adapters/tree_walker.py describes *)
(* the files, domain/packaging.py refuses or plans the archive,            *)
(* adapters/zip_writer.py writes the plan.  A path is a sequence of names; *)
(* the walker reports paths relative to the root, which are canonical and  *)
(* cannot escape it, so of the path refusals the backslash one is left.    *)
(***************************************************************************)
EXTENDS Naturals, Sequences, SequencesExt, FiniteSets, FiniteSetsExt, Functions

CONSTANTS Name,         (* names of files and directories                     *)
          Lower,        (* str.lower() on names                               *)
          Git,          (* the name .git                                      *)
          MarkerDirs, MarkerFiles,  (* names the client recognises a skill by *)
          Backslashed,  (* names that hold a backslash                        *)
          MaxBytes      (* MAX_ARCHIVE_BYTES                                  *)

ASSUME ArchiveAssumption ==
    /\ Lower \in [Name -> Name] /\ {Git, "config"} \subseteq Name
    /\ MarkerDirs \cup MarkerFiles \cup Backslashed \subseteq Name
    /\ MaxBytes \in Nat

\* A file of a revision: git keeps no empty directory, and a link is a leaf.
IsTree(tree) ==
    /\ tree \subseteq [path : Seq(Name) \ {<<>>}, size : Nat, link : BOOLEAN, exec : BOOLEAN]
    /\ \A f, g \in tree : IsPrefix(f.path, g.path) => f = g

\* git init leaves its metadata in the working copy; the config holds the remote URL.
Metadata == [path |-> <<Git, "config">>, size |-> 1, link |-> FALSE, exec |-> FALSE]

\* fetch: the checked-out tree, or the declared sub-directory of it.
Checkout(tree) == tree \cup {Metadata}

Subdir(files, dir) ==
    {[f EXCEPT !.path = SubSeq(f.path, Len(dir) + 1, Len(f.path))] :
        f \in {g \in files : IsStrictPrefix(dir, g.path)}}

\* _describe: a link is reported as such, with size 0, whatever it points at.
Describe(f) == IF f.link THEN [f EXCEPT !.size = 0, !.exec = FALSE] ELSE f

\* Faulty: what os.walk lists as a directory is dropped when it is a link.
WalkDropsLinks(files) == {f \in files : Git \notin Range(f.path) /\ ~f.link}

\* walk_tree: no .git at any depth, neither the directory nor the gitfile.
Walk(files) == {Describe(f) : f \in {g \in files : Git \notin Range(g.path)}}

-----------------------------------------------------------------------------
(* plan_archive: the refusals.                                             *)

HasLink(files)      == \E f \in files : f.link
HasBackslash(files) == \E f \in files : Range(f.path) \cap Backslashed # {}

\* The member name, as the collision check compares it.
Member(path) == [i \in DOMAIN path |-> Lower[path[i]]]

Collides(files) == \E f, g \in files : f # g /\ Member(f.path) = Member(g.path)

TotalSize(files) == MapThenSumSet(LAMBDA f : f.size, files)

\* _root_marker
RootMarker(paths) ==
    \E p \in paths :
        IF Len(p) = 1 THEN p[1] \in MarkerFiles ELSE p[1] \in MarkerDirs

\* _has_marker: at the root, or inside the one directory everything is in.
HasMarker(paths) ==
    \/ RootMarker(paths)
    \/ /\ Cardinality({p[1] : p \in paths}) = 1
       /\ RootMarker({Tail(p) : p \in {q \in paths : Len(q) > 1}})

Accepts(files) ==
    /\ ~HasLink(files) /\ ~HasBackslash(files)
    /\ ~Collides(files)
    /\ TotalSize(files) <= MaxBytes
    /\ HasMarker({f.path : f \in files})

\* The members of the archive: path, stored mode and size.
Planned(files) ==
    {[path |-> f.path, mode |-> IF f.exec THEN "rwx" ELSE "rw", size |-> f.size] : f \in files}

\* _write_entries reads every member back, and refuses to write the archive when one is not
\* what was planned.
Writable(files, entries) ==
    \A e \in entries : \E f \in files : f.path = e.path /\ ~f.link /\ f.size = e.size
=============================================================================
