------------------------- MODULE MCMirrorReconcile -------------------------
(* Small instances of MirrorReconcile.  Tags 1 and 2 are concrete, tag 3 is *)
(* an alias name.                                                           *)
EXTENDS MirrorReconcile, TLC

OneSource   == 1 :> "s" @@ 2 :> "s" @@ 3 :> "s"
TwoSources  == 1 :> "s1" @@ 2 :> "s2" @@ 3 :> "s1"
OneVariant  == 1 :> "plain" @@ 2 :> "plain" @@ 3 :> "plain"
TwoVariants == 1 :> "hard" @@ 2 :> "plain" @@ 3 :> "hard"

\* keep when no archive rule is set: no variant has as many tags.
NoArchive == 9

Import(tags, alias, versions, keep, mark) ==
    [tags |-> tags, alias |-> alias, version |-> versions, keep |-> keep, mark |-> mark]

NoAlias   == [a \in {} |-> 0]
Plain     == "plain" :> 0
Hard(n)   == "plain" :> 0 @@ "hard" :> n
Only(imp) == 1 :> imp

\* Two variants.  One policy drops a tag and puts it on notice, bumps the hardening of the
\* other and adds an alias; the other one selects both and purges what it does not want.
Both     == Only(Import({1, 2}, NoAlias, Hard(1), NoArchive, FALSE))
Dropped  == Only(Import({1}, 3 :> 1, Hard(2), NoArchive, TRUE))
Hardened == {Both, Dropped}

\* An archive rule that keeps one tag per variant; the alias protects its target.
ArchiveFirst == Only(Import({1, 2}, NoAlias, Plain, 1, TRUE))
Archive      == {ArchiveFirst, Only(Import({1, 2}, 3 :> 1, Plain, 1, TRUE)),
                 Only(Import({2}, NoAlias, Plain, 1, TRUE))}

\* Two imports of one policy into one repository.
Siblings ==
    1 :> Import({1}, NoAlias, Plain, NoArchive, FALSE)
        @@ 2 :> Import({2}, NoAlias, Plain, NoArchive, FALSE)
SiblingPolicies == {Siblings}
=============================================================================
