--------------------------- MODULE MCMirrorPurge ---------------------------
(* Small instances of MirrorPurge.  Tags 1 and 2 are concrete, tag 3 is an  *)
(* alias name.                                                             *)
EXTENDS MirrorPurge, TLC

OneSource  == [t \in Tag |-> "s"]
OneVariant == [t \in Tag |-> "plain"]
Plain      == "plain" :> 0
NoAlias    == [a \in {} |-> 0]

Marking(tags, alias, keep) ==
    1 :> [tags |-> tags, alias |-> alias, version |-> Plain, keep |-> keep, mark |-> TRUE]

\* No archive rule: no variant has as many tags.
NoArchive == 9

\* Tag 2 is dropped, and may be selected again.
All      == Marking({1, 2}, NoAlias, NoArchive)
Dropping == {All, Marking({1}, NoAlias, NoArchive)}

\* The archive rule keeps one tag.
KeepOne  == Marking({1, 2}, NoAlias, 1)
Archive  == {KeepOne}
=============================================================================
