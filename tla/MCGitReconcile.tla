--------------------------- MODULE MCGitReconcile ---------------------------
(* A small instance of GitReconcile: policy "a" feeds two repositories from   *)
(* the root of its upstream, policy "b" one from a sub-directory.             *)
EXTENDS GitReconcile

Names   == {".git", "config", "SKILL.md", "skill.md", "skills", "run", "w"}
Lowered == [n \in Names |-> IF n = "SKILL.md" THEN "skill.md" ELSE n]

File(path, size) == [path |-> path, size |-> size, link |-> FALSE, exec |-> FALSE]
Link(path)       == [path |-> path, size |-> 2, link |-> TRUE, exec |-> FALSE]
Script(path)     == [path |-> path, size |-> 1, link |-> FALSE, exec |-> TRUE]

Skill  == File(<<"SKILL.md">>, 1)
Nested == File(<<"w", "skills", "run">>, 1)

Trees == [plain   |-> {Skill, Script(<<"run">>)},
          wrapped |-> {Nested, File(<<"w", "run">>, 0), File(<<"w", ".git">>, 1)},
          linked  |-> {Skill, Link(<<"skills">>)},
          folded  |-> {File(<<"w", "SKILL.md">>, 1), File(<<"w", "skill.md">>, 1)}]

TwoRepos == <<"a1", "a2", "b1">>
Owner    == [r \in {"a1", "a2", "b1"} |-> IF r = "b1" THEN "b" ELSE "a"]
Paths    == [p \in {"a", "b"} |-> IF p = "b" THEN <<"w">> ELSE <<>>]
Upstream == [p \in {"a", "b"} |-> IF p = "b" THEN {"wrapped", "folded"} ELSE {"plain", "wrapped", "linked"}]
=============================================================================
