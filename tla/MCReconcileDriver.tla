-------------------------- MODULE MCReconcileDriver --------------------------
(* Small instances of ReconcileDriver: two shards, an image policy with two   *)
(* variants, a skill and a chart, and the policy sets an edit can install.    *)
EXTENDS ReconcileDriver

Version(num) == [num |-> num, rest |-> <<>>]
Word(rest)   == [num |-> <<>>, rest |-> rest]

v10 == Version(<<1, 0>>)
v11 == Version(<<1, 1>>)
rc  == [num |-> <<2, 0>>, rest |-> <<1>>]
edge == Word(<<2>>)
rev1 == Word(<<9, 1>>)
rev2 == Word(<<9, 2>>)

Latest == [nums |-> <<>>, rest |-> <<3>>, group |-> FALSE]
Major  == [nums |-> <<1>>, rest |-> <<>>, group |-> FALSE]
Grouped == [nums |-> <<>>, rest |-> <<5>>, group |-> TRUE]

Registries == [main |-> [host |-> <<"reg">>, mode |-> Unset],
               team |-> [host |-> <<"reg", "acme">>, mode |-> "mark"]]

To(name, project, repository) == [registry |-> name, project |-> project, repository |-> repository]
Image(repo) == [kind |-> "registry", repo |-> repo]
Git(repo)   == [kind |-> "git", repo |-> repo, ref |-> Word(<<4>>)]

Blank == [tags |-> Unset, destinations |-> Unset, transform |-> Unset, archive |-> Unset,
          platforms |-> Unset, variants |-> Unset]

App == [name |-> "app", artifact |-> "image", source |-> Image("up"), mode |-> Unset,
        defaults |-> [Blank EXCEPT !.tags = [aliases |-> <<Major, Latest>>, exclude |-> {rc}],
                                   !.destinations = <<To("main", <<"acme", "dr">>, <<"app">>)>>],
        imports |-> <<[Blank EXCEPT !.tags = [names |-> {edge}],
                                    !.variants = <<[suffix |-> <<>>, transform |-> Unset],
                                                   [suffix |-> <<7>>, transform |-> <<"ca">>]>>]>>]

Chart == [name |-> "chart", artifact |-> "helmChart", source |-> Image("up"), mode |-> "purge",
          defaults |-> Unset,
          imports |-> <<[Blank EXCEPT !.tags = [include |-> (v10 :> <<6>>) @@ (v11 :> <<6>>), aliases |-> <<Grouped>>],
                                      !.destinations = <<To("main", <<"acme">>, <<"chart">>), To("team", <<"dr">>, <<"chart">>)>>]>>]

Skill == [name |-> "skill", artifact |-> "skill", source |-> Git("git"), mode |-> Unset, defaults |-> Unset,
          imports |-> <<[Blank EXCEPT !.tags = [aliases |-> <<>>], !.destinations = <<To("main", <<"acme">>, <<"skill">>)>>]>>]

\* The skill claims the application's repository reg/acme/dr/app, through the registry entry
\* whose host is reg/acme.
Claiming == [Skill EXCEPT !.imports[1].destinations = <<To("team", <<"dr">>, <<"app">>)>>]
\* One alias name in two variants with the same suffix.
Twice    == [App EXCEPT !.imports[1].variants[2].suffix = <<>>]
Retained == [Skill EXCEPT !.imports[1].archive = [keep |-> 1]]
Nowhere  == [Chart EXCEPT !.imports[1].destinations = <<To("none", <<"acme">>, <<"chart">>)>>]
Unknown  == [Chart EXCEPT !.imports[1].transform = <<"no-such-ca">>]
Wide     == [App EXCEPT !.imports[1].platforms = <<"amd64", "arm64">>, !.imports[1].transform = <<"ca">>]
Bare(p)  == [p EXCEPT !.imports[1].destinations = Unset]
Plain    == [App EXCEPT !.imports[1].variants = Unset]
\* No planner asks what the transform of a skill's variant names.
Varied   == [Skill EXCEPT !.imports[1].variants = <<[suffix |-> <<>>, transform |-> <<"no-such-ca">>]>>]

Sets == [ok |-> <<App, Chart, Skill>>, plain |-> <<Plain, Chart, Varied>>,
         clash |-> <<App, Chart, Claiming>>, twice |-> <<Twice, Chart, Skill>>,
         retained |-> <<App, Chart, Retained>>, nowhere |-> <<App, Nowhere, Skill>>,
         unknown |-> <<App, Unknown, Skill>>,
         wide |-> <<Wide, Chart, Skill>>,
         bare |-> <<App, Bare(Chart), Bare(Skill)>>]

Upstreams == [up |-> {{v10, rc, edge}, {v10, v11, edge}}, git |-> {{rev1}, {rev2}}]
Upstream0 == [up |-> {v10, rc, edge}, git |-> {rev1}]

Assigned == [n \in {"app", "chart", "skill"} |-> IF n = "skill" THEN 1 ELSE 0]
Policies3 == {"app", "chart", "skill"}

\* The hypotheses of the theorems hold of this instance.
ASSUME InstanceAssumption == Tidy /\ Decided
=============================================================================
