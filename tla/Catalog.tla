------------------------------ MODULE Catalog ------------------------------
(***************************************************************************)
(* What a catalog file asks for (internal/catalog/catalog.go), and how     *)
(* the app compares that with the properties a repository has and sets     *)
(* them (internal/checker/properties.go).                                  *)
(***************************************************************************)
CONSTANT Values     \* the strings in catalog files and in properties

DefaultOwner     == "Unclassified"
DefaultComponent == "Unclassified"

ASSUME ValuesAssumption == {"", DefaultOwner, DefaultComponent} \subseteq Values

\* A file's content as Parse sees it: "other" is no YAML, or not a Backstage
\* Component; GetFileContent returns "empty" for a missing file too.
Content ==
    [form : {"empty", "other", "component"},
     owner : Values, name : Values, project : Values, label : Values]

Nothing ==
    [form |-> "empty", owner |-> "", name |-> "", project |-> "", label |-> ""]

\* The custom properties; one that is not set reads as "".
Properties ==
    [Owner : Values, Component : Values, JiraProject : Values,
     JiraLabel : Values]

Defaults ==
    [Owner |-> DefaultOwner, Component |-> DefaultComponent,
     JiraProject |-> "", JiraLabel |-> ""]

Or(value, default) == IF value = "" THEN default ELSE value

Parse(c) ==
    IF c.form = "component"
      THEN [Owner |-> Or(c.owner, DefaultOwner),
            Component |-> Or(c.name, DefaultComponent),
            JiraProject |-> c.project, JiraLabel |-> c.label]
      ELSE Defaults

\* The Jira properties are compared even if none is asked for.
BugDiffers(desired, current) == desired # current

\* A property that is not set is not compared.
BugSkipsUnset(desired, current) ==
    \/ current.Owner \notin {"", desired.Owner}
    \/ current.Component \notin {"", desired.Component}
    \/ desired.JiraProject # "" /\ current.JiraProject \notin {"", desired.JiraProject}
    \/ desired.JiraLabel # "" /\ current.JiraLabel \notin {"", desired.JiraLabel}

\* diffProperties: a Jira property nobody asks for may have any value.
Differs(desired, current) ==
    \/ desired.Owner # current.Owner
    \/ desired.Component # current.Component
    \/ desired.JiraProject \notin {"", current.JiraProject}
    \/ desired.JiraLabel \notin {"", current.JiraLabel}

\* The request names a Jira property nobody asks for, with no value.
BugWith(current, desired) == desired

\* The properties after a request made of desiredToPropertyValues.
With(current, desired) ==
    [Owner |-> desired.Owner, Component |-> desired.Component,
     JiraProject |-> Or(desired.JiraProject, current.JiraProject),
     JiraLabel |-> Or(desired.JiraLabel, current.JiraLabel)]
=============================================================================
