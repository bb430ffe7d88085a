-------------------------- MODULE ConsistencyCheck --------------------------
(***************************************************************************)
(* scripts/check-consistency.py, run on a repository and again after every *)
(* edit of it: the wiring between the fixtures on disk, the manifests that *)
(* list them, the error codes, the examples, the schemas and the links.    *)
(*                                                                         *)
(* A short id is [fam, n], its family the sequence of its segments, so     *)
(* that data-ref-ssrf-001 is [fam |-> <<"data", "ref", "ssrf">>, n |-> 1]. *)
(* A text is [ids, ranges, wild]: the ids it spells out, the ranges        *)
(* [fam, first, last] and the families of its wildcards.  A repository has *)
(*   files       what schemas/conformance holds, in the order of the names *)
(*   families    fixture_families of profiles.json                         *)
(*   profiles    per profile the ids it lists, for its users (listed), for *)
(*               its own tests (self_test) and in prose                    *)
(*   md          per profile its section of profiles.md                    *)
(*   mdRest      the rest of profiles.md                                   *)
(*   readme, core   the README of the fixtures, the block of RFC-ACDP-0001 *)
(*   rfc, registry, schema   the three places that define the error codes  *)
(*   examples, routes   the directories of examples and those that         *)
(*               validate-json.sh names, each the segments of its name     *)
(*   schemas     the $id of each schema, "" for none, "unreadable"         *)
(*   links       [target, anchor]: the links that are not external         *)
(*   headings    per page the slugs of its headings, in order              *)
(*   disproven   whether the disproven digest is found anywhere            *)
(***************************************************************************)
EXTENDS Naturals, Sequences, FiniteSets, SequencesExt

CONSTANTS
  Repositories,     \* the repositories the gate may first meet
  Edits(_),         \* what a change may make of one
  MaxEdits,         \* bound: changes after the first pass
  OptionalOnly,     \* family |-> the profiles that may name it
  Consumer,         \* "acdp-consumer"
  NoId              \* neither an id nor the start of one

\* What a repository is made of; its files come one after the other.
Parts == {"files", "families", "profiles", "md", "mdRest", "readme", "core", "rfc",
          "registry", "schema", "examples", "routes", "schemas", "links",
          "headings", "disproven"}

IsRepository(r) ==
  DOMAIN r = Parts /\ r.files \in Seq({r.files[j] : j \in DOMAIN r.files})

ASSUME EditsAssumption == MaxEdits \in Nat
ASSUME RepositoriesAssumption == \A r \in Repositories : IsRepository(r)

VARIABLES
  repo,             \* the repository being checked
  before,           \* the one that passed before the last change
  edits,            \* changes so far
  due,              \* the check that is next
  loaded,           \* files loaded so far
  fixtures,         \* short id |-> file
  errors,           \* the checks that reported something
  gate              \* "none", then "pass", "fail" or "raised"

checkVars == <<repo, before, edits, due, loaded, fixtures, errors, gate>>

\* A check that finds things to report is among the errors.
Faults(check, things) == IF things = {} THEN {} ELSE {check}

\* Short ids and ranges of a text.
Covered(text) ==
  text.ids \cup UNION {[fam : {r.fam}, n : r.first..r.last] : r \in text.ranges}

CoveredMd ==
  Covered(repo.mdRest) \cup UNION {Covered(repo.md[p]) : p \in DOMAIN repo.md}

FamiliesOf(ids) == {i.fam : i \in ids}
FixtureIds == DOMAIN fixtures

Listed(p) == repo.profiles[p].listed
\* The manifest lists of a profile, never its prose.
ProfileFixtures(p) == (Listed(p) \cup repo.profiles[p].self_test) \ {NoId}
Referenced ==
  UNION {Listed(p) \cup repo.profiles[p].self_test \cup repo.profiles[p].prose :
           p \in DOMAIN repo.profiles}

Start ==
  /\ due = "families map"
  /\ loaded = 0
  /\ fixtures = [i \in {} |-> i]
  /\ errors = {}
  /\ gate = "none"

CheckInit ==
  /\ repo \in Repositories
  /\ before = repo
  /\ edits = 0
  /\ Start

\* One check of main: it adds its errors and the next one follows.
Check(here, faults, next) ==
  /\ due = here
  /\ errors' = errors \cup faults
  /\ due' = next
  /\ UNCHANGED <<repo, before, edits, loaded, fixtures, gate>>

CheckFamiliesMap ==
  Check("families map",
        IF repo.families = {} THEN Faults("profiles-json", {"fixture_families"}) ELSE {},
        "load")

Keep(file) ==
  fixtures' = [i \in FixtureIds \cup {file.id} |->
                 IF i = file.id THEN file ELSE fixtures[i]]

\* One file of load_fixtures.  A file whose id another already has is an
\* error, and replaces it.
LoadFixture ==
  /\ due = "load"
  /\ loaded < Len(repo.files)
  /\ LET file == repo.files[loaded + 1]
     IN  IF file.json /\ file.id # NoId
           THEN /\ Keep(file)
                /\ errors' = errors \cup
                     IF file.stem # file.id \/ file.id \in FixtureIds
                       THEN Faults("fixture-id", {loaded + 1}) ELSE {}
           ELSE /\ errors' = errors \cup
                     Faults(IF file.json THEN "fixture-id" ELSE "fixture-json", {loaded + 1})
                /\ UNCHANGED fixtures
  /\ loaded' = loaded + 1
  /\ UNCHANGED <<repo, before, edits, due, gate>>

EndLoad ==
  /\ loaded = Len(repo.files)
  /\ Check("load",
           IF FixtureIds = {} THEN Faults("fixtures", {"none"}) ELSE {},
           "families")

CheckFamilies ==
  Check("families",
        Faults("fixture-family",
               {i \in FixtureIds : ~\E fam \in repo.families : IsPrefix(fam, i.fam)}),
        "profiles json")

\* A listed id is that of a fixture or starts the name of its file; a fixture
\* need only be named somewhere, be it in prose.
CheckProfilesJson ==
  LET stems == {fixtures[i].stem : i \in FixtureIds}
      listed == UNION {Listed(p) : p \in DOMAIN repo.profiles}
  IN  Check("profiles json",
            Faults("profiles-json",
                   (listed \ (FixtureIds \cup stems)) \cup (FixtureIds \ Referenced)),
            "profiles md")

\* Mutant of CheckProfilesMd: what the page mentions is not looked up.
CheckProfilesMdOneWay ==
  Check("profiles md", Faults("profiles-md", FixtureIds \ CoveredMd), "readme")

\* Only the ids of families that some fixture has are looked up.
CheckProfilesMd ==
  Check("profiles md",
        Faults("profiles-md",
               (FixtureIds \ CoveredMd) \cup
               {i \in CoveredMd \ FixtureIds : i.fam \in FamiliesOf(FixtureIds)}),
        "readme")

CheckConformanceReadme ==
  Check("readme",
        Faults("conformance-readme", FixtureIds \ Covered(repo.readme)),
        "error codes")

\* The codes of all the tables of the registry.
Registered == repo.registry.codes \cup repo.registry.other

CheckErrorCodes ==
  Check("error codes",
        Faults("error-codes",
               IF Registered = {} THEN {"none"}
               ELSE (UNION {fixtures[i].codes : i \in FixtureIds}) \ Registered),
        "error code sync")

Differ(a, b) == (a \ b) \cup (b \ a)

\* Mutant of SyncFaults: the enumeration is not compared.
SyncFaultsTwo ==
  IF ~(repo.rfc.section /\ repo.registry.section /\ repo.schema.enum) THEN {"unreadable"}
  ELSE Differ(repo.rfc.codes, repo.registry.codes)

SyncFaults ==
  IF ~(repo.rfc.section /\ repo.registry.section /\ repo.schema.enum) THEN {"unreadable"}
  ELSE IF {} \in {repo.rfc.codes, repo.registry.codes, repo.schema.codes} THEN {"empty"}
  ELSE Differ(repo.rfc.codes, repo.registry.codes)
         \cup Differ(repo.registry.codes, repo.schema.codes)

\* The schema is parsed once both sections have been found.
SchemaRaises == repo.rfc.section /\ repo.registry.section /\ ~repo.schema.json

CheckErrorCodeRegistrySync ==
  /\ ~SchemaRaises
  /\ Check("error code sync", Faults("error-code-sync", SyncFaults), "examples")

\* A schema that is not JSON ends the program, with what was found so far
\* unprinted and the checks that are left undone.
RaiseOnSchema ==
  /\ due = "error code sync"
  /\ SchemaRaises
  /\ due' = "exited"
  /\ gate' = "raised"
  /\ UNCHANGED <<repo, before, edits, loaded, fixtures, errors>>

\* A directory is found in the script wherever its name starts another.
CheckExamplesRouted ==
  Check("examples",
        Faults("examples-routing",
               {d \in repo.examples : ~\E r \in repo.routes : IsPrefix(d, r)}),
        "schemas")

\* An $id that is missing, unreadable or that of an earlier schema.
CheckSchemaIds ==
  Check("schemas",
        Faults("schema-id",
               {j \in DOMAIN repo.schemas :
                  \/ repo.schemas[j] \in {"", "unreadable"}
                  \/ \E i \in 1..(j - 1) : repo.schemas[i] = repo.schemas[j]}),
        "links")

\* The anchors of a page: a heading that repeats an earlier one is numbered.
Anchors(page) ==
  LET slugs == repo.headings[page]
      earlier(j) == {i \in 1..(j - 1) : slugs[i] = slugs[j]}
  IN  {<<slugs[j], Cardinality(earlier(j))>> : j \in DOMAIN slugs}

CheckMarkdownLinks ==
  Check("links",
        Faults("md-link", {l \in repo.links : l.target \in {"outside", "missing"}})
        \cup Faults("md-anchor",
                    {l \in repo.links :
                       /\ l.target \in DOMAIN repo.headings
                       /\ l.anchor # << >>
                       /\ l.anchor \notin Anchors(l.target)}),
        "placement")

\* Mutant of PlacedIn: a wildcard stands for every id of its family.
PlacedByFamily(p) ==
  Covered(repo.md[p]) \cup {i \in ProfileFixtures(p) : i.fam \in repo.md[p].wild}

\* What the section of a profile covers; a wildcard stands for the fixtures
\* there are.
PlacedIn(p) ==
  Covered(repo.md[p]) \cup {i \in FixtureIds : i.fam \in repo.md[p].wild}

CheckProfilePlacement ==
  Check("placement",
        Faults("profile-placement",
               {p \in DOMAIN repo.profiles :
                  \/ p \notin DOMAIN repo.md
                  \/ ~(ProfileFixtures(p) \subseteq PlacedIn(p))}),
        "digest")

CheckNoDisprovenDigest ==
  Check("digest",
        IF repo.disproven THEN Faults("disproven-digest", {"found"}) ELSE {},
        "optional")

Barred(p, ids) ==
  {i \in ids : i.fam \in DOMAIN OptionalOnly /\ p \notin OptionalOnly[i.fam]}

\* Mutant of CheckOptionalFamilies: the lists for a profile's own tests are
\* passed over, and so is the section of the consumer.
CheckOptionalListed ==
  Check("optional",
        Faults("optional-family",
               (UNION {Barred(p, Listed(p) \ {NoId}) : p \in DOMAIN repo.profiles})
                 \cup IF repo.core.block
                        THEN Barred(Consumer, Covered(repo.core.text))
                        ELSE {NoId}),
        "exit")

\* The lists of every profile, and the two pages about the consumer.
CheckOptionalFamilies ==
  LET section == IF Consumer \in DOMAIN repo.md THEN Covered(repo.md[Consumer]) ELSE {}
  IN  Check("optional",
            Faults("optional-family",
                   (UNION {Barred(p, ProfileFixtures(p)) : p \in DOMAIN repo.profiles})
                     \cup Barred(Consumer, section)
                     \cup IF repo.core.block
                            THEN Barred(Consumer, Covered(repo.core.text))
                            ELSE {NoId}),
            "exit")

ExitCheck ==
  /\ due = "exit"
  /\ due' = "exited"
  /\ gate' = IF errors = {} THEN "pass" ELSE "fail"
  /\ UNCHANGED <<repo, before, edits, loaded, fixtures, errors>>

\* A change is made to a repository that passes, and the gate runs again.
Change ==
  /\ due = "exited"
  /\ gate = "pass"
  /\ edits < MaxEdits
  /\ edits' = edits + 1
  /\ before' = repo
  /\ repo' \in Edits(repo) /\ IsRepository(repo')
  /\ due' = "families map"
  /\ loaded' = 0
  /\ fixtures' = [i \in {} |-> i]
  /\ errors' = {}
  /\ gate' = "none"

CheckNext ==
  \/ CheckFamiliesMap \/ LoadFixture \/ EndLoad \/ CheckFamilies
  \/ CheckProfilesJson \/ CheckProfilesMd \/ CheckConformanceReadme
  \/ CheckErrorCodes \/ CheckErrorCodeRegistrySync \/ RaiseOnSchema
  \/ CheckExamplesRouted \/ CheckSchemaIds \/ CheckMarkdownLinks
  \/ CheckProfilePlacement \/ CheckNoDisprovenDigest \/ CheckOptionalFamilies
  \/ ExitCheck \/ Change

CheckSpec == CheckInit /\ [][CheckNext]_checkVars
----------------------------------------------------------------------------
Pcs == {"families map", "load", "families", "profiles json", "profiles md",
        "readme", "error codes", "error code sync", "examples", "schemas",
        "links", "placement", "digest", "optional", "exit", "exited"}

Kinds == {"profiles-json", "fixture-id", "fixture-json", "fixtures", "fixture-family",
          "profiles-md", "conformance-readme", "error-codes", "error-code-sync",
          "examples-routing", "schema-id", "md-link", "md-anchor",
          "profile-placement", "disproven-digest", "optional-family"}

\* Every fixture was loaded under its own id from a file of the repository.
CheckTypeOK ==
  /\ edits \in 0..MaxEdits
  /\ due \in Pcs
  /\ loaded \in 0..Len(repo.files)
  /\ \A i \in FixtureIds : /\ fixtures[i].id = i
                            /\ \E j \in 1..loaded : repo.files[j] = fixtures[i]
  /\ errors \subseteq Kinds
  /\ gate \in {"none", "pass", "fail", "raised"}
  /\ gate = "none" <=> due # "exited"

Passed == gate = "pass"

\* The ids of the files that can be read.
IdsOf(r) == {r.files[j].id : j \in {m \in DOMAIN r.files : r.files[m].json}}
OnDisk == IdsOf(repo)

\* What a profile lists for its own tests only is looked up by no check, but
\* must be in its section, and the section speaks of no missing fixture of a
\* family that has some: so together the checks let no such listing pass.
ListedOfKnownFamilyExists ==
  /\ CheckTypeOK
  /\ Passed =>
       \A p \in DOMAIN repo.profiles :
         \A i \in ProfileFixtures(p) :
           i.fam \in FamiliesOf(OnDisk) => i \in OnDisk

\* A change of the fixtures alone never passes the gate: none is added to a
\* family that had some and none is taken from one that still has some,
\* since profiles.md matched both.  Nor does a second file of an id that has
\* one: all were judged, none in the shadow of another.  Of a family that
\* vanishes none was listed for the users of a profile.
LoneEditNoticed ==
  Passed /\ edits > 0 /\ repo = [before EXCEPT !.files = repo.files] =>
    /\ \A fam \in FamiliesOf(OnDisk) \cap FamiliesOf(IdsOf(before)) :
         {i \in OnDisk : i.fam = fam} = {i \in IdsOf(before) : i.fam = fam}
    /\ Cardinality(OnDisk) = Len(repo.files)
    /\ \A i \in IdsOf(before) \ OnDisk :
         \A p \in DOMAIN repo.profiles : i \notin Listed(p)

\* A code that a fixture asserts is one that goes over the wire, unless it
\* stands in the tables of reserved codes and reasons: the three sources are
\* compared in two pairs only.
AssertedCodesGoOverTheWire ==
  Passed =>
    \A j \in DOMAIN repo.files :
      repo.files[j].codes \subseteq
        repo.registry.other \cup (repo.schema.codes \cap repo.rfc.codes)

\* No optional family reaches the users of another profile by way of the two
\* files together: neither a list nor, for the consumer, the text of its
\* section, its ranges included.
OptionalStaysOptional ==
  Passed =>
    \A fam \in DOMAIN OptionalOnly :
      /\ \A p \in DOMAIN repo.profiles \ OptionalOnly[fam] :
           fam \notin FamiliesOf(ProfileFixtures(p))
      /\ Consumer \in DOMAIN repo.md \ OptionalOnly[fam] =>
           fam \notin FamiliesOf(Covered(repo.md[Consumer]))

\* Every directory of examples has a line of its own in validate-json.sh: the
\* seventh promise, of which check_examples_routed tests a substring.
EveryExampleRouted == Passed => repo.examples \subseteq repo.routes
=============================================================================
