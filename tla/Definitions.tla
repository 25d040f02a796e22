---------------------------- MODULE Definitions -----------------------------
(* Versions of an automation template: what publishVersion accepts, the    *)
(* order in which an accepted definition's steps will run, and publishers  *)
(* that overlap (automation/src/version.ts, service.ts, store.ts).         *)
(*                                                                         *)
(* A definition keeps what its validation looks at: the steps with their   *)
(* dependencies in declaration order, the artifacts with the step that     *)
(* makes them, the artifacts that approval and delivery name, whether      *)
(* approval is required and whether a gate is given.  `complete` stands for *)
(* the fields that only have to be present (engine, model, prompt, mapping *)
(* keys, placeholders and paths).                                          *)
EXTENDS Integers, FiniteSets, Sequences, SequencesExt

CONSTANTS
  Publishers,     \* publishVersion calls
  Offers          \* the definitions each of them may be called with

(* A definition is a body of JSON: its steps and their dependencies are    *)
(* arrays.                                                                 *)
ASSUME DefinitionsAssumption ==
  \A p \in Publishers : \A d \in Offers[p] :
    /\ d.steps \in Seq(ToSet(d.steps))
    /\ \A n \in 1..Len(d.steps) : d.steps[n].dependsOn \in Seq(ToSet(d.steps[n].dependsOn))

VARIABLES
  template,    \* automation_templates.status
  versions,    \* automation_versions: the template's rows
  publisher    \* the call each publisher is in

definitionVars == <<template, versions, publisher>>

PublisherSteps == {"idle", "found", "archived", "numbered", "invalid", "conflict", "published"}

IdlePublisher == [step |-> "idle", status |-> "draft", number |-> 0, definition |-> << >>]

DefinitionsInit ==
  /\ template = "draft"
  /\ versions = {}
  /\ publisher = [p \in Publishers |-> IdlePublisher]

-----------------------------------------------------------------------------
(* Kahn's algorithm, as both validateStepGraph and executionOrder run it:  *)
(* `left` counts the dependencies still to come, `queue` holds the steps   *)
(* that have none, in declaration order; one call of Shifted is one turn of *)
(* the while loop.                                                         *)
Ids(steps) == [n \in 1..Len(steps) |-> steps[n].id]

Occurrences(id, deps) == Cardinality({i \in 1..Len(deps) : deps[i] = id})

(* Steps in declaration order: the n-th of them has n up to it.            *)
Declared(S) ==
  [n \in 1..Cardinality(S) |-> CHOOSE s \in S : Cardinality({t \in S : t <= s}) = n]

Start(steps) ==
  [left  |-> [n \in 1..Len(steps) |-> Len(steps[n].dependsOn)],
   queue |-> Declared({n \in 1..Len(steps) : steps[n].dependsOn = << >>}),
   order |-> << >>]

Shifted(steps, walk) ==
  IF walk.queue = << >> THEN walk
  ELSE LET id == steps[Head(walk.queue)].id
           left == [n \in 1..Len(steps) |-> walk.left[n] - Occurrences(id, steps[n].dependsOn)]
           freed == Declared({n \in 1..Len(steps) : left[n] = 0 /\ walk.left[n] > 0})
       IN [left |-> left, queue |-> Tail(walk.queue) \o freed, order |-> Append(walk.order, id)]

(* A step enters the queue at most once, so Len(steps) turns empty it.     *)
Walk(steps) ==
  LET walk[n \in 0..Len(steps)] ==
        IF n = 0 THEN Start(steps) ELSE Shifted(steps, walk[n - 1])
  IN walk[Len(steps)]

ExecutionOrder(steps) == Walk(steps).order

DistinctSeq(s) == \A i, j \in 1..Len(s) : s[i] = s[j] => i = j

ValidateStepGraph(steps) ==
  /\ DistinctSeq(Ids(steps))
  /\ \A n \in 1..Len(steps) :
       /\ ~Contains(steps[n].dependsOn, steps[n].id)
       /\ DistinctSeq(steps[n].dependsOn)
       /\ ToSet(steps[n].dependsOn) \subseteq ToSet(Ids(steps))
  /\ Len(Walk(steps).order) = Len(steps)

(* Artifacts come from known steps, approval and delivery name known       *)
(* artifacts, and a gate is given exactly when approval is required.       *)
ReferencesResolve(d) ==
  LET artifactIds == [n \in 1..Len(d.artifacts) |-> d.artifacts[n].id]
  IN /\ DistinctSeq(artifactIds)
     /\ \A n \in 1..Len(d.artifacts) : Contains(Ids(d.steps), d.artifacts[n].step)
     /\ d.named \subseteq ToSet(artifactIds)
     /\ d.approvalRequired <=> d.gate

ValidateDefinition(d) ==
  /\ d.steps # << >>
  /\ d.complete
  /\ ValidateStepGraph(d.steps)
  /\ ReferencesResolve(d)

-----------------------------------------------------------------------------
(* publishVersion reads the template, checks what it read and reads the    *)
(* largest number, then builds the version and inserts it: an await lies   *)
(* between the reads and before the insert.                                *)
PublishVersion(p, d) ==
  /\ publisher[p].step = "idle"
  /\ publisher' = [publisher EXCEPT ![p] =
       [@ EXCEPT !.step = "found", !.status = template, !.definition = d]]
  /\ UNCHANGED <<template, versions>>

NextVersionNumber(p) ==
  /\ publisher[p].step = "found"
  /\ publisher' = [publisher EXCEPT ![p] =
       IF @.status = "archived" THEN [@ EXCEPT !.step = "archived"]
       ELSE [@ EXCEPT !.step = "numbered", !.number = Max({0} \cup {v.number : v \in versions}) + 1]]
  /\ UNCHANGED <<template, versions>>

(* Mutant: the table lacks its UNIQUE (template_id, version).              *)
NumberNeverTaken(n) == FALSE

NumberTaken(n) == \E v \in versions : v.number = n

BuildVersion(p, n, d) == [number |-> n, by |-> p, definition |-> d]

(* buildVersion validates and throws, or createVersion's INSERT follows.   *)
CreateVersion(p) ==
  /\ publisher[p].step = "numbered"
  /\ LET n == publisher[p].number
         d == publisher[p].definition
         answer == CASE ~ValidateDefinition(d) -> "invalid"
                     [] ValidateDefinition(d) /\ NumberTaken(n) -> "conflict"
                     [] OTHER -> "published"
     IN /\ publisher' = [publisher EXCEPT ![p].step = answer]
        /\ versions' = IF answer = "published" THEN versions \cup {BuildVersion(p, n, d)}
                       ELSE versions
  /\ UNCHANGED template

ArchiveTemplate ==
  /\ template' = "archived"
  /\ UNCHANGED <<versions, publisher>>

DefinitionsNext ==
  \/ \E p \in Publishers : \/ \E d \in Offers[p] : PublishVersion(p, d)
                           \/ NextVersionNumber(p) \/ CreateVersion(p)
  \/ ArchiveTemplate

DefinitionsSpec == DefinitionsInit /\ [][DefinitionsNext]_definitionVars

-----------------------------------------------------------------------------
DefinitionsTypeOK ==
  /\ template \in {"draft", "archived"}
  /\ \A v \in versions : v.number \in Nat \ {0} /\ v.by \in Publishers
  /\ \A p \in Publishers :
       /\ publisher[p].step \in PublisherSteps
       /\ publisher[p].status \in {"draft", "archived"}
       /\ publisher[p].step # "idle" => publisher[p].definition \in Offers[p]

(* The reference: a graph can be executed when its steps can be ranked so  *)
(* that every dependency is a step of a smaller rank.                      *)
Rankable(steps) ==
  \E rank \in [1..Len(steps) -> 1..Len(steps)] :
    \A n \in 1..Len(steps) : \A d \in ToSet(steps[n].dependsOn) :
      \E m \in 1..Len(steps) : steps[m].id = d /\ rank[m] < rank[n]

(* The orchestrator runs a published version along executionOrder, which   *)
(* trusts the validation: every step comes once and after what it depends  *)
(* on, whatever graph was offered (validateStepGraph, executionOrder).     *)
PublishedIsExecutable ==
  \A v \in versions :
    LET steps == v.definition.steps
        order == ExecutionOrder(steps)
    IN /\ ToSet(order) = ToSet(Ids(steps)) /\ Len(order) = Len(steps)
       /\ \A n, i \in 1..Len(steps) : order[i] = steps[n].id =>
            ToSet(steps[n].dependsOn) \subseteq ToSet(SubSeq(order, 1, i - 1))

(* validateDefinition refuses nothing that could run: a refused definition *)
(* has a dangling reference, a repeated name, or no possible order.        *)
RefusedForCause ==
  \A p \in Publishers : publisher[p].step = "invalid" =>
    LET d == publisher[p].definition
    IN \/ ~d.complete \/ d.steps = << >> \/ ~ReferencesResolve(d)
       \/ ~DistinctSeq(Ids(d.steps))
       \/ \E n \in 1..Len(d.steps) : ~DistinctSeq(d.steps[n].dependsOn)
       \/ ~Rankable(d.steps)

(* Publishers that read the same largest number do not share it: numbers   *)
(* run from 1 without gaps, each with one definition, and a call was told  *)
(* "published" exactly when its definition is stored (nextVersionNumber,   *)
(* createVersion).                                                         *)
VersionsNumbered ==
  /\ {v.number : v \in versions} = 1..Cardinality(versions)
  /\ \A p \in Publishers :
       publisher[p].step = "published" <=> \E v \in versions : v.by = p
=============================================================================
