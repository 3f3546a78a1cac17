---------------------------- MODULE SkillEvolution ----------------------------
(***************************************************************************)
(* request-skill-evolution of jam-svc-evolve: a skill is looked for by its *)
(* file's stem, its path or the scope in its text, in the order of the     *)
(* paths, and handed to the evolution adapter, which writes a candidate.   *)
(* Authors change the skills meanwhile.                                    *)
(***************************************************************************)
EXTENDS Integers, Sequences, FiniteSets, SequencesExt

CONSTANTS
  SkillFiles,    \* skill files, in the order of their paths
  StemOf,        \* StemOf[f], the stem and the path are names
  SkillNames,    \* names a request may give
  EvolveFaults   \* what may fail: "read", "adapter"

ASSUME EvolveAssumption ==
  /\ EvolveFaults \subseteq {"read", "adapter"}
  /\ SkillFiles \in Seq(Range(SkillFiles)) /\ IsInjective(SkillFiles)

VARIABLES
  scope,    \* scope[f] in the frontmatter, "none" for no such file
  evolve,   \* the request: [at, name, files, ...]
  matched,  \* history: files that went by the name at some moment of the request
  passed    \* history: files that did so at every moment of it

evolveVars == <<scope, evolve, matched, passed>>

AllSkills == Range(SkillFiles)
ScopeNames == SkillNames \union {"other"}

\* skill_matches; a name is compared as it is and as a slug, which here are one.
Matches(f, name, scopes) == scopes[f] # "none" /\ (StemOf[f] = name \/ scopes[f] = name)

EvolveInit ==
  /\ scope \in [AllSkills -> ScopeNames \union {"none"}]
  /\ evolve = [at |-> "idle"] /\ matched = {} /\ passed = {}

\* An author adds, removes or renames a skill.
SkillMoves ==
  /\ \E f \in AllSkills, s \in ScopeNames \union {"none"} : scope' = [scope EXCEPT ![f] = s]
  /\ IF evolve.at = "scanning"
       THEN /\ matched' = matched \union {f \in AllSkills : Matches(f, evolve.name, scope')}
            /\ passed' = {f \in passed : Matches(f, evolve.name, scope')}
       ELSE UNCHANGED <<matched, passed>>
  /\ UNCHANGED evolve

\* An input that parse_request_input or a validation does not let pass.
RefuseEvolution ==
  /\ evolve.at = "idle" /\ evolve' = [at |-> "refused"]
  /\ UNCHANGED <<scope, matched, passed>>

\* request_skill_evolution: find_skill collects and sorts the files there are.
BeginEvolution ==
  /\ evolve.at = "idle"
  /\ \E name \in SkillNames, dry \in BOOLEAN :
       /\ evolve' = [at |-> "scanning", name |-> name, dry |-> dry,
                     files |-> {f \in AllSkills : scope[f] # "none"}]
       /\ matched' = {f \in AllSkills : Matches(f, name, scope)}
       /\ passed' = matched'
  /\ UNCHANGED scope

\* Faulty variant: a file is taken for its name when its text names another.
TakesAny(f) == TRUE

Takes(f) == Matches(f, evolve.name, scope)

Found(f) == [at |-> "adapting", name |-> evolve.name, dry |-> evolve.dry, skill |-> f]

Position(f) == CHOOSE i \in DOMAIN SkillFiles : SkillFiles[i] = f
NextFile == CHOOSE f \in evolve.files : \A g \in evolve.files : Position(f) <= Position(g)

\* The next file: a stem that matches is enough, otherwise it is read, and one
\* that cannot be read fails the request although a later one may match.
ScanSkill ==
  /\ evolve.at = "scanning" /\ evolve.files # {}
  /\ LET f == NextFile
     IN IF StemOf[f] = evolve.name
          THEN evolve' = Found(f)
          ELSE \/ /\ scope[f] # "none"
                  /\ evolve' = IF Takes(f)
                       THEN Found(f)
                       ELSE [evolve EXCEPT !.files = @ \ {f}]
               \/ /\ scope[f] = "none" \/ "read" \in EvolveFaults
                  /\ evolve' = [at |-> "failed"]
  /\ UNCHANGED <<scope, matched, passed>>

SkillNotFound ==
  /\ evolve.at = "scanning" /\ evolve.files = {}
  /\ evolve' = [at |-> "not found", name |-> evolve.name]
  /\ UNCHANGED <<scope, matched, passed>>

\* run_adapter: the subprocess fails, or prints the path of a diff; without one
\* only a dry run is complete.
RunAdapter ==
  /\ evolve.at = "adapting"
  /\ \E diff \in BOOLEAN :
       evolve' = IF diff \/ evolve.dry
                   THEN [at |-> "answered", name |-> evolve.name, dry |-> evolve.dry,
                         skill |-> evolve.skill, candidate |-> diff]
                   ELSE [at |-> "failed"]
  /\ UNCHANGED <<scope, matched, passed>>

AdapterFails ==
  /\ evolve.at = "adapting" /\ "adapter" \in EvolveFaults
  /\ evolve' = [at |-> "failed"]
  /\ UNCHANGED <<scope, matched, passed>>

EvolveNext ==
  SkillMoves \/ RefuseEvolution \/ BeginEvolution \/ ScanSkill \/ SkillNotFound \/ RunAdapter \/ AdapterFails
-----------------------------------------------------------------------------

EvolveTypeOK ==
  evolve.at \in {"idle", "refused", "scanning", "adapting", "answered", "not found", "failed"}

\* The skill that is evolved went by the asked name at some moment of the
\* request, none that did so throughout has a path before it, and a skill that
\* did so throughout is found, while authors edit (main.rs:559-652).
EvolvedIsNamed ==
  /\ evolve.at \in {"adapting", "answered"} =>
       /\ evolve.skill \in matched
       /\ \A f \in passed : Position(f) >= Position(evolve.skill)
  /\ evolve.at = "not found" => passed = {}
  /\ evolve.at = "answered" => evolve.candidate \/ evolve.dry
=============================================================================
