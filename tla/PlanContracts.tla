----------------------------- MODULE PlanContracts -----------------------------
(***************************************************************************)
(* The plan of internal/plan and its renderings by internal/render: what   *)
(* Validate demands before it searches for cycles, what Bind changes, when *)
(* an operator's confirmation is valid, and what a listing and a run sheet *)
(* show.  Pure operators; PlanCommands.tla says when the program calls     *)
(* them.                                                                   *)
(*                                                                         *)
(* A step has the number of its id, 0 for an id that is refused.  Its argv *)
(* is "none", "plain" or one that validateArgv refuses.  "typed" says that *)
(* its adapter and executable are identities that fit the argv, "checked"  *)
(* that it has preconditions, STOP conditions and observations.            *)
(***************************************************************************)
EXTENDS Naturals, Sequences, FiniteSets, SequencesExt

CONSTANTS
    Blank,           \* a field that is absent or only white space
    Malformed,       \* a value that is no digest or commit id, a mistyped text
    NoConfirmation   \* a step without a confirmation requirement

Phases == <<"decommission", "bootstrap", "restore", "resume", "recommission">>

Kinds == {"automatic", "delegated", "agent-assisted", "operator-only"}

\* What a file that decodes as a plan is, valid or not.
IsPlan(plan) ==
    /\ plan = [field \in {"schemaVersion", "id", "phase", "profileDigest", "recoveryCommit",
                          "checkpointDigest", "planDigest", "steps"} |-> plan[field]]
    /\ plan.steps \in Seq(ToSet(plan.steps))
    /\ \A i \in DOMAIN plan.steps :
          plan.steps[i].id \in Nat /\ plan.steps[i].dependsOn \in Seq(Nat)

\* sha256 over the canonical encoding, taken to be free of collisions.
Digest(document) == <<"sha256", document>>

IsDigest(value) == value \notin {Blank, Malformed}

\* Mutant: the digest leaves the checkpoint out.
MutantCanonicalDigest(plan) ==
    Digest([plan EXCEPT !.planDigest = Blank, !.checkpointDigest = Blank])

\* The digest is taken with the stored digest blank.
CanonicalDigest(plan) == Digest([plan EXCEPT !.planDigest = Blank])

StepIDs(plan) == {plan.steps[i].id : i \in DOMAIN plan.steps}

\* What a destructive step needs, for Validate and for Bind.
AsksOperator(step) ==
    /\ step.confirmation # NoConfirmation
    /\ step.confirmation.required
    /\ Blank \notin {step.confirmation.prompt, step.confirmation.acknowledgeWith}

ValidateStep(step, phase) ==
    /\ step.id # 0
    /\ step.phase \in ToSet(Phases) /\ step.phase = phase
    /\ step.kind \in Kinds
    /\ (step.argv = "none") # (step.instruction = Blank)
    /\ step.kind = "delegated" => step.argv = "plain" /\ step.typed
    /\ step.destructive => step.mutating
    /\ step.checked
    /\ step.destructive => AsksOperator(step)
    /\ step.id \notin ToSet(step.dependsOn)

\* Validate up to findCycle.
Searchable(plan) ==
    /\ plan.schemaVersion = 1 /\ plan.id # Blank
    /\ plan.phase \in ToSet(Phases)
    /\ IsDigest(plan.profileDigest) /\ IsDigest(plan.recoveryCommit)
    /\ plan.checkpointDigest # Malformed
    /\ IsDigest(plan.planDigest) /\ plan.planDigest = CanonicalDigest(plan)
    /\ plan.steps # <<>>
    /\ \A i \in DOMAIN plan.steps : ValidateStep(plan.steps[i], plan.phase)
    /\ \A i, j \in DOMAIN plan.steps : plan.steps[i].id = plan.steps[j].id => i = j
    /\ \A i \in DOMAIN plan.steps : ToSet(plan.steps[i].dependsOn) \subseteq StepIDs(plan)

\* The graph that findCycle is given: ids are distinct by then.
Dependencies(plan) ==
    [id \in StepIDs(plan) |->
        plan.steps[CHOOSE i \in DOMAIN plan.steps : plan.steps[i].id = id].dependsOn]

-----------------------------------------------------------------------------
(***************************************************************************)
(* Binding and confirmation.                                               *)
(***************************************************************************)
\* Bind up to the copy of the plan.
Bindable(plan, anchors) ==
    /\ IsDigest(anchors.profileDigest) /\ IsDigest(anchors.recoveryCommit)
    /\ anchors.checkpointDigest # Malformed
    /\ \A i \in DOMAIN plan.steps : plan.steps[i].destructive => AsksOperator(plan.steps[i])

Bound(plan, anchors) ==
    LET bound == [plan EXCEPT !.profileDigest = anchors.profileDigest,
                              !.recoveryCommit = anchors.recoveryCommit,
                              !.checkpointDigest = anchors.checkpointDigest]
    IN  [bound EXCEPT !.planDigest = CanonicalDigest(bound)]

\* Mutant: any text acknowledges a step.
MutantConfirms(record, plan) ==
    /\ record.signed
    /\ record.planDigest = plan.planDigest
    /\ plan.checkpointDigest # Blank => record.checkpointDigest = plan.checkpointDigest
    /\ \A id \in DOMAIN record.acknowledged :
          \E i \in DOMAIN plan.steps : plan.steps[i].id = id /\ plan.steps[i].destructive
    /\ \A i \in DOMAIN plan.steps :
          plan.steps[i].destructive => plan.steps[i].id \in DOMAIN record.acknowledged

\* OperatorConfirmation.Validate for a plan that is valid.  "signed" stands for
\* the operator's name and the time.
Confirms(record, plan) ==
    /\ record.signed
    /\ record.planDigest = plan.planDigest
    /\ plan.checkpointDigest # Blank => record.checkpointDigest = plan.checkpointDigest
    /\ \A id \in DOMAIN record.acknowledged :
          \E i \in DOMAIN plan.steps : plan.steps[i].id = id /\ plan.steps[i].destructive
    /\ \A i \in DOMAIN plan.steps :
          LET step == plan.steps[i] IN
          step.destructive => /\ step.id \in DOMAIN record.acknowledged
                              /\ record.acknowledged[step.id] = step.confirmation.acknowledgeWith

-----------------------------------------------------------------------------
(***************************************************************************)
(* Rendering.                                                              *)
(***************************************************************************)
\* An index or a section names the text to acknowledge, if there is one.
AcknowledgeWith(step) ==
    IF step.confirmation = NoConfirmation THEN Blank ELSE step.confirmation.acknowledgeWith

\* The numbers of 1..n that are chosen, as a loop appends them.
InOrder(n, chosen) ==
    LET upTo[i \in 0..n] ==
            IF i = 0 THEN <<>>
            ELSE IF i \in chosen THEN Append(upTo[i - 1], i) ELSE upTo[i - 1]
    IN  upTo[n]

OperatorSteps(plan) ==
    InOrder(Len(plan.steps),
            {i \in DOMAIN plan.steps : \/ plan.steps[i].kind = "operator-only"
                                      \/ plan.steps[i].confirmation # NoConfirmation})

\* A row of the index: why the operator is needed, and whether to destroy.
OperatorRow(number, step) ==
    [number      |-> number,
     id          |-> step.id,
     byHand      |-> step.kind = "operator-only",
     confirms    |-> step.confirmation # NoConfirmation,
     destructive |-> step.destructive]

OperatorIndex(plan) ==
    LET needed == OperatorSteps(plan)
    IN  [k \in DOMAIN needed |-> OperatorRow(needed[k], plan.steps[needed[k]])]

\* What the header counts.
StepCensus(plan) ==
    [total        |-> Len(plan.steps),
     destructive  |-> Cardinality({i \in DOMAIN plan.steps : plan.steps[i].destructive}),
     operatorOnly |-> Cardinality({i \in DOMAIN plan.steps : plan.steps[i].kind = "operator-only"})]

\* The phases of the five that the steps are in.
KnownPhases(plan) ==
    LET known == InOrder(Len(Phases), {k \in DOMAIN Phases :
                            \E i \in DOMAIN plan.steps : plan.steps[i].phase = Phases[k]})
    IN  [k \in DOMAIN known |-> Phases[known[k]]]

\* Any other phase, at the first step that names it.
OddPhases(plan) ==
    LET odd == InOrder(Len(plan.steps), {i \in DOMAIN plan.steps :
                          /\ plan.steps[i].phase \notin ToSet(Phases)
                          /\ \A j \in 1..(i - 1) : plan.steps[j].phase # plan.steps[i].phase})
    IN  [k \in DOMAIN odd |-> plan.steps[odd[k]].phase]

\* Mutant: a phase that is not of the five is not printed.
MutantOrderedPhases(plan) == KnownPhases(plan)

OrderedPhases(plan) == KnownPhases(plan) \o OddPhases(plan)

\* The numbers of the steps of each phase.
StepsInPhase(plan) ==
    [phase \in {plan.steps[i].phase : i \in DOMAIN plan.steps} |->
        InOrder(Len(plan.steps), {i \in DOMAIN plan.steps : plan.steps[i].phase = phase})]

\* The numbers of the steps, phase by phase.
SheetOrder(plan) ==
    LET phases == OrderedPhases(plan)
        steps == StepsInPhase(plan)
    IN  FlattenSeq([k \in DOMAIN phases |-> steps[phases[k]]])

InstructionHeading(step) ==
    CASE step.kind = "operator-only"  -> "by hand"
      [] step.kind = "agent-assisted" -> "approve each effect"
      [] step.kind = "automatic"      -> "confirm it happened"
      [] OTHER                        -> "do this"

\* writeStep: the banner, what the step waits for, the confirmation, the action.
Section(number, step) ==
    [number      |-> number,
     id          |-> step.id,
     kind        |-> step.kind,
     banner      |-> step.destructive,
     dependsOn   |-> step.dependsOn,
     asks        |-> step.confirmation # NoConfirmation,
     acknowledge |-> AcknowledgeWith(step),
     action      |-> IF step.argv = "none" THEN InstructionHeading(step) ELSE step.argv]

Runsheet(plan) ==
    LET order == SheetOrder(plan)
        section == [n \in DOMAIN plan.steps |-> Section(n, plan.steps[n])]
    IN
    [planDigest       |-> plan.planDigest,
     profileDigest    |-> plan.profileDigest,
     recoveryCommit   |-> plan.recoveryCommit,
     checkpointDigest |-> plan.checkpointDigest,
     census           |-> StepCensus(plan),
     index            |-> OperatorIndex(plan),
     sections         |-> [k \in DOMAIN order |-> section[order[k]]]]

\* Text: the flat listing, which does not show the checkpoint.
Listing(plan) ==
    [planDigest     |-> plan.planDigest,
     profileDigest  |-> plan.profileDigest,
     recoveryCommit |-> plan.recoveryCommit,
     lines          |-> [i \in DOMAIN plan.steps |->
                            [id          |-> plan.steps[i].id,
                             destructive |-> plan.steps[i].destructive,
                             dependsOn   |-> plan.steps[i].dependsOn,
                             acknowledge |-> AcknowledgeWith(plan.steps[i])]]]

-----------------------------------------------------------------------------
\* Property of the renderings of a plan, valid or not: the sheet prints each
\* step once, whatever phase it names, under the number it has in the listing
\* and in the index; the index names exactly the sections that need the
\* operator, in order, and the header counts the banners and the steps by hand
\* that follow.
SheetShows(plan) ==
    LET printed == Runsheet(plan)
        lines == Listing(plan).lines
        sections == DOMAIN printed.sections
        Needs(section) == section.asks \/ section.kind = "operator-only"
    IN  /\ Len(printed.sections) = Len(lines) /\ printed.census.total = Len(lines)
        /\ \A n \in DOMAIN lines :
              \E k \in sections :
                 LET section == printed.sections[k] IN
                 /\ section.number = n /\ section.id = lines[n].id
                 /\ section.banner = lines[n].destructive
                 /\ section.acknowledge = lines[n].acknowledge
                 /\ Needs(section) <=>
                       \E r \in DOMAIN printed.index :
                          printed.index[r].number = n /\ printed.index[r].id = section.id
        /\ \A r, q \in DOMAIN printed.index :
              r < q => printed.index[r].number < printed.index[q].number
        /\ printed.census.destructive = Cardinality({k \in sections : printed.sections[k].banner})
        /\ printed.census.operatorOnly =
              Cardinality({k \in sections : printed.sections[k].kind = "operator-only"})
===============================================================================
