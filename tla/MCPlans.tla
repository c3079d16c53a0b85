-------------------------------- MODULE MCPlans --------------------------------
(***************************************************************************)
(* Plans for TLC: every dependency graph of three steps with at most two   *)
(* dependencies each, and plans that differ in what their steps may do, in *)
(* the phases they name and in what they ask of the operator.              *)
(***************************************************************************)
EXTENDS PlanCommands

CONSTANTS Site, Profile, Commit, Point, Prompt, Text, OtherText

Step(id, dependsOn) ==
    [id |-> id, phase |-> "resume", kind |-> "automatic", argv |-> "plain",
     instruction |-> Blank, typed |-> TRUE, mutating |-> FALSE, destructive |-> FALSE,
     checked |-> TRUE, dependsOn |-> dependsOn, confirmation |-> NoConfirmation]

Asks(text) == [required |-> TRUE, prompt |-> Prompt, acknowledgeWith |-> text]

Destroys(id, dependsOn, text) ==
    [Step(id, dependsOn) EXCEPT !.mutating = TRUE, !.destructive = TRUE,
                                !.confirmation = Asks(text)]

Plan(id, steps) ==
    [schemaVersion |-> 1, id |-> id, phase |-> "resume", profileDigest |-> Profile,
     recoveryCommit |-> Commit, checkpointDigest |-> Blank, planDigest |-> Blank,
     steps |-> steps]

\* The dependencies of a step in either order.
DependenciesOf(id) == {s \in UNION {[1..k -> (1..3) \ {id}] : k \in 0..2} : IsInjective(s)}

\* The plan of each graph has an id of its own: no edit leads to another.
GraphPlans ==
    {Plan(<<d1, d2, d3>>, <<Step(1, d1), Step(2, d2), Step(3, d3)>>) :
        d1 \in DependenciesOf(1), d2 \in DependenciesOf(2), d3 \in DependenciesOf(3)}

ByHand(id) == [Step(id, <<>>) EXCEPT !.kind = "operator-only", !.argv = "none", !.instruction = Text]

\* An operator may be given the argv; only a destructive step needs its text.
Typed(id) == [Step(id, <<>>) EXCEPT !.kind = "operator-only"]

Textless(id) == [Step(id, <<>>) EXCEPT !.confirmation = Asks(Blank)]

InPhase(step, phase) == [step EXCEPT !.phase = phase]

\* The drafts of one plan: in the second the text to acknowledge differs and a
\* step that is not destructive asks for a confirmation too; in the third steps
\* name other phases than the plan's and the destructive one asks for nothing.
SitePlans ==
    {Plan(Site, steps) : steps \in
        {<<Step(1, <<>>), Destroys(2, <<1>>, Text)>>,
         <<[Step(1, <<>>) EXCEPT !.confirmation = Asks(Text)], Destroys(2, <<1>>, OtherText)>>,
         <<InPhase(Step(3, <<>>), "drill"), InPhase(ByHand(2), "restore"),
           InPhase(Typed(1), "drill"), InPhase(Textless(4), "other"),
           [Destroys(5, <<>>, Text) EXCEPT !.confirmation = NoConfirmation]>>}}

MCDrafts == GraphPlans \cup SitePlans

MCBindings ==
    {[profileDigest |-> Profile, recoveryCommit |-> commit, checkpointDigest |-> point] :
        commit \in {Commit, Malformed}, point \in {Blank, Point}}
===============================================================================
