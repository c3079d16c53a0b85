---------------------------- MODULE MCGateContracts ----------------------------
(***************************************************************************)
(* Documents for TLC: profiles with no, one, two and a repeated predicate, *)
(* and every map of at most two observations over valid and invalid        *)
(* statuses, evidence and notes.                                           *)
(***************************************************************************)
EXTENDS GateContracts

CONSTANTS Safe, Secret, Site

MCText == {Safe, Secret}

MCSafeText == {Safe}

MCProfiles ==
    [schemaVersion : {1}, id : {Site},
     mandatoryPredicates : {<<>>, <<"G1">>, <<"G1", "G2">>, <<"G1", "G1">>, <<"G2", Blank>>}]
    \cup
    {[schemaVersion |-> 2, id |-> Site, mandatoryPredicates |-> <<"G1">>],
     [schemaVersion |-> 1, id |-> Blank, mandatoryPredicates |-> <<"G1">>]}

MCObservations ==
    [status : {"PASS", "STALE", "GREEN"}, evidence : {{}, {Safe}, {Safe, Secret}},
     note : {NoNote, Safe, Secret}]

MCPredicates == UNION {[D -> MCObservations] : D \in SUBSET {"G1", "G2"}}

MCSchemaVersions == {1, 2}
===============================================================================
