----------------------------- MODULE MCClients -----------------------------
(***************************************************************************)
(* What the clients do, on a small instance, for TLC: start the daemon,    *)
(* follow its events, apply a workflow, set up the agents.  These parts    *)
(* share nothing but the daemon they call, so a behaviour is one of any    *)
(* one of them, and the others stay as they began.                         *)
(***************************************************************************)
EXTENDS Lifecycle, EventStream, Apply, Setup

VARIABLE part  \* the one that runs

vars == <<lifeVars, streamVars, applyVars, setupVars, part>>

MCStep(l, t, p) == [label |-> l, type |-> t, prompt |-> p]

MCSteps ==
    {MCStep(0, TRUE, "fine"), MCStep(2, TRUE, "fine"), MCStep(7, TRUE, "fine"),
     MCStep(0, FALSE, "fine"), MCStep(0, TRUE, "malformed"), MCStep(0, TRUE, "none")}

MCFiles == [session: {TRUE}, agent: BOOLEAN, steps: {<<>>} \cup [1 .. 3 -> MCSteps]]

MCConfig(json, tail, section, servers) ==
    [json |-> json, keys |-> json \notin {"absent", "null"}, tail |-> tail, section |-> section,
     servers |-> servers]

MCConfigs ==
    {MCConfig("absent", FALSE, "none", {}), MCConfig("object", FALSE, "object", {"theirs"}),
     MCConfig("object", TRUE, "object", {"theirs"}), MCConfig("object", FALSE, "other", {}),
     MCConfig("null", FALSE, "none", {}), MCConfig("invalid", FALSE, "none", {})}

MCDocs == {NoDoc, <<"text 1">>, <<"text 1", "begin", "old body", "end">>}

\* Every part's variables are in range.
TypeOK == LifeTypeOK /\ StreamTypeOK /\ ApplyTypeOK /\ SetupTypeOK

Init ==
    /\ part \in {"life", "stream", "apply", "setup"}
    /\ LifeInit /\ StreamInit /\ ApplyInit /\ SetupInit
    /\ part # "life" => path = NoProc
    /\ part # "apply" => file.steps = <<>> /\ file.agent
    /\ part # "setup" => /\ \A a \in DOMAIN config : config[a].json = "absent"
                         /\ \A a \in DOMAIN doc : doc[a] = NoDoc

Next ==
    /\ UNCHANGED part
    /\ \/ part = "life" /\ LifeNext /\ UNCHANGED <<streamVars, applyVars, setupVars>>
       \/ part = "stream" /\ StreamNext /\ UNCHANGED <<lifeVars, applyVars, setupVars>>
       \/ part = "apply" /\ ApplyNext /\ UNCHANGED <<lifeVars, streamVars, setupVars>>
       \/ part = "setup" /\ SetupNext /\ UNCHANGED <<lifeVars, streamVars, applyVars>>

Spec == Init /\ [][Next]_vars

FairSpec == Spec /\ LifeFairness /\ StreamFairness
=============================================================================
