------------------------------- MODULE MCParts -------------------------------
(***************************************************************************)
(* The safety of nine parts of the system.  They share no state, so that   *)
(* one run checks each by itself: it chooses a part and leaves the others  *)
(* in one of their initial states.                                         *)
(***************************************************************************)
EXTENDS SignedLinks, Payouts, Sanitizer, StreamReaders, Peers, DbModels, Deploy,
        Onboarding, Payments

VARIABLE part

\* Everything but the part's own.
linkSide == <<linkVars, payoutVars, payVars>>
streamSide == <<sanitizerVars, readerVars>>
nodeSide == <<peersVars, dbmVars, deployVars, onboardVars>>
partVars == <<part, linkSide, streamSide, nodeSide>>

\* A machine without a GPU, and 8 GB of RAM.
MCHosts == {[vram |-> 0, ram |-> 8]}

\* The market a deployment begins with: the cheap offer is of the GPU that is
\* known, as the dear one is, or of another.
Cheap == CHOOSE o \in Offers : TRUE
Market(g) == [o \in Offers |->
    [gpu |-> IF o = Cheap THEN g ELSE CHOOSE k \in KnownGpus : TRUE,
     price |-> IF o = Cheap THEN 1 ELSE 2, free |-> TRUE]]
Markets == {Market(g) : g \in Gpus}

PartsInit ==
    /\ part \in {"links", "payouts", "pay", "sanitizer", "readers",
                 "peers", "models", "deploy", "setup"}
    /\ part # "pay" => setup = Variables
    /\ part # "readers" => reader = "sdk"
    /\ part # "setup" => ollama = "absent"
    /\ creds \in IF part = "deploy" THEN {Adapters, Adapters \ {"runpod"}} ELSE {{}}
    /\ market \in IF part = "deploy" THEN Markets ELSE {Market(CHOOSE g \in KnownGpus : TRUE)}
    /\ part # "deploy" => session = Unset
    /\ LinksInit /\ PayoutInit /\ SanitizerInit /\ ReadersInit /\ PeersInit
    /\ DbmInit /\ DeployInit /\ OnboardInit /\ PayInit

PartsNext ==
    \/ /\ UNCHANGED <<part, streamSide, nodeSide>>
       /\ \/ part = "links" /\ LinksNext /\ UNCHANGED <<payoutVars, payVars>>
          \/ part = "payouts" /\ PayoutNext /\ UNCHANGED <<linkVars, payVars>>
          \/ part = "pay" /\ PayNext /\ UNCHANGED <<linkVars, payoutVars>>
    \/ /\ UNCHANGED <<part, linkSide, nodeSide>>
       /\ \/ part = "sanitizer" /\ SanitizerNext /\ UNCHANGED readerVars
          \/ part = "readers" /\ ReadersNext /\ UNCHANGED sanitizerVars
    \/ /\ UNCHANGED <<part, linkSide, streamSide>>
       /\ \/ part = "peers" /\ PeersNext /\ UNCHANGED <<dbmVars, deployVars, onboardVars>>
          \/ part = "models" /\ DbmNext /\ UNCHANGED <<peersVars, deployVars, onboardVars>>
          \/ part = "deploy" /\ DeployNext /\ UNCHANGED <<peersVars, dbmVars, onboardVars>>
          \/ part = "setup" /\ OnboardNext /\ UNCHANGED <<peersVars, dbmVars, deployVars>>

PartsSpec == PartsInit /\ [][PartsNext]_partVars

\* Types of the part that is checked.
PartsTypeOK ==
    /\ part = "links" => LinksTypeOK
    /\ part = "payouts" => PayoutTypeOK
    /\ part = "pay" => PayTypeOK
    /\ part = "sanitizer" => SanitizerTypeOK
    /\ part = "readers" => ReadersTypeOK
    /\ part = "peers" => PeersTypeOK
    /\ part = "models" => DbmTypeOK
    /\ part = "deploy" => DeployTypeOK
    /\ part = "setup" => OnboardTypeOK
=============================================================================
