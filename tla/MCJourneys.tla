------------------------------ MODULE MCJourneys ------------------------------
(***************************************************************************)
(* Five journeys of a user or an operator, each of which must end: paying  *)
(* for a job, signing the command line in, chatting in the page, having a  *)
(* chat given to a machine, and making a machine a node.                   *)
(*                                                                         *)
(* The five share no state, so that one run checks each by itself: it      *)
(* chooses one of them and leaves the others in their initial states,      *)
(* where none of their fair actions can happen (setup's is left out there).*)
(***************************************************************************)
EXTENDS Payments, DeviceLogin, ChatPage, Routing, Onboarding

VARIABLE journey

journeyVars == <<journey, payVars, loginVars, pageVars, routingVars, onboardVars>>

\* A machine without a GPU, and 8 GB of RAM.
MCHosts == {[vram |-> 0, ram |-> 8]}

JourneysInit ==
    /\ journey \in {"pay", "login", "page", "routing", "setup"}
    /\ journey # "pay" => setup = Variables
    /\ journey # "setup" => ollama = "absent"
    /\ PayInit /\ LoginInit /\ PageInit /\ RoutingInit /\ OnboardInit

JourneysNext ==
    \/ /\ journey = "pay" /\ PayNext
       /\ UNCHANGED <<journey, loginVars, pageVars, routingVars, onboardVars>>
    \/ /\ journey = "login" /\ LoginNext
       /\ UNCHANGED <<journey, payVars, pageVars, routingVars, onboardVars>>
    \/ /\ journey = "page" /\ PageNext
       /\ UNCHANGED <<journey, payVars, loginVars, routingVars, onboardVars>>
    \/ /\ journey = "routing" /\ RoutingNext
       /\ UNCHANGED <<journey, payVars, loginVars, pageVars, onboardVars>>
    \/ /\ journey = "setup" /\ OnboardNext
       /\ UNCHANGED <<journey, payVars, loginVars, pageVars, routingVars>>

JourneysFairness ==
    /\ PayFairness /\ LoginFairness /\ PageFairness /\ RoutingFairness
    /\ WF_onboardVars(journey = "setup" /\ RunsAgain)
    /\ \A p \in Runs : WF_onboardVars(Proceeds(p))

JourneysSpec == JourneysInit /\ [][JourneysNext]_journeyVars /\ JourneysFairness

\* Types of the journey that is made.
JourneysTypeOK ==
    /\ journey = "pay" => PayTypeOK
    /\ journey = "login" => LoginTypeOK
    /\ journey = "page" => PageTypeOK
    /\ journey = "routing" => RoutingTypeOK
    /\ journey = "setup" => OnboardTypeOK

\* SetupSettles, in the journey of setup.
SetupSettlesThere == journey = "setup" => SetupSettles
=============================================================================
