------------------------------ MODULE CardTools ------------------------------
(***************************************************************************)
(* The dashboard's tools for saves, settings and KELF files as one         *)
(* program: a single thread, one operation at a time, and the user, who    *)
(* pulls and inserts cards and switches the console off.                   *)
(***************************************************************************)
EXTENDS SaveImport, PsuTransfer, SettingsFile, KelfBinding

CONSTANTS WaitPoints,     \* where a card is put into the slot
          Plans,          \* the operations of a behaviour, in order
          MaxCuts         \* power cuts in one behaviour

ASSUME WaitAssumption == WaitPoints \subseteq {"browse", "selected", "confirm", "done"}
ASSUME CutsAssumption == MaxCuts \in Nat
ASSUME PlansAssumption ==
    \A p \in Plans : ToSet(p) \subseteq {"image", "import", "export", "settings",
                                         "probe", "install"}

VARIABLES plan,           \* what the user still goes on to do
          cuts

vars == <<mediaVars, psu, settingsVars, kelfVars, plan, cuts>>

Init == /\ MediaInit /\ PsuInit /\ SettingsInit /\ KelfInit
        /\ plan \in Plans /\ cuts = 0

(* A card leaves the slot at any time; one is put in while the program     *)
(* waits for the user.                                                     *)
PullCard == /\ inserted # NoCard /\ inserted' = NoCard
            /\ UNCHANGED <<op, card, faults, job, psu, settingsVars, kelfVars, plan, cuts>>
InsertCard ==
    /\ inserted = NoCard /\ (op = "menu" \/ job.pc \in WaitPoints)
    /\ inserted' \in Cards
    /\ UNCHANGED <<op, card, faults, job, psu, settingsVars, kelfVars, plan, cuts>>

(* The user leaves the result page, the browser or the confirmation.       *)
Dismiss ==
    /\ op \in {"image", "import", "export"}
    /\ job.pc \in {"done", "browse", "selected", "confirm"}
    /\ op' = "menu" /\ job' = NoJob
    /\ UNCHANGED <<card, inserted, faults, psu, settingsVars, kelfVars, plan, cuts>>

PowerCut ==
    /\ op # "off" /\ cuts < MaxCuts /\ cuts' = cuts + 1
    /\ op' = "off" /\ job' = NoJob
    /\ SettingsCut /\ KelfCut
    /\ UNCHANGED <<card, inserted, faults, psu, plan>>
Boot ==
    /\ op = "off" /\ op' = "menu" /\ LoadFromMass
    /\ UNCHANGED <<card, inserted, faults, job, psu, kelfVars, plan, cuts>>

(* An operation begins at the menu, the next one of the plan; the MagicGate *)
(* test is over in one step.                                               *)
Begin(kind) == plan # <<>> /\ Head(plan) = kind /\ plan' = Tail(plan)
Planned ==
    IF op = "menu" /\ op' # "menu" THEN Begin(op')
    ELSE IF op = "menu" /\ cache' # cache THEN Begin("probe")
    ELSE UNCHANGED plan
ToolNext ==
    /\ \/ ImportNext /\ UNCHANGED <<psu, settingsVars, kelfVars>>
       \/ PsuNext /\ UNCHANGED <<settingsVars, kelfVars>>
       \/ /\ SaveSettings \/ SettingsStep
          /\ UNCHANGED <<card, inserted, job, psu, kelfVars>>
       \/ KelfNext /\ UNCHANGED <<psu, settingsVars>>
    /\ Planned /\ UNCHANGED cuts

Next == ToolNext \/ PullCard \/ InsertCard \/ Dismiss \/ PowerCut \/ Boot

(* The thread goes on whenever it can; the user need not do anything.      *)
Running ==
    /\ \/ op \in {"image", "import", "export"} /\ job.pc \notin
             {"done", "browse", "selected", "confirm"}
       \/ op \in {"settings", "install"}
Progress == Running /\ ToolNext /\ UNCHANGED <<package>>
Spec == Init /\ [][Next]_vars /\ WF_vars(Progress)
=============================================================================
