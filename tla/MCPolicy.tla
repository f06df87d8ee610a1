--------------------------------- MODULE MCPolicy ---------------------------------
(***************************************************************************)
(* The policy, for TLC: what the engines decide (EnforcementPipeline) and  *)
(* how they follow the files (HotReload).  The two are checked in one run; *)
(* they share no variable, so a behaviour is about one of them (focus).    *)
(***************************************************************************)
EXTENDS MCEnforcementPipeline, HotReload

VARIABLE focus

\* What a behaviour is not about starts in one way only.
MCInit ==
    /\ focus \in {"pipeline", "reload"} /\ Init /\ HotInit
    /\ focus # "pipeline" => cedar.default = "permit" /\ ~installing
    /\ focus # "reload" => disk.bundle = [form |-> "bundle", version |-> 1, rules |-> {}]

(* The steps of EnforcementPipeline, each taken from the states it starts  *)
(* with.  The properties of the pipeline are about states, and every state *)
(* its other steps lead to is reached by these as well: the components are *)
(* loaded in any order and independently of each other.                    *)
PipelineStep ==
    \/ /\ cedar.rules = <<>>
       /\ \E rs \in RuleLists(CedarPool), e \in {"permit", "forbid"} : RebuildEngine(rs, e)
    \/ json = None /\ \E rs \in RuleLists(JsonPool) : SwapJsonRules(rs)
    \/ autoPermits = {} /\ \E ps \in SUBSET Patterns : SwapAutoPermits(ps)
    \/ \E k \in ApprovalKeys : AddSessionAutoApproval(k)
    \/ ClearSessionAutoApprovals
    \/ \E w \in Windows : WindowFills(w) \/ WindowSlides(w)

MCNext ==
    /\ UNCHANGED focus
    /\ \/ focus = "pipeline" /\ PipelineStep /\ UNCHANGED hotVars
       \/ focus = "reload" /\ HotNext /\ UNCHANGED vars

MCSpec == MCInit /\ [][MCNext]_<<focus, vars, hotVars>> /\ HotFairness
================================================================================
