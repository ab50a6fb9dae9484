------------------------------ MODULE EnvStore ------------------------------
(***************************************************************************)
(* What a redundant environment promises: a register that survives power   *)
(* loss.  A save takes effect at one instant between its call and its      *)
(* return, or, when the power fails in between, possibly not at all; it    *)
(* returns only after it took effect; nothing else changes what is stored. *)
(***************************************************************************)
CONSTANTS
    Content,    \* what an environment may hold
    None,       \* nothing is stored
    Default     \* the built-in environment

VARIABLES
    stored,     \* what the next boot will load
    env,        \* the environment in memory
    state       \* "off", "ready" or "saving"

vars == <<stored, env, state>>

Loaded == IF stored = None THEN Default ELSE stored

Init ==
    /\ stored \in Content
    /\ env = Default
    /\ state = "off"

(* A load may fail in memory and leave the built-in environment. *)
Load ==
    /\ state \in {"off", "ready"}
    /\ env' \in {Loaded, Default}
    /\ state' = "ready"
    /\ UNCHANGED stored

SetEnv ==
    /\ state = "ready"
    /\ env' \in Content
    /\ UNCHANGED <<stored, state>>

BeginSave ==
    /\ state = "ready"
    /\ state' = "saving"
    /\ UNCHANGED <<stored, env>>

TakeEffect ==
    /\ state = "saving"
    /\ stored' = env
    /\ UNCHANGED <<env, state>>

EndSave ==
    /\ state = "saving"
    /\ stored = env
    /\ state' = "ready"
    /\ UNCHANGED <<stored, env>>

PowerLoss ==
    /\ state # "off"
    /\ state' = "off"
    /\ env' = Default
    /\ UNCHANGED stored

Next == Load \/ SetEnv \/ BeginSave \/ TakeEffect \/ EndSave \/ PowerLoss

Spec == Init /\ [][Next]_vars
=============================================================================
